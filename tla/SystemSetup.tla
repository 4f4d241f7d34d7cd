------------------------------ MODULE SystemSetup ------------------------------
(***************************************************************************)
(* The one-time set-up of the API (home.service.ts): POST /setup creates   *)
(* the first role and the first administrator in a transaction, after it   *)
(* has asked two cached questions, hasAdmin and hasRole, whether there are *)
(* any.  GET /setup/status asks the same questions.                        *)
(*                                                                         *)
(* hasAdmin and hasRole read a flag in the cache; on a miss they count the *)
(* rows and store the answer for a minute.  createWithManager deletes the  *)
(* flag without awaiting it and before the transaction commits.  The other *)
(* operations that create or remove roles and administrators never touch   *)
(* the flags.                                                              *)
(*                                                                         *)
(* Abstractions.  A table is the set of the unique names (role name,       *)
(* e-mail) of its live rows; password and permissions are left out.  The   *)
(* memory and the Redis tier of the cache are one store.  A transaction    *)
(* holds its rows back until it commits, and an INSERT waits for another   *)
(* transaction that holds a row of the same name.                          *)
(***************************************************************************)
EXTENDS Naturals, FiniteSets

CONSTANTS
    Requests,    \* the HTTP requests that can be in progress together
    RoleNames,   \* names of roles
    Emails,      \* e-mails of administrators
    Empty,       \* an absent cache entry
    MaxSetups    \* where the count of successful set-ups saturates

ASSUME SetupAssumption ==
    /\ Empty \notin BOOLEAN
    /\ MaxSetups \in Nat \ {0}

Flags == {"admin", "role"}
Names(f) == IF f = "role" THEN RoleNames ELSE Emails

VARIABLES
    live,     \* per table, the names of its committed live rows
    cache,    \* SYSTEM_HAS_ADMIN and SYSTEM_HAS_ROLE
    dels,     \* deletions of a flag issued and not yet executed
    req,      \* the handler that runs in each request
    \* history variables
    setups,   \* successful set-ups
    touched   \* whether rows were created or removed other than by a set-up

vars == <<live, cache, dels, req, setups, touched>>

\* One of the two questions, on its way: v is the answer once it is known.
Probe == [st : {"get", "count", "set", "done"}, v : BOOLEAN]
NewProbe == [st |-> "get", v |-> FALSE]

Idle == [pc |-> "idle"]
Handler == {Idle}
    \cup [pc : {"probe"}, op : {"status", "setup"}, role : RoleNames,
          email : Emails, probe : [Flags -> Probe]]
    \cup [pc : {"role", "admin", "commit"}, role : RoleNames, email : Emails]

-------------------------------------------------------------------------------

Init ==
    /\ live = [f \in Flags |-> {}]
    /\ cache = [f \in Flags |-> Empty]
    /\ dels = {}
    /\ req = [r \in Requests |-> Idle]
    /\ setups = 0
    /\ touched = FALSE

\* initialStatus and systemSetup start both questions at once (Promise.all).
Arrive(r, op, n, m) ==
    /\ req[r] = Idle
    /\ req' = [req EXCEPT ![r] = [pc |-> "probe", op |-> op, role |-> n,
           email |-> m, probe |-> [f \in Flags |-> NewProbe]]]
    /\ UNCHANGED <<live, cache, dels, setups, touched>>

Asking(r, f, st) == req[r].pc = "probe" /\ req[r].probe[f].st = st
Move(r, f, st, v) == req' = [req EXCEPT ![r].probe[f] = [st |-> st, v |-> v]]

\* Mutant: a hit renews the entry's minute.
ProbeGet_Renew(r, f) ==
    /\ Asking(r, f, "get")
    /\ IF cache[f] = Empty THEN Move(r, f, "count", FALSE)
                           ELSE Move(r, f, "set", cache[f])
    /\ UNCHANGED <<live, cache, dels, setups, touched>>

\* hasAdmin / hasRole: the cached answer, if there is one.
ProbeGet(r, f) ==
    /\ Asking(r, f, "get")
    /\ IF cache[f] = Empty THEN Move(r, f, "count", FALSE)
                           ELSE Move(r, f, "done", cache[f])
    /\ UNCHANGED <<live, cache, dels, setups, touched>>

\* Mutant: one row is taken for none.
ProbeCount_OffByOne(r, f) ==
    /\ Asking(r, f, "count")
    /\ Move(r, f, "set", Cardinality(live[f]) > 1)
    /\ UNCHANGED <<live, cache, dels, setups, touched>>

\* The repository counts the committed live rows.
ProbeCount(r, f) ==
    /\ Asking(r, f, "count")
    /\ Move(r, f, "set", live[f] # {})
    /\ UNCHANGED <<live, cache, dels, setups, touched>>

\* The answer is cached.
ProbeSet(r, f) ==
    /\ Asking(r, f, "set")
    /\ cache' = [cache EXCEPT ![f] = req[r].probe[f].v]
    /\ Move(r, f, "done", req[r].probe[f].v)
    /\ UNCHANGED <<live, dels, setups, touched>>

Answered(r) == req[r].pc = "probe" /\ \A f \in Flags : Asking(r, f, "done")

\* Mutant: the test of initialStatus (`&&`) is used for systemSetup too.
Decide_And(r) ==
    /\ Answered(r)
    /\ req' = [req EXCEPT ![r] =
           IF req[r].op = "status" \/ \A f \in Flags : req[r].probe[f].v
           THEN Idle
           ELSE [pc |-> "role", role |-> req[r].role, email |-> req[r].email]]
    /\ UNCHANGED <<live, cache, dels, setups, touched>>

\* A status request is answered.  A set-up ends with 403 if there is an
\* administrator or a role, else its transaction begins.
Decide(r) ==
    /\ Answered(r)
    /\ req' = [req EXCEPT ![r] =
           IF req[r].op = "status" \/ \E f \in Flags : req[r].probe[f].v
           THEN Idle
           ELSE [pc |-> "role", role |-> req[r].role, email |-> req[r].email]]
    /\ UNCHANGED <<live, cache, dels, setups, touched>>

-------------------------------------------------------------------------------
(* The transaction of systemSetup *)

\* Another transaction holds an uncommitted row of this name: the INSERT waits.
HeldRole(r) == \E q \in Requests \ {r} :
    req[q].pc \in {"admin", "commit"} /\ req[q].role = req[r].role
HeldAdmin(r) == \E q \in Requests \ {r} :
    req[q].pc = "commit" /\ req[q].email = req[r].email

\* Mutant: the role is saved outside the transaction.
InsertRole_OwnRepository(r) ==
    /\ req[r].pc = "role" /\ ~ HeldRole(r) /\ req[r].role \notin live["role"]
    /\ live' = [live EXCEPT !["role"] = @ \cup {req[r].role}]
    /\ dels' = dels \cup {"role"}
    /\ req' = [req EXCEPT ![r].pc = "admin"]
    /\ UNCHANGED <<cache, setups, touched>>

\* RoleService.createWithManager: save, then a deletion nobody awaits.
InsertRole(r) ==
    /\ req[r].pc = "role" /\ ~ HeldRole(r) /\ req[r].role \notin live["role"]
    /\ dels' = dels \cup {"role"}
    /\ req' = [req EXCEPT ![r].pc = "admin"]
    /\ UNCHANGED <<live, cache, setups, touched>>

\* AdminUserService.createWithManager.
InsertAdmin(r) ==
    /\ req[r].pc = "admin" /\ ~ HeldAdmin(r) /\ req[r].email \notin live["admin"]
    /\ dels' = dels \cup {"admin"}
    /\ req' = [req EXCEPT ![r].pc = "commit"]
    /\ UNCHANGED <<live, cache, setups, touched>>

\* The name is taken: the unique index rejects the INSERT, 409 and a rollback.
InsertRejected(r) ==
    /\ \/ req[r].pc = "role" /\ ~ HeldRole(r) /\ req[r].role \in live["role"]
       \/ req[r].pc = "admin" /\ ~ HeldAdmin(r) /\ req[r].email \in live["admin"]
    /\ req' = [req EXCEPT ![r] = Idle]
    /\ UNCHANGED <<live, cache, dels, setups, touched>>

\* The transaction commits.
Commit(r) ==
    /\ req[r].pc = "commit"
    /\ live' = [live EXCEPT !["role"] = @ \cup {req[r].role},
                            !["admin"] = @ \cup {req[r].email}]
    /\ req' = [req EXCEPT ![r] = Idle]
    /\ setups' = IF setups < MaxSetups THEN setups + 1 ELSE setups
    /\ UNCHANGED <<cache, dels, touched>>

\* An awaited call is rejected: the handler ends, its transaction rolls back.
FailIO(r) ==
    /\ req[r] # Idle
    /\ req' = [req EXCEPT ![r] = Idle]
    /\ UNCHANGED <<live, cache, dels, setups, touched>>

-------------------------------------------------------------------------------
(* The cache and the rest of the system *)

\* A deletion of a flag is executed, or it fails and nobody learns.
RunDel(f) ==
    /\ f \in dels
    /\ dels' = dels \ {f}
    /\ cache' = [cache EXCEPT ![f] = Empty]
    /\ UNCHANGED <<live, req, setups, touched>>

LoseDel(f) ==
    /\ f \in dels
    /\ dels' = dels \ {f}
    /\ UNCHANGED <<live, cache, req, setups, touched>>

\* 60 000 ms have passed.
Expire(f) ==
    /\ cache[f] # Empty
    /\ cache' = [cache EXCEPT ![f] = Empty]
    /\ UNCHANGED <<live, dels, req, setups, touched>>

\* RoleService.create, AdminUserService.create, register.  They need a signed-in
\* administrator or an existing role, hence an earlier set-up.
Create(f, n) ==
    /\ setups > 0 /\ n \in Names(f) \ live[f]
    /\ ~ \E r \in Requests :
           \/ f = "role" /\ req[r].pc \in {"admin", "commit"} /\ req[r].role = n
           \/ f = "admin" /\ req[r].pc = "commit" /\ req[r].email = n
    /\ live' = [live EXCEPT ![f] = @ \cup {n}]
    /\ touched' = TRUE
    /\ UNCHANGED <<cache, dels, req, setups>>

\* RoleService.remove, AdminUserService.remove: a role that is in use and the
\* last administrator can be removed like any other.
Remove(f, n) ==
    /\ n \in live[f]
    /\ live' = [live EXCEPT ![f] = @ \ {n}]
    /\ touched' = TRUE
    /\ UNCHANGED <<cache, dels, req, setups>>

\* The process restarts; the flags in Redis stay.
Crash ==
    /\ \E r \in Requests : req[r] # Idle
    /\ req' = [r \in Requests |-> Idle]
    /\ dels' = {}
    /\ UNCHANGED <<live, cache, setups, touched>>

-------------------------------------------------------------------------------

Handling(r) ==
    \/ \E f \in Flags : ProbeGet(r, f) \/ ProbeCount(r, f) \/ ProbeSet(r, f)
    \/ Decide(r)
    \/ InsertRole(r)
    \/ InsertAdmin(r)
    \/ InsertRejected(r)
    \/ Commit(r)
    \/ FailIO(r)

Next ==
    \/ \E r \in Requests, op \in {"status", "setup"}, n \in RoleNames, m \in Emails :
           Arrive(r, op, n, m)
    \/ \E r \in Requests : Handling(r)
    \/ \E f \in Flags : RunDel(f) \/ LoseDel(f) \/ Expire(f)
    \/ \E f \in Flags : \E n \in Names(f) : Create(f, n) \/ Remove(f, n)
    \/ Crash

Spec == Init /\ [][Next]_vars

\* Handlers go on when their await is answered; entries expire.
Fairness ==
    /\ \A r \in Requests : WF_vars(Handling(r))
    /\ \A f \in Flags : WF_vars(Expire(f)) /\ WF_vars(RunDel(f) \/ LoseDel(f))

FairSpec == Spec /\ Fairness

-------------------------------------------------------------------------------

TypeOK ==
    /\ live \in [Flags -> SUBSET (RoleNames \cup Emails)]
    /\ \A f \in Flags : live[f] \subseteq Names(f)
    /\ cache \in [Flags -> BOOLEAN \cup {Empty}]
    /\ dels \subseteq Flags
    /\ req \in [Requests -> Handler]
    /\ setups \in 0 .. MaxSetups
    /\ touched \in BOOLEAN

\* Set-ups are transactions: as long as nothing else wrote the tables, there is
\* a role exactly when there is an administrator, whatever was rejected, rolled
\* back or killed half-way (systemSetup).
AllOrNothing ==
    ~ touched => (live["role"] = {} <=> live["admin"] = {})

\* "There is none" is in the cache, or a handler is about to put it there or to
\* act on it.
Stale(f) ==
    \/ cache[f] = FALSE
    \/ \E r \in Requests : \E st \in {"set", "done"} :
           Asking(r, f, st) /\ ~ req[r].probe[f].v

\* The deletion of a flag can come before the commit, and a question asked in
\* between caches "none" again.  But once every such answer is gone, "none" is
\* not cached or believed again while rows remain (hasAdmin, hasRole).
StalenessIsNotRenewed ==
    [][\A f \in Flags :
           live[f] # {} /\ live'[f] # {} /\ ~ Stale(f) => ~ Stale(f)']_vars

\* One known table is enough to close the set-up: no transaction begins while
\* one of the tables has rows and nothing says it has none.
SetupClosed ==
    [][(\E f \in Flags : live[f] # {} /\ ~ Stale(f)) =>
           \A r \in Requests : req'[r].pc = "role" => req[r].pc = "role"]_vars

\* When rows stay, "none" finally leaves the cache for good.
StalenessEnds ==
    \A f \in Flags : <>[](live[f] # {}) => <>[](cache[f] # FALSE)

===============================================================================
