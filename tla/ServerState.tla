------------------------------ MODULE ServerState ------------------------------
(***************************************************************************)
(* The state of one server process and of what it talks to, as far as the  *)
(* settings, the audit log, the mail queue and the roles share it: calls   *)
(* in progress, a memory that a restart empties (the settings' cache, the  *)
(* audit entries not yet saved, the worker's job), and the database, Redis *)
(* and access tokens, which a restart leaves alone.                        *)
(*                                                                         *)
(* Calls are numbered.  The value of a setting gives for every field the   *)
(* number of the update that wrote it, 0 for none.  An audit entry is a    *)
(* pair <<call, part>>, after the change it tells of.                      *)
(***************************************************************************)
EXTENDS Naturals, FiniteSets

CONSTANTS
    Callers,        \* requests that can be in progress together
    Fields,         \* the fields of a setting
    Roles, Perms,   \* the roles, and the permissions they may grant
    TokenLife,      \* the life of an access token, in ticks
    Attempts,       \* the attempts a mail job gets
    MaxStalled,     \* how often a job may stall (BullMQ)
    Mixes,          \* what calls are made side by side: their kinds, and a bound on their number
    MaxCalls,       \* the largest of these bounds
    MaxRestarts     \* bound on restarts

ASSUME ServerAssumption ==
    /\ TokenLife \in Nat \ {0} /\ Attempts \in Nat \ {0} /\ MaxStalled \in Nat
    /\ \A m \in Mixes : m.max \in 0 .. MaxCalls
    /\ MaxCalls \in Nat /\ MaxRestarts \in Nat
    /\ Roles # {}

VARIABLES
    mix,                    \* one of the mixes
    call, calls, restarts,  \* the calls in progress; bounds
    row, cache,             \* the setting's row and its cached value
    pending, log, changes,  \* audit entries to save, and saved; the inserts they tell of, once committed
    jobs, worker,           \* the mail jobs of Redis; what the worker does
    role, holder,           \* the roles, and the one the administrator has
    tokens, lost,           \* the administrator's access tokens; how long ago a permission was lost
    ghost                   \* history, read by properties only

settingVars == <<row, cache>>
auditVars == <<pending, log, changes>>
mailVars == <<jobs, worker>>
roleVars == <<role, holder>>
tokenVars == <<tokens, lost>>
callVars == <<mix, call, calls, restarts>>
vars == <<mix, call, calls, restarts, row, cache, pending, log, changes, jobs, worker, role, holder, tokens, lost, ghost>>

Idle == [pc |-> "idle"]
Blank == [f \in Fields |-> 0]
NoEntry == [there |-> FALSE, val |-> Blank]
Entry(v) == [there |-> TRUE, val |-> v]
NoJob == [state |-> "none"]
Rest == [job |-> 0, handed |-> FALSE]

\* What a role grants: everything if it is the system's, by its name.
Grants(r) == IF r.system THEN Perms ELSE r.perms

\* The role that comes with an administrator: the join leaves out removed ones.
NoRole == [system |-> FALSE, perms |-> {}, live |-> FALSE]
RoleOf(h) == IF role[h].live THEN role[h] ELSE NoRole

At(c, kind, pc) == call[c].pc = pc /\ call[c].kind = kind
Goto(c, pc) == call' = [call EXCEPT ![c].pc = pc] /\ UNCHANGED <<mix, calls, restarts>>
Keep(c, o) == call' = [call EXCEPT ![c] = o] /\ UNCHANGED <<mix, calls, restarts>>
Return(c) == call' = [call EXCEPT ![c] = Idle] /\ UNCHANGED <<mix, calls, restarts>>

SettingKinds == {"get", "update"}
SettingCalls == {c \in Callers : call[c] # Idle /\ call[c].kind \in SettingKinds}

\* A call begins; the record has what any kind of call remembers.
Begin(c, kind, arg) ==
    LET n == calls + 1 IN
    /\ call[c] = Idle /\ kind \in mix.kinds /\ calls < mix.max
    /\ call' = [call EXCEPT ![c] = [pc |-> "start", kind |-> kind, n |-> n, arg |-> arg,
                                    base |-> Blank, found |-> FALSE, role |-> NoRole, held |-> {}, logged |-> {}]]
    /\ calls' = n
    /\ ghost' = IF kind \notin SettingKinds THEN ghost
                ELSE [ghost EXCEPT !.met = [x \in DOMAIN @ |->
                        IF x = n THEN {call[d].n : d \in SettingCalls}
                        ELSE IF \E d \in SettingCalls : call[d].n = x THEN @[x] \cup {n} ELSE @[x]]]
    /\ UNCHANGED <<mix, restarts, settingVars, auditVars, mailVars, roleVars, tokenVars>>

ServerInit ==
    /\ mix \in Mixes
    /\ call = [c \in Callers |-> Idle] /\ calls = 0 /\ restarts = 0
    /\ row = NoEntry /\ cache = NoEntry
    /\ pending = {} /\ log = {} /\ changes = {}
    /\ jobs = [n \in 1 .. MaxCalls |-> NoJob] /\ worker = Rest
    /\ role = [r \in Roles |-> [system |-> FALSE, perms |-> Perms, live |-> TRUE]]
    /\ holder = CHOOSE r \in Roles : TRUE
    /\ tokens = {} /\ lost = [p \in Perms |-> IF p \in Grants(RoleOf(holder)) THEN 0 ELSE TokenLife]
    /\ ghost = [met |-> [n \in 1 .. MaxCalls |-> {}], raced |-> FALSE, late |-> {}, answered |-> {}]
===============================================================================
