-------------------------------- MODULE Policies --------------------------------
(* role.service.ts, the role of an administrator, and access tokens that     *)
(* carry a copy of it, which is all that policies.guard.ts looks at.  A sign- *)
(* in or refresh reads and signs within one tick.                            *)
EXTENDS ServerState

BesidesPolicies == UNCHANGED <<settingVars, auditVars, mailVars, ghost>>

\* A permission the administrator has by now was not lost.
NoteHeld == lost' = [p \in Perms |-> IF p \in Grants(RoleOf(holder))' THEN 0 ELSE lost[p]]

\* update and remove: the role, which must be there.
FindRole(c) ==
    /\ call[c].pc = "start" /\ call[c].kind \in {"role", "unrole"}
    /\ IF role[call[c].arg.r].live THEN Goto(c, "save") ELSE Return(c)
    /\ UNCHANGED <<roleVars, tokenVars>> /\ BesidesPolicies

\* update saves all three fields and with them the deleted_at it read; a name
\* that another role has is refused.
SaveRole(c) ==
    LET a == call[c].arg IN
    /\ At(c, "role", "save")
    /\ IF a.system /\ \E r \in Roles \ {a.r} : role[r].live /\ role[r].system
       THEN UNCHANGED role
       ELSE role' = [role EXCEPT ![a.r] = [system |-> a.system, perms |-> a.perms, live |-> TRUE]]
    /\ Return(c)
    /\ UNCHANGED <<holder, tokens>> /\ NoteHeld /\ BesidesPolicies

\* remove: a soft removal; its holders keep it, and join nothing.
RemoveRole(c) ==
    /\ At(c, "unrole", "save")
    /\ role' = [role EXCEPT ![call[c].arg.r].live = FALSE]
    /\ Return(c)
    /\ UNCHANGED <<holder, tokens>> /\ NoteHeld /\ BesidesPolicies

\* AdminUserService.update reads the administrator, and with it (`role` is an
\* eager relation) the role held, unless that is removed ...
LoadHeld(c) ==
    /\ At(c, "assign", "start")
    /\ Keep(c, [call[c] EXCEPT !.pc = "find", !.held = {h \in {holder} : role[h].live}])
    /\ UNCHANGED <<roleVars, tokenVars>> /\ BesidesPolicies

\* ... looks the new role up ...
FindNewRole(c) ==
    /\ At(c, "assign", "find")
    /\ IF role[call[c].arg.r].live THEN Goto(c, "save") ELSE Return(c)
    /\ UNCHANGED <<roleVars, tokenVars>> /\ BesidesPolicies

\* ... and sets only `roleId`.  TypeORM's save takes the join column from the
\* relation as long as one is loaded: the old role is kept.
AssignRole(c) ==
    /\ At(c, "assign", "save")
    /\ holder' \in IF call[c].held = {} THEN {call[c].arg.r} ELSE call[c].held
    /\ Return(c)
    /\ UNCHANGED <<role, tokens>> /\ NoteHeld /\ BesidesPolicies

\* login and refreshToken read the administrator with the role ...
LoadAdmin(c) ==
    /\ At(c, "sign", "start")
    /\ Keep(c, [call[c] EXCEPT !.pc = "sign", !.role = RoleOf(holder)])
    /\ UNCHANGED <<roleVars, tokenVars>> /\ BesidesPolicies

\* Mutant: the new token takes the role over from an old one.
CreateToken_Copies(c) ==
    /\ At(c, "sign", "sign")
    /\ tokens' = tokens \cup {[role |-> r, left |-> TokenLife] : r \in {call[c].role} \cup {t.role : t \in tokens}}
    /\ Return(c)
    /\ UNCHANGED <<lost, roleVars>> /\ BesidesPolicies

\* createToken: the access token holds a copy of the role.
CreateToken(c) ==
    /\ At(c, "sign", "sign")
    /\ tokens' = tokens \cup {[role |-> call[c].role, left |-> TokenLife]}
    /\ Return(c)
    /\ UNCHANGED <<lost, roleVars>> /\ BesidesPolicies

\* A tick: tokens age and expire, and so does the loss of a permission.
Tick ==
    /\ \A c \in Callers : ~At(c, "sign", "sign")
    /\ tokens' = {[t EXCEPT !.left = @ - 1] : t \in {u \in tokens : u.left > 1}}
    /\ lost' = [p \in Perms |-> IF p \in Grants(RoleOf(holder)) THEN 0
                                ELSE IF lost[p] < TokenLife THEN lost[p] + 1 ELSE lost[p]]
    /\ UNCHANGED <<callVars, roleVars>> /\ BesidesPolicies

PolicyStep(c) ==
    \/ FindRole(c) \/ SaveRole(c) \/ RemoveRole(c) \/ LoadHeld(c) \/ FindNewRole(c) \/ AssignRole(c)
    \/ LoadAdmin(c) \/ CreateToken(c)

-------------------------------------------------------------------------------
\* PoliciesGuard: the route's policies all hold of the role in the token
\* (CheckAnyPolicies: one of them), which AdminJwtStrategy accepts until it
\* expires.
Allowed(need, any) ==
    \E t \in tokens : IF any THEN need \cap Grants(t.role) # {} ELSE need \subseteq Grants(t.role)

\* An administrator who lost a permission, by a change of the role or its
\* removal, or by the new role that can follow a removed one, is refused what
\* needs it one token life later, whoever signs in or refreshes meanwhile.
\* (A new role given to a holder of a role that is still there takes nothing
\* away: AssignRole.)
RevocationTakesEffect ==
    \A need \in (SUBSET Perms) \ {{}}, any \in BOOLEAN :
        Allowed(need, any) => \E p \in need : lost[p] < TokenLife
===============================================================================
