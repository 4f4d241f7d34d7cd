-------------------------------- MODULE AuditLog --------------------------------
(* audit-log.subscriber.ts: an entry is made while the statement runs and    *)
(* saved on a later turn of the event loop, through the statement's own      *)
(* query runner.  systemSetup is the one transaction of several statements;   *)
(* what a save of one statement commits and tells is left out.               *)
EXTENDS ServerState

BesidesAudit == UNCHANGED <<settingVars, mailVars, roleVars, tokenVars>>

\* The parts of a set-up, which insert a role, then an administrator.
Inserted(c) == IF call[c].pc = "role" THEN {"role"} ELSE {"role", "admin"}

InTransaction(e) == {c \in Callers : call[c] # Idle /\ call[c].kind = "setup" /\ call[c].n = e[1]}

\* systemSetup: BEGIN and the INSERT of the role; the subscriber is told.
InsertRole(c) ==
    /\ At(c, "setup", "start")
    /\ Goto(c, "role")
    /\ pending' = pending \cup {<<call[c].n, "role">>}
    /\ UNCHANGED <<log, changes, ghost>> /\ BesidesAudit

InsertAdmin(c) ==
    /\ At(c, "setup", "role")
    /\ Goto(c, "admin")
    /\ pending' = pending \cup {<<call[c].n, "admin">>}
    /\ UNCHANGED <<log, changes, ghost>> /\ BesidesAudit

\* COMMIT: what was inserted, and the entries saved since.
Commit(c) ==
    /\ At(c, "setup", "admin")
    /\ changes' = changes \cup {<<call[c].n, x>> : x \in {"role", "admin"}}
    /\ log' = log \cup call[c].logged
    /\ Goto(c, "committed")
    /\ UNCHANGED <<pending, ghost>> /\ BesidesAudit

\* A statement fails (an e-mail or a name that is taken): ROLLBACK.
Rollback(c) ==
    /\ call[c].pc \in {"role", "admin"} /\ call[c].kind = "setup"
    /\ Keep(c, [call[c] EXCEPT !.pc = "rolledback", !.logged = {}])
    /\ UNCHANGED <<auditVars, ghost>> /\ BesidesAudit

\* The query runner is given back.
Release(c) ==
    /\ call[c].pc \in {"committed", "rolledback"} /\ call[c].kind = "setup"
    /\ Return(c)
    /\ UNCHANGED <<auditVars, ghost>> /\ BesidesAudit

\* Mutant: an entry is saved through a connection of its own.
SaveLog_Own(e) ==
    /\ e \in pending
    /\ pending' = pending \ {e} /\ log' = log \cup {e}
    /\ UNCHANGED <<callVars, changes, ghost>> /\ BesidesAudit

\* setImmediate: the entry is saved.  While the transaction is open, as a
\* part of it; once it ended and until the runner is given back, by itself,
\* whichever way the transaction ended.
SaveLog(e) ==
    /\ e \in pending
    /\ pending' = pending \ {e}
    /\ IF \E c \in InTransaction(e) : call[c].pc \in {"role", "admin"}
       THEN /\ call' = [c \in Callers |-> IF c \in InTransaction(e) THEN [call[c] EXCEPT !.logged = @ \cup {e}] ELSE call[c]]
            /\ UNCHANGED <<log, ghost>>
       ELSE /\ InTransaction(e) # {}
            /\ log' = log \cup {e}
            /\ ghost' = IF \E c \in InTransaction(e) : call[c].pc = "rolledback"
                        THEN [ghost EXCEPT !.late = @ \cup {e}] ELSE ghost
            /\ UNCHANGED call
    /\ UNCHANGED <<mix, calls, restarts, changes>> /\ BesidesAudit

\* The runner is gone, or the INSERT is refused: the entry is lost.
LoseLog(e) ==
    /\ e \in pending /\ \A c \in InTransaction(e) : call[c].pc \notin {"role", "admin"}
    /\ pending' = pending \ {e}
    /\ UNCHANGED <<callVars, log, changes, ghost>> /\ BesidesAudit

AuditStep(c) == InsertRole(c) \/ InsertAdmin(c) \/ Commit(c) \/ Rollback(c) \/ Release(c)

-------------------------------------------------------------------------------
\* The log tells of no change that was not made, unless the entry was saved
\* after its transaction was rolled back and before the runner was given back.
LogNeverLies == log \subseteq changes \cup ghost.late
===============================================================================
