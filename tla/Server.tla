--------------------------------- MODULE Server ---------------------------------
(***************************************************************************)
(* The settings, the audit log, the mail queue and the roles in one server *)
(* process, which may restart between any two steps.                       *)
(***************************************************************************)
EXTENDS Settings, AuditLog, MailQueue, Policies

\* What the calls of a kind are made with.
Args(kind) ==
    CASE kind = "update" -> (SUBSET Fields) \ {{}}
      [] kind = "role" -> [r : Roles, system : BOOLEAN, perms : SUBSET Perms]
      [] kind \in {"unrole", "assign"} -> [r : Roles]
      [] OTHER -> {{}}

\* Mutant: the settings are cached outside of the process.
Restart_KeepsCache ==
    /\ restarts < MaxRestarts /\ restarts' = restarts + 1
    /\ call' = [c \in Callers |-> Idle]
    /\ pending' = {} /\ worker' = Rest
    /\ UNCHANGED <<mix, calls, row, cache, log, changes, jobs, roleVars, tokenVars, ghost>>

\* The process stops and starts again: its calls, its cache, the entries it
\* was to save and the worker's job are gone, a transaction is rolled back.
Restart ==
    /\ restarts < MaxRestarts /\ restarts' = restarts + 1
    /\ call' = [c \in Callers |-> Idle]
    /\ cache' = NoEntry /\ pending' = {} /\ worker' = Rest
    /\ ghost' = [ghost EXCEPT !.raced = FALSE]
    /\ UNCHANGED <<mix, calls, row, log, changes, jobs, roleVars, tokenVars>>

Next ==
    \/ \E c \in Callers, k \in mix.kinds : \E a \in Args(k) : Begin(c, k, a)
    \/ \E c \in Callers : SettingStep(c) \/ AuditStep(c) \/ AddJob(c) \/ PolicyStep(c)
    \/ \E n \in 1 .. MaxCalls : JobStep(n)
    \/ \E e \in pending : SaveLog(e) \/ LoseLog(e)
    \/ Expire \/ Tick \/ Restart

\* The worker and the checks of BullMQ go on as long as the server is there.
Fairness ==
    \A n \in 1 .. MaxCalls :
        /\ SF_vars(Pick(n)) /\ WF_vars(Send(n)) /\ WF_vars(Complete(n) \/ Refuse(n))
        /\ WF_vars(BackoffOver(n)) /\ WF_vars(Stalled(n))

Spec == ServerInit /\ [][Next]_vars /\ Fairness
===============================================================================
