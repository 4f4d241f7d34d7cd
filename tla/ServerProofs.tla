------------------------------ MODULE ServerProofs ------------------------------
(***************************************************************************)
(* Proofs about Server.  The calls of the four components share nothing    *)
(* but the process, so the argument has two layers: every step but Begin   *)
(* and Restart moves calls of its own kinds only (Only), and the invariant *)
(* of each component is kept by its own steps and by whatever moves calls  *)
(* of other kinds.                                                         *)
(***************************************************************************)
EXTENDS Server, TLAPS

-------------------------------------------------------------------------------
(* Types *)

Kinds == UNION {m.kinds : m \in Mixes}
AllArgs == UNION {Args(k) : k \in Kinds}
Pcs == {"start", "read", "fill", "find", "save", "del",
        "role", "admin", "committed", "rolledback", "sign"}
Numbers == 1 .. MaxCalls
Inserts == Numbers \X {"role", "admin"}
Values == [Fields -> 0 .. MaxCalls]
RoleType == [system : BOOLEAN, perms : SUBSET Perms, live : BOOLEAN]
JobStates == {"waiting", "active", "delayed", "completed", "failed"}
JobRecord == [state : JobStates, attempts : {Attempts}, refused : Nat, stalled : Nat, sent : Nat]
CallRecord == [pc : Pcs, kind : Kinds, n : Numbers, arg : AllArgs, base : Values,
               found : BOOLEAN, role : RoleType, held : SUBSET Roles, logged : SUBSET Inserts]

CallsTyped ==
    /\ mix \in Mixes /\ calls \in 0 .. MaxCalls /\ restarts \in 0 .. MaxRestarts
    /\ call \in [Callers -> {Idle} \cup CallRecord]
SettingsTyped == {row, cache} \subseteq [there : BOOLEAN, val : Values]
AuditTyped == {pending, log, changes} \subseteq SUBSET Inserts
MailTyped ==
    /\ jobs \in [Numbers -> {NoJob} \cup JobRecord]
    /\ worker \in [job : 0 .. MaxCalls, handed : BOOLEAN]
    /\ worker.job # 0 => jobs[worker.job] # NoJob
RolesTyped ==
    /\ role \in [Roles -> RoleType] /\ holder \in Roles
    /\ tokens \subseteq [role : RoleType, left : 1 .. TokenLife]
    /\ lost \in [Perms -> 0 .. TokenLife]
GhostTyped ==
    ghost \in [met : [Numbers -> SUBSET Numbers], raced : BOOLEAN, late : SUBSET Inserts,
               answered : SUBSET [n : Numbers, arg : AllArgs]]

Typed == CallsTyped /\ SettingsTyped /\ AuditTyped /\ MailTyped /\ RolesTyped /\ GhostTyped

\* A call has a number of its own, already given, and an argument of its kind.
Numbered ==
    /\ \A c \in Callers : call[c] # Idle => call[c].n <= calls /\ call[c].arg \in Args(call[c].kind)
    /\ \A c, d \in Callers : call[c] # Idle /\ call[d] # Idle /\ call[c].n = call[d].n => c = d

-------------------------------------------------------------------------------
(* What a step does to the calls *)

\* A later record of the call o.
Follows(o, o2) == o2 \in CallRecord /\ o2.kind = o.kind /\ o2.n = o.n /\ o2.arg = o.arg

\* The call goes on, or returns.
Moved(c) == call[c] # Idle /\ (call'[c] = Idle \/ Follows(call[c], call'[c]))

\* Only calls of these kinds do.
Only(ks) ==
    /\ UNCHANGED <<mix, calls, restarts>>
    /\ call' \in [Callers -> {Idle} \cup CallRecord]
    /\ \A c \in Callers : call'[c] = call[c] \/ (Moved(c) /\ call[c].kind \in ks)

\* Returning, going to another await and keeping what was read are such moves.
LEMMA KeepMoves ==
    ASSUME CallsTyped, NEW c \in Callers, NEW o, Keep(c, o), call[c] # Idle,
           o = Idle \/ Follows(call[c], o)
    PROVE  Only({call[c].kind})
  BY DEF CallsTyped, Keep, Only, Moved, Follows

LEMMA IdleIsNoRecord == Idle \notin CallRecord
  BY DEF Idle, CallRecord, Pcs

LEMMA ReturnMoves ==
    ASSUME CallsTyped, NEW c \in Callers, Return(c), call[c] # Idle
    PROVE  Only({call[c].kind})
  BY KeepMoves DEF Return, Keep

LEMMA GotoMoves ==
    ASSUME CallsTyped, NEW c \in Callers, NEW pc \in Pcs, Goto(c, pc), call[c] # Idle
    PROVE  Only({call[c].kind})
<1>1. call[c] \in CallRecord
  BY DEF CallsTyped
<1>2. Follows(call[c], [call[c] EXCEPT !.pc = pc])
  BY <1>1 DEF CallRecord, Follows
<1>3. Keep(c, [call[c] EXCEPT !.pc = pc])
  BY DEF Goto, Keep
<1>4. QED
  BY <1>2, <1>3, KeepMoves

LEMMA OnlyMore ==
    ASSUME NEW ks, NEW ls, ks \subseteq ls, Only(ks)
    PROVE  Only(ls)
  BY DEF Only

\* Such moves keep the calls numbered.
LEMMA OnlyKeepsNumbers ==
    ASSUME Numbered, NEW ks, Only(ks)
    PROVE  Numbered'
<1>1. \A c \in Callers : call'[c] # Idle =>
          call[c] # Idle /\ call'[c].n = call[c].n /\ call'[c].kind = call[c].kind /\ call'[c].arg = call[c].arg
  BY DEF Only, Moved, Follows
<1>2. calls' = calls
  BY DEF Only
<1>3. \A c \in Callers : call'[c] # Idle => call'[c].n <= calls' /\ call'[c].arg \in Args(call'[c].kind)
  BY <1>1, <1>2 DEF Numbered
<1>4. \A c, d \in Callers : call'[c] # Idle /\ call'[d] # Idle /\ call'[c].n = call'[d].n => c = d
  BY <1>1 DEF Numbered
<1>5. QED
  BY <1>3, <1>4 DEF Numbered, Idle, Args

-------------------------------------------------------------------------------
(* The steps of each component move its calls only, and keep the types *)

LEMMA MergedIsValue ==
    ASSUME NEW o \in CallRecord
    PROVE  Merged(o) \in Values
  BY DEF Merged, CallRecord, Values, Numbers

LEMMA SettingMoves ==
    ASSUME Typed, NEW c \in Callers, SettingStep(c)
    PROVE  Only(SettingKinds) /\ Typed'
<1>1. call[c] \in CallRecord /\ call[c] # Idle /\ call[c].kind \in SettingKinds /\ call[c].base \in Values
  BY DEF Typed, CallsTyped, CallRecord, SettingStep, Hit, Miss, ReadRow, Fill, FindRow, SaveRow, DelEntry, SettingFails, At, SettingKinds, Idle
<1>2. /\ row.there \in BOOLEAN /\ row.val \in Values
      /\ cache.there \in BOOLEAN /\ cache.val \in Values
  BY DEF Typed, SettingsTyped
<1>3. \A pc \in Pcs, b \in Values : Follows(call[c], [call[c] EXCEPT !.pc = pc, !.base = b])
  BY <1>1 DEF CallRecord, Follows
<1>4. \A pc \in Pcs, b \in BOOLEAN : Follows(call[c], [call[c] EXCEPT !.pc = pc, !.found = b])
  BY <1>1 DEF CallRecord, Follows
<1>5. Only({call[c].kind}) => Only(SettingKinds)
  BY <1>1, OnlyMore
<1>6. UNCHANGED <<auditVars, mailVars, roleVars, tokenVars>>
  BY DEF SettingStep, Hit, Miss, ReadRow, Fill, FindRow, SaveRow, DelEntry, SettingFails, BesidesSettings
<1>7. Only(SettingKinds) /\ SettingsTyped' /\ GhostTyped'
  <2>1. CASE Hit(c)
    <3>1. ASSUME call[c].kind = "get" PROVE Only(SettingKinds)
      BY <1>1, <1>5, <2>1, <3>1, ReturnMoves DEF Typed, Hit
    <3>2. ASSUME call[c].kind # "get" PROVE Only(SettingKinds)
      BY <1>1, <1>2, <1>3, <1>5, <2>1, <3>2, KeepMoves DEF Typed, Hit, Pcs
    <3>3. UNCHANGED <<row, cache, ghost>>
      BY <2>1 DEF Hit, settingVars
    <3>4. QED
      BY <3>1, <3>2, <3>3 DEF Typed, SettingsTyped, GhostTyped
  <2>2. CASE Miss(c)
    <3>1. Only(SettingKinds)
      BY <1>1, <1>5, <2>2, GotoMoves DEF Typed, Miss, Pcs
    <3>2. UNCHANGED <<row, cache, ghost>>
      BY <2>2 DEF Miss, settingVars
    <3>3. QED
      BY <3>1, <3>2 DEF Typed, SettingsTyped, GhostTyped
  <2>3. CASE ReadRow(c)
    <3>1. Only(SettingKinds)
      BY <1>1, <1>2, <1>3, <1>5, <2>3, KeepMoves DEF Typed, ReadRow, Pcs
    <3>2. UNCHANGED <<row, cache, ghost>>
      BY <2>3 DEF ReadRow, settingVars
    <3>3. QED
      BY <3>1, <3>2 DEF Typed, SettingsTyped, GhostTyped
  <2>4. CASE Fill(c)
    <3>1. Only(SettingKinds)
      BY <1>1, <1>5, <2>4, ReturnMoves, GotoMoves DEF Typed, Fill, Pcs
    <3>2. SettingsTyped'
      BY <1>1, <2>4 DEF Typed, SettingsTyped, Fill, Entry
    <3>3. GhostTyped'
      BY <2>4 DEF Typed, GhostTyped, Fill
    <3>4. QED
      BY <3>1, <3>2, <3>3
  <2>5. CASE FindRow(c)
    <3>1. Only(SettingKinds)
      BY <1>1, <1>2, <1>4, <1>5, <2>5, KeepMoves DEF Typed, FindRow, Pcs
    <3>2. UNCHANGED <<row, cache, ghost>>
      BY <2>5 DEF FindRow, settingVars
    <3>3. QED
      BY <3>1, <3>2 DEF Typed, SettingsTyped, GhostTyped
  <2>6. CASE SaveRow(c)
    <3>1. Only(SettingKinds)
      BY <1>1, <1>5, <2>6, ReturnMoves, GotoMoves DEF Typed, SaveRow, Pcs
    <3>2. Entry(Merged(call[c])) \in [there : BOOLEAN, val : Values]
      BY <1>1, MergedIsValue DEF Entry
    <3>3. row' \in {row, Entry(Merged(call[c]))} /\ cache' = cache
      BY <2>6 DEF SaveRow
    <3>4. SettingsTyped'
      BY <3>2, <3>3 DEF Typed, SettingsTyped
    <3>5. GhostTyped'
      BY <2>6 DEF Typed, GhostTyped, SaveRow
    <3>6. QED
      BY <3>1, <3>4, <3>5
  <2>7. CASE DelEntry(c)
    <3>1. Only(SettingKinds)
      BY <1>1, <1>5, <2>7, ReturnMoves DEF Typed, DelEntry
    <3>2. SettingsTyped'
      BY <2>7, ServerAssumption DEF Typed, SettingsTyped, DelEntry, NoEntry, Blank, Values
    <3>3. [n |-> call[c].n, arg |-> call[c].arg] \in [n : Numbers, arg : AllArgs]
      BY <1>1 DEF CallRecord
    <3>4. GhostTyped'
      BY <2>7, <3>3 DEF Typed, GhostTyped, DelEntry
    <3>5. QED
      BY <3>1, <3>2, <3>4
  <2>8. CASE SettingFails(c)
    <3>1. Only(SettingKinds)
      BY <1>1, <1>5, <2>8, ReturnMoves DEF Typed, SettingFails
    <3>2. UNCHANGED <<row, cache, ghost>>
      BY <2>8 DEF SettingFails, settingVars
    <3>3. QED
      BY <3>1, <3>2 DEF Typed, SettingsTyped, GhostTyped
  <2>9. QED
    BY <2>1, <2>2, <2>3, <2>4, <2>5, <2>6, <2>7, <2>8 DEF SettingStep
<1>8. QED
  BY <1>6, <1>7 DEF Typed, CallsTyped, Only, AuditTyped, MailTyped, RolesTyped,
                    auditVars, mailVars, roleVars, tokenVars

LEMMA AuditMoves ==
    ASSUME Typed, NEW c \in Callers, AuditStep(c)
    PROVE  /\ Only({"setup"}) /\ Typed' /\ UNCHANGED <<settingVars, mailVars, roleVars, tokenVars, ghost>>
           /\ call[c] # Idle /\ call[c].kind = "setup"
<1>1. call[c] \in CallRecord /\ call[c] # Idle /\ call[c].kind = "setup" /\ call[c].n \in Numbers
  BY DEF Typed, CallsTyped, CallRecord, AuditStep, InsertRole, InsertAdmin, Commit, Rollback, Release, At, Idle
<1>2. \A x \in {"role", "admin"} : <<call[c].n, x>> \in Inserts
  BY <1>1 DEF Inserts
<1>3. UNCHANGED <<settingVars, mailVars, roleVars, tokenVars, ghost>>
  BY DEF AuditStep, InsertRole, InsertAdmin, Commit, Rollback, Release, BesidesAudit
<1>4. Only({"setup"}) /\ AuditTyped'
  <2>1. CASE InsertRole(c)
    <3>1. Only({"setup"})
      BY <1>1, <2>1, GotoMoves DEF Typed, InsertRole, Pcs
    <3>2. AuditTyped'
      BY <1>2, <2>1 DEF Typed, AuditTyped, InsertRole
    <3>3. QED
      BY <3>1, <3>2
  <2>2. CASE InsertAdmin(c)
    <3>1. Only({"setup"})
      BY <1>1, <2>2, GotoMoves DEF Typed, InsertAdmin, Pcs
    <3>2. AuditTyped'
      BY <1>2, <2>2 DEF Typed, AuditTyped, InsertAdmin
    <3>3. QED
      BY <3>1, <3>2
  <2>3. CASE Commit(c)
    <3>1. Only({"setup"})
      BY <1>1, <2>3, GotoMoves DEF Typed, Commit, Pcs
    <3>2. call[c].logged \subseteq Inserts
      BY <1>1 DEF CallRecord
    <3>3. AuditTyped'
      BY <1>2, <2>3, <3>2 DEF Typed, AuditTyped, Commit
    <3>4. QED
      BY <3>1, <3>3
  <2>4. CASE Rollback(c)
    <3>1. Follows(call[c], [call[c] EXCEPT !.pc = "rolledback", !.logged = {}])
      BY <1>1 DEF CallRecord, Follows, Pcs
    <3>2. Only({"setup"})
      BY <1>1, <2>4, <3>1, KeepMoves DEF Typed, Rollback
    <3>3. QED
      BY <2>4, <3>2 DEF Typed, AuditTyped, Rollback, auditVars
  <2>5. CASE Release(c)
    <3>1. Only({"setup"})
      BY <1>1, <2>5, ReturnMoves DEF Typed, Release
    <3>2. QED
      BY <2>5, <3>1 DEF Typed, AuditTyped, Release, auditVars
  <2>6. QED
    BY <2>1, <2>2, <2>3, <2>4, <2>5 DEF AuditStep
<1>5. QED
  BY <1>1, <1>3, <1>4 DEF Typed, CallsTyped, Only, SettingsTyped, MailTyped, RolesTyped, GhostTyped,
                    settingVars, mailVars, roleVars, tokenVars

LEMMA SaveLogMoves ==
    ASSUME Typed, NEW e \in pending, SaveLog(e) \/ LoseLog(e)
    PROVE  Only({"setup"}) /\ Typed' /\ UNCHANGED <<settingVars, mailVars, roleVars, tokenVars>>
<1>1. e \in Inserts
  BY DEF Typed, AuditTyped
<1>2. UNCHANGED <<settingVars, mailVars, roleVars, tokenVars>>
  BY DEF SaveLog, LoseLog, BesidesAudit
<1>3. Only({"setup"})
  <2>1. CASE UNCHANGED callVars
    BY <2>1 DEF Typed, CallsTyped, Only, callVars
  <2>2. CASE call' = [c \in Callers |-> IF c \in InTransaction(e) THEN [call[c] EXCEPT !.logged = @ \cup {e}] ELSE call[c]]
    <3>1. \A c \in InTransaction(e) : c \in Callers /\ call[c] # Idle /\ call[c].kind = "setup" /\ call[c] \in CallRecord
      BY DEF InTransaction, Typed, CallsTyped
    <3>2. \A c \in InTransaction(e) : Follows(call[c], [call[c] EXCEPT !.logged = @ \cup {e}])
      BY <1>1, <3>1 DEF CallRecord, Follows
    <3>3. \A c \in Callers : call'[c] = call[c] \/ (c \in InTransaction(e) /\ Follows(call[c], call'[c]))
      BY <2>2, <3>2
    <3>4. \A c \in Callers : call'[c] = call[c] \/ (Moved(c) /\ call[c].kind \in {"setup"})
      BY <3>1, <3>3 DEF Moved
    <3>5. \A c \in Callers : call'[c] \in {Idle} \cup CallRecord
      BY <3>3 DEF Follows, Typed, CallsTyped
    <3>6. call' \in [Callers -> {Idle} \cup CallRecord]
      BY <2>2, <3>5
    <3>7. UNCHANGED <<mix, calls, restarts>>
      BY DEF SaveLog, LoseLog, callVars
    <3>8. QED
      BY <3>4, <3>6, <3>7 DEF Only
  <2>3. QED
    BY <2>1, <2>2 DEF SaveLog, LoseLog, callVars
<1>4. AuditTyped'
  BY <1>1 DEF SaveLog, LoseLog, Typed, AuditTyped
<1>5. GhostTyped'
  <2>1. ghost' = ghost \/ ghost' = [ghost EXCEPT !.late = @ \cup {e}]
    BY DEF SaveLog, LoseLog
  <2>2. QED
    BY <1>1, <2>1 DEF Typed, GhostTyped
<1>6. QED
  BY <1>2, <1>3, <1>4, <1>5 DEF Typed, CallsTyped, Only, SettingsTyped, MailTyped, RolesTyped,
                    settingVars, mailVars, roleVars, tokenVars

LEMMA AddJobMoves ==
    ASSUME Typed, NEW c \in Callers, AddJob(c)
    PROVE  /\ Only({"mail"}) /\ Typed'
           /\ UNCHANGED <<settingVars, auditVars, roleVars, tokenVars, ghost>>
           /\ call[c] # Idle /\ call[c].n \in Numbers
<1>1. call[c] \in CallRecord /\ call[c] # Idle /\ call[c].kind = "mail" /\ call[c].n \in Numbers
  BY DEF Typed, CallsTyped, CallRecord, AddJob, At, Idle
<1>2. Only({"mail"})
  BY <1>1, ReturnMoves DEF Typed, AddJob
<1>3. [state |-> "waiting", attempts |-> Attempts, refused |-> 0, stalled |-> 0, sent |-> 0] \in JobRecord
  BY DEF JobRecord, JobStates
<1>4. MailTyped'
  <2>1. jobs' = [jobs EXCEPT ![call[c].n] =
                   [state |-> "waiting", attempts |-> Attempts, refused |-> 0, stalled |-> 0, sent |-> 0]]
        /\ worker' = worker
    BY DEF AddJob
  <2>2. [state |-> "waiting", attempts |-> Attempts, refused |-> 0, stalled |-> 0, sent |-> 0] # NoJob
    BY DEF NoJob
  <2>3. worker.job # 0 => worker.job \in Numbers
    BY ServerAssumption DEF Typed, MailTyped, Numbers
  <2>4. QED
    BY <1>1, <1>3, <2>1, <2>2, <2>3 DEF Typed, MailTyped
<1>5. UNCHANGED <<settingVars, auditVars, roleVars, tokenVars, ghost>>
  BY DEF AddJob, BesidesMail
<1>6. QED
  BY <1>1, <1>2, <1>4, <1>5 DEF Typed, CallsTyped, Only, SettingsTyped, AuditTyped, RolesTyped, GhostTyped,
                    settingVars, auditVars, roleVars, tokenVars

\* One job, of a worker that keeps or drops it.
LEMMA JobChange ==
    ASSUME MailTyped, NEW n \in Numbers, NEW j \in JobRecord, jobs' = [jobs EXCEPT ![n] = j],
           worker' \in [job : 0 .. MaxCalls, handed : BOOLEAN],
           worker'.job \in {0, n, worker.job}
    PROVE  MailTyped'
<1>1. j # NoJob
  BY DEF JobRecord, NoJob
<1>2. worker'.job \in {0} \cup Numbers
  BY ServerAssumption DEF Numbers
<1>3. worker'.job # 0 => jobs'[worker'.job] # NoJob
  BY <1>1, <1>2 DEF MailTyped
<1>4. QED
  BY <1>3 DEF MailTyped

\* A step of the queue changes one job; the worker keeps, drops or takes it.
LEMMA JobStepChange ==
    ASSUME Typed, NEW n \in Numbers, JobStep(n)
    PROVE  /\ n # 0 /\ jobs[n] \in JobRecord
           /\ \E j \in JobRecord : jobs' = [jobs EXCEPT ![n] = j]
           /\ worker' \in [job : 0 .. MaxCalls, handed : BOOLEAN] /\ worker'.job \in {0, n, worker.job}
<1>1. n # 0
  BY DEF Numbers
<1>2. jobs[n] \in JobRecord
  BY <1>1 DEF JobStep, Pick, Send, Complete, Refuse, BackoffOver, Stalled, NoJob, Typed, MailTyped
<1>3. \E j \in JobRecord : jobs' = [jobs EXCEPT ![n] = j]
  <2>1. /\ jobs[n].refused \in Nat /\ jobs[n].stalled \in Nat /\ jobs[n].sent \in Nat
        /\ \A st \in JobStates : [jobs[n] EXCEPT !.state = st] \in JobRecord
        /\ [jobs[n] EXCEPT !.sent = jobs[n].sent + 1] \in JobRecord
        /\ \A st \in JobStates : [jobs[n] EXCEPT !.refused = jobs[n].refused + 1, !.state = st] \in JobRecord
        /\ \A st \in JobStates : [jobs[n] EXCEPT !.stalled = jobs[n].stalled + 1, !.state = st] \in JobRecord
    <3>1. jobs[n].refused \in Nat /\ jobs[n].stalled \in Nat /\ jobs[n].sent \in Nat
      BY <1>2 DEF JobRecord
    <3>2. jobs[n].refused + 1 \in Nat /\ jobs[n].stalled + 1 \in Nat /\ jobs[n].sent + 1 \in Nat
      BY <3>1
    <3>3. \A st \in JobStates, m \in Nat :
              /\ [jobs[n] EXCEPT !.state = st] \in JobRecord
              /\ [jobs[n] EXCEPT !.sent = m] \in JobRecord
              /\ [jobs[n] EXCEPT !.refused = m, !.state = st] \in JobRecord
              /\ [jobs[n] EXCEPT !.stalled = m, !.state = st] \in JobRecord
      BY <1>2 DEF JobRecord
    <3>4. \A st \in JobStates :
              /\ [jobs[n] EXCEPT !.refused = jobs[n].refused + 1, !.state = st] \in JobRecord
              /\ [jobs[n] EXCEPT !.stalled = jobs[n].stalled + 1, !.state = st] \in JobRecord
      BY <3>2, <3>3, Zenon
    <3>5. [jobs[n] EXCEPT !.sent = jobs[n].sent + 1] \in JobRecord
      BY <1>2, <3>2 DEF JobRecord
    <3>6. QED
      BY <3>1, <3>3, <3>4, <3>5
  <2>2. CASE Pick(n)
    <3>1. jobs' = [jobs EXCEPT ![n] = [jobs[n] EXCEPT !.state = "active"]]
      BY <2>2 DEF Pick
    <3>2. QED
      BY <2>1, <3>1 DEF JobStates
  <2>3. CASE Send(n)
    BY <2>1, <2>3 DEF Send
  <2>4. CASE Complete(n)
    BY <2>1, <2>4 DEF Complete, JobStates
  <2>5. CASE Refuse(n)
    <3>1. PICK st \in JobStates :
              jobs' = [jobs EXCEPT ![n] = [jobs[n] EXCEPT !.refused = @ + 1, !.state = st]]
      <4>1. (IF jobs[n].refused + 1 < jobs[n].attempts THEN "delayed" ELSE "failed") \in JobStates
        BY DEF JobStates
      <4>2. QED
        BY <2>5, <4>1 DEF Refuse
    <3>2. QED
      BY <2>1, <3>1
  <2>6. CASE BackoffOver(n)
    BY <2>1, <2>6 DEF BackoffOver, JobStates
  <2>7. CASE Stalled(n)
    <3>1. PICK st \in JobStates :
              jobs' = [jobs EXCEPT ![n] = [jobs[n] EXCEPT !.stalled = @ + 1, !.state = st]]
      <4>1. (IF jobs[n].stalled < MaxStalled THEN "waiting" ELSE "failed") \in JobStates
        BY DEF JobStates
      <4>2. QED
        BY <2>7, <4>1 DEF Stalled
    <3>2. QED
      BY <2>1, <3>1
  <2>8. QED
    BY <2>2, <2>3, <2>4, <2>5, <2>6, <2>7 DEF JobStep
<1>4. worker' \in [job : 0 .. MaxCalls, handed : BOOLEAN] /\ worker'.job \in {0, n, worker.job}
  <2>1. worker' \in {worker, Rest, [worker EXCEPT !.handed = TRUE], [job |-> n, handed |-> FALSE]}
    BY DEF JobStep, Pick, Send, Complete, Refuse, BackoffOver, Stalled
  <2>2. worker \in [job : 0 .. MaxCalls, handed : BOOLEAN] /\ n \in 0 .. MaxCalls /\ 0 \in 0 .. MaxCalls
    BY ServerAssumption DEF Numbers, Typed, MailTyped
  <2>3. \A w \in {worker, Rest, [worker EXCEPT !.handed = TRUE], [job |-> n, handed |-> FALSE]} :
            w \in [job : 0 .. MaxCalls, handed : BOOLEAN] /\ w.job \in {0, n, worker.job}
    <3>1. Rest \in [job : 0 .. MaxCalls, handed : BOOLEAN] /\ Rest.job = 0
      BY <2>2 DEF Rest
    <3>2. /\ [worker EXCEPT !.handed = TRUE] \in [job : 0 .. MaxCalls, handed : BOOLEAN]
          /\ [worker EXCEPT !.handed = TRUE].job = worker.job
      BY <2>2
    <3>3. /\ [job |-> n, handed |-> FALSE] \in [job : 0 .. MaxCalls, handed : BOOLEAN]
          /\ [job |-> n, handed |-> FALSE].job = n
      BY <2>2
    <3>4. QED
      BY <2>2, <3>1, <3>2, <3>3
  <2>4. QED
    BY <2>1, <2>3
<1>5. QED
  BY <1>1, <1>2, <1>3, <1>4

LEMMA JobMoves ==
    ASSUME Typed, NEW n \in Numbers, JobStep(n)
    PROVE  Only({}) /\ Typed' /\ UNCHANGED <<settingVars, auditVars, roleVars, tokenVars, ghost>>
<1>1. UNCHANGED callVars /\ UNCHANGED <<settingVars, auditVars, roleVars, tokenVars, ghost>>
  BY DEF JobStep, Pick, Send, Complete, Refuse, BackoffOver, Stalled, BesidesMail
<1>2. MailTyped'
  BY JobStepChange, JobChange DEF Typed
<1>3. QED
  BY <1>1, <1>2 DEF Typed, CallsTyped, Only, SettingsTyped, AuditTyped, RolesTyped, GhostTyped,
                    callVars, settingVars, auditVars, roleVars, tokenVars

RoleKinds == {"role", "unrole", "assign", "sign"}

LEMMA RoleOfIsRole ==
    ASSUME RolesTyped, NEW h \in Roles
    PROVE  RoleOf(h) \in RoleType
  BY DEF RolesTyped, RoleOf, NoRole, RoleType

LEMMA LostTyped ==
    ASSUME RolesTyped, NoteHeld
    PROVE  lost' \in [Perms -> 0 .. TokenLife]
  BY ServerAssumption DEF RolesTyped, NoteHeld

LEMMA PolicyMoves ==
    ASSUME Typed, Numbered, NEW c \in Callers, PolicyStep(c)
    PROVE  /\ Only(RoleKinds) /\ Typed' /\ UNCHANGED <<settingVars, auditVars, mailVars, ghost>>
<1>1. call[c] \in CallRecord /\ call[c] # Idle /\ call[c].kind \in RoleKinds
  BY DEF Typed, CallsTyped, CallRecord, PolicyStep, FindRole, SaveRole, RemoveRole, LoadHeld, FindNewRole, AssignRole,
         LoadAdmin, CreateToken, At, Idle, RoleKinds
<1>2. call[c].arg \in Args(call[c].kind)
  BY <1>1 DEF Numbered
<1>3. UNCHANGED <<settingVars, auditVars, mailVars, ghost>>
  BY DEF PolicyStep, FindRole, SaveRole, RemoveRole, LoadHeld, FindNewRole, AssignRole, LoadAdmin, CreateToken, BesidesPolicies
<1>4. Only({call[c].kind}) => Only(RoleKinds)
  BY <1>1, OnlyMore
<1>5. Only(RoleKinds) /\ RolesTyped'
  <2>1. CASE FindRole(c)
    <3>1. Only(RoleKinds)
      BY <1>1, <1>4, <2>1, ReturnMoves, GotoMoves DEF Typed, FindRole, Pcs
    <3>2. QED
      BY <2>1, <3>1 DEF FindRole, Typed, RolesTyped, roleVars, tokenVars
  <2>2. CASE SaveRole(c)
    <3>1. Only(RoleKinds)
      BY <1>1, <1>4, <2>2, ReturnMoves DEF Typed, SaveRole
    <3>2. call[c].arg \in [r : Roles, system : BOOLEAN, perms : SUBSET Perms]
      BY <1>2, <2>2 DEF SaveRole, At, Args
    <3>3. [system |-> call[c].arg.system, perms |-> call[c].arg.perms, live |-> TRUE] \in RoleType
      BY <3>2 DEF RoleType
    <3>4. role' \in [Roles -> RoleType]
      BY <2>2, <3>3 DEF SaveRole, Typed, RolesTyped
    <3>5. QED
      BY <2>2, <3>1, <3>4, LostTyped DEF SaveRole, Typed, RolesTyped
  <2>3. CASE RemoveRole(c)
    <3>1. Only(RoleKinds)
      BY <1>1, <1>4, <2>3, ReturnMoves DEF Typed, RemoveRole
    <3>2. role' \in [Roles -> RoleType]
      BY <2>3 DEF RemoveRole, Typed, RolesTyped, RoleType
    <3>3. QED
      BY <2>3, <3>1, <3>2, LostTyped DEF RemoveRole, Typed, RolesTyped
  <2>4. CASE FindNewRole(c)
    <3>1. Only(RoleKinds)
      BY <1>1, <1>4, <2>4, ReturnMoves, GotoMoves DEF Typed, FindNewRole, Pcs
    <3>2. QED
      BY <2>4, <3>1 DEF FindNewRole, Typed, RolesTyped, roleVars, tokenVars
  <2>5. CASE AssignRole(c)
    <3>1. Only(RoleKinds)
      BY <1>1, <1>4, <2>5, ReturnMoves DEF Typed, AssignRole
    <3>2. call[c].arg \in [r : Roles]
      BY <1>2, <2>5 DEF AssignRole, At, Args
    <3>3. call[c].held \subseteq Roles
      BY <1>1 DEF CallRecord
    <3>4. holder' \in Roles
      BY <2>5, <3>2, <3>3 DEF AssignRole
    <3>5. QED
      BY <2>5, <3>1, <3>4, LostTyped DEF AssignRole, Typed, RolesTyped
  <2>8. CASE LoadHeld(c)
    <3>1. {h \in {holder} : role[h].live} \subseteq Roles
      BY DEF Typed, RolesTyped
    <3>2. Follows(call[c], [call[c] EXCEPT !.pc = "find", !.held = {h \in {holder} : role[h].live}])
      BY <1>1, <3>1 DEF CallRecord, Follows, Pcs
    <3>3. Only(RoleKinds)
      BY <1>1, <1>4, <2>8, <3>2, KeepMoves DEF Typed, LoadHeld
    <3>4. QED
      BY <2>8, <3>3 DEF LoadHeld, Typed, RolesTyped, roleVars, tokenVars
  <2>6. CASE LoadAdmin(c)
    <3>1. RoleOf(holder) \in RoleType
      BY RoleOfIsRole DEF Typed, RolesTyped
    <3>2. Follows(call[c], [call[c] EXCEPT !.pc = "sign", !.role = RoleOf(holder)])
      BY <1>1, <3>1 DEF CallRecord, Follows, Pcs
    <3>3. Only(RoleKinds)
      BY <1>1, <1>4, <2>6, <3>2, KeepMoves DEF Typed, LoadAdmin
    <3>4. QED
      BY <2>6, <3>3 DEF LoadAdmin, Typed, RolesTyped, roleVars, tokenVars
  <2>7. CASE CreateToken(c)
    <3>1. Only(RoleKinds)
      BY <1>1, <1>4, <2>7, ReturnMoves DEF Typed, CreateToken
    <3>2. [role |-> call[c].role, left |-> TokenLife] \in [role : RoleType, left : 1 .. TokenLife]
      BY <1>1, ServerAssumption DEF CallRecord
    <3>3. QED
      BY <2>7, <3>1, <3>2 DEF CreateToken, Typed, RolesTyped, roleVars
  <2>9. QED
    BY <2>1, <2>2, <2>3, <2>4, <2>5, <2>6, <2>7, <2>8 DEF PolicyStep
<1>6. QED
  BY <1>3, <1>5 DEF Typed, CallsTyped, Only, SettingsTyped, AuditTyped, MailTyped, GhostTyped,
                    settingVars, auditVars, mailVars

LEMMA TickMoves ==
    ASSUME Typed, Tick
    PROVE  Only({}) /\ Typed' /\ UNCHANGED <<settingVars, auditVars, mailVars, roleVars, ghost>>
<1>1. UNCHANGED callVars /\ UNCHANGED <<settingVars, auditVars, mailVars, roleVars, ghost>>
  BY DEF Tick, BesidesPolicies
<1>2. tokens' \subseteq [role : RoleType, left : 1 .. TokenLife]
  <2>1. \A t \in tokens : t.left > 1 => [t EXCEPT !.left = @ - 1] \in [role : RoleType, left : 1 .. TokenLife]
    BY ServerAssumption DEF Typed, RolesTyped
  <2>2. QED
    BY <2>1 DEF Tick
<1>3. lost' \in [Perms -> 0 .. TokenLife]
  BY ServerAssumption DEF Tick, Typed, RolesTyped
<1>4. QED
  BY <1>1, <1>2, <1>3 DEF Typed, CallsTyped, Only, SettingsTyped, AuditTyped, MailTyped, RolesTyped, GhostTyped,
                    callVars, settingVars, auditVars, mailVars, roleVars

LEMMA ExpireMoves ==
    ASSUME Typed, Expire
    PROVE  Only({}) /\ Typed' /\ UNCHANGED <<auditVars, mailVars, roleVars, tokenVars>>
<1>1. UNCHANGED callVars /\ UNCHANGED <<row, auditVars, mailVars, roleVars, tokenVars>>
  BY DEF Expire, BesidesSettings
<1>2. SettingsTyped'
  BY <1>1, ServerAssumption DEF Expire, Typed, SettingsTyped, NoEntry, Blank, Values
<1>3. GhostTyped'
  BY DEF Expire, Typed, GhostTyped
<1>4. QED
  BY <1>1, <1>2, <1>3 DEF Typed, CallsTyped, Only, AuditTyped, MailTyped, RolesTyped,
                    callVars, auditVars, mailVars, roleVars, tokenVars

\* A call begins, with the next number.
LEMMA BeginMoves ==
    ASSUME Typed, Numbered, NEW c \in Callers, NEW k \in mix.kinds, NEW a \in Args(k), Begin(c, k, a)
    PROVE  /\ Typed' /\ Numbered' /\ calls' = calls + 1 /\ calls' \in Numbers
           /\ call'[c] \in CallRecord /\ call'[c].pc = "start" /\ call'[c].n = calls' /\ call'[c].kind = k
           /\ call'[c].arg = a
           /\ call[c] = Idle /\ \A d \in Callers \ {c} : call'[d] = call[d]
           /\ UNCHANGED <<mix, restarts, settingVars, auditVars, mailVars, roleVars, tokenVars>>
<1> DEFINE o == [pc |-> "start", kind |-> k, n |-> calls + 1, arg |-> a,
                 base |-> Blank, found |-> FALSE, role |-> NoRole, held |-> {}, logged |-> {}]
<1>1. calls + 1 \in Numbers /\ calls \in Nat
  BY ServerAssumption DEF Typed, CallsTyped, Begin, Numbers
<1>2. o \in CallRecord
  <2>1. k \in Kinds /\ a \in AllArgs
    BY DEF Typed, CallsTyped, Kinds, AllArgs
  <2>2. Blank \in Values /\ NoRole \in RoleType
    BY ServerAssumption DEF Blank, Values, NoRole, RoleType
  <2>3. QED
    BY <1>1, <2>1, <2>2 DEF CallRecord, Pcs
<1>3. call' = [call EXCEPT ![c] = o] /\ calls' = calls + 1 /\ call[c] = Idle
  BY DEF Begin
<1>4. UNCHANGED <<mix, restarts, settingVars, auditVars, mailVars, roleVars, tokenVars>>
  BY DEF Begin
<1>5. call'[c] = o /\ \A d \in Callers \ {c} : call'[d] = call[d]
  BY <1>3 DEF Typed, CallsTyped
<1>6. CallsTyped'
  BY <1>1, <1>2, <1>3, <1>4, ServerAssumption DEF Typed, CallsTyped, Numbers
<1>7. GhostTyped'
  <2>1. \A d \in SettingCalls : call[d] \in CallRecord /\ call[d].n \in Numbers
    BY DEF SettingCalls, Typed, CallsTyped, CallRecord
  <2>2. DOMAIN ghost.met = Numbers /\ ghost.met \in [Numbers -> SUBSET Numbers]
    BY DEF Typed, GhostTyped
  <2>3. [x \in DOMAIN ghost.met |->
            IF x = calls + 1 THEN {call[d].n : d \in SettingCalls}
            ELSE IF \E d \in SettingCalls : call[d].n = x THEN ghost.met[x] \cup {calls + 1} ELSE ghost.met[x]]
          \in [Numbers -> SUBSET Numbers]
    BY <1>1, <2>1, <2>2
  <2>4. QED
    BY <2>3 DEF Begin, Typed, GhostTyped
<1>8. Numbered'
  <2>1. \A d \in Callers : call'[d] # Idle => call'[d].n <= calls' /\ call'[d].arg \in Args(call'[d].kind)
    <3>1. TAKE d \in Callers
    <3>2. HAVE call'[d] # Idle
    <3>3. CASE d = c
      BY <1>1, <1>3, <1>5, <3>3
    <3>4. CASE d # c
      <4>1. call[d] # Idle /\ call'[d] = call[d]
        BY <1>5, <3>2, <3>4
      <4>2. call[d].n <= calls /\ call[d].n \in Nat
        BY <4>1 DEF Numbered, Typed, CallsTyped, CallRecord, Numbers
      <4>3. QED
        BY <1>1, <1>3, <4>1, <4>2 DEF Numbered
    <3>5. QED
      BY <3>3, <3>4
  <2>2. \A d \in Callers : d # c /\ call[d] # Idle => call[d].n # calls + 1
    BY <1>1 DEF Numbered, Typed, CallsTyped, CallRecord, Numbers
  <2>3. \A d, e \in Callers : call'[d] # Idle /\ call'[e] # Idle /\ call'[d].n = call'[e].n => d = e
    BY <1>5, <2>2 DEF Numbered
  <2>4. QED
    BY <2>1, <2>3 DEF Numbered, Idle, Args
<1>9. SettingsTyped' /\ AuditTyped' /\ MailTyped' /\ RolesTyped'
  BY <1>4 DEF Typed, SettingsTyped, AuditTyped, MailTyped, RolesTyped,
              settingVars, auditVars, mailVars, roleVars, tokenVars
<1>10. QED
  BY <1>1, <1>2, <1>3, <1>4, <1>5, <1>6, <1>7, <1>8, <1>9 DEF Typed

\* The process restarts: no call is left.
LEMMA RestartMoves ==
    ASSUME Typed, Restart
    PROVE  /\ Typed' /\ Numbered' /\ \A c \in Callers : call'[c] = Idle
           /\ UNCHANGED <<calls, row, log, changes, jobs, roleVars, tokenVars>>
<1>1. /\ restarts < MaxRestarts /\ restarts' = restarts + 1
      /\ call' = [c \in Callers |-> Idle] /\ cache' = NoEntry /\ pending' = {} /\ worker' = Rest
      /\ ghost' = [ghost EXCEPT !.raced = FALSE]
      /\ UNCHANGED <<mix, calls, row, log, changes, jobs, roleVars, tokenVars>>
  BY DEF Restart
<1>2. CallsTyped'
  BY <1>1, ServerAssumption DEF Typed, CallsTyped
<1>3. SettingsTyped' /\ AuditTyped'
  BY <1>1, ServerAssumption DEF Typed, SettingsTyped, AuditTyped, NoEntry, Blank, Values
<1>4. MailTyped'
  BY <1>1, ServerAssumption DEF Typed, MailTyped, Rest
<1>5. GhostTyped' /\ RolesTyped'
  BY <1>1 DEF Typed, GhostTyped, RolesTyped, roleVars, tokenVars
<1>6. Numbered'
  BY <1>1 DEF Numbered
<1>7. QED
  BY <1>1, <1>2, <1>3, <1>4, <1>5, <1>6 DEF Typed

-------------------------------------------------------------------------------
LEMMA InitTyped ==
    ASSUME ServerInit
    PROVE  Typed /\ Numbered
<1>1. CallsTyped /\ Numbered
  BY ServerAssumption DEF ServerInit, CallsTyped, Numbered
<1>2. SettingsTyped /\ AuditTyped
  BY ServerAssumption DEF ServerInit, SettingsTyped, AuditTyped, NoEntry, Blank, Values
<1>3. MailTyped
  BY ServerAssumption DEF ServerInit, MailTyped, Rest, Numbers
<1>4. RolesTyped
  <2>1. role \in [Roles -> RoleType]
    BY DEF ServerInit, RoleType
  <2>2. holder \in Roles
    BY ServerAssumption DEF ServerInit
  <2>3. lost \in [Perms -> 0 .. TokenLife]
    BY ServerAssumption DEF ServerInit
  <2>4. QED
    BY <2>1, <2>2, <2>3 DEF ServerInit, RolesTyped
<1>5. GhostTyped
  BY DEF ServerInit, GhostTyped, Numbers
<1>6. QED
  BY <1>1, <1>2, <1>3, <1>4, <1>5 DEF Typed

\* Every step, as the lemmas above describe it.
LEMMA NextTyped ==
    ASSUME Typed, Numbered, [Next]_vars
    PROVE  Typed' /\ Numbered'
<1>1. ASSUME NEW c \in Callers, NEW k \in mix.kinds, NEW a \in Args(k), Begin(c, k, a)
      PROVE  Typed' /\ Numbered'
  BY <1>1, BeginMoves
<1>2. ASSUME NEW c \in Callers, SettingStep(c) \/ AuditStep(c) \/ AddJob(c) \/ PolicyStep(c)
      PROVE  Typed' /\ Numbered'
  BY <1>2, SettingMoves, AuditMoves, AddJobMoves, PolicyMoves, OnlyKeepsNumbers
<1>3. ASSUME NEW n \in Numbers, JobStep(n)
      PROVE  Typed' /\ Numbered'
  BY <1>3, JobMoves, OnlyKeepsNumbers
<1>4. ASSUME NEW e \in pending, SaveLog(e) \/ LoseLog(e)
      PROVE  Typed' /\ Numbered'
  BY <1>4, SaveLogMoves, OnlyKeepsNumbers
<1>5. CASE Expire \/ Tick
  BY <1>5, ExpireMoves, TickMoves, OnlyKeepsNumbers
<1>6. CASE Restart
  BY <1>6, RestartMoves
<1>7. CASE UNCHANGED vars
  BY <1>7 DEF vars, Typed, CallsTyped, SettingsTyped, AuditTyped, MailTyped, RolesTyped, GhostTyped, Numbered
<1>8. QED
  BY <1>1, <1>2, <1>3, <1>4, <1>5, <1>6, <1>7 DEF Next, Numbers

\* Every variable of Server keeps its type, every call has a number of its
\* own, and the arguments of its kind.
THEOREM TypeCorrect == Spec => [](Typed /\ Numbered)
<1>1. ServerInit => Typed /\ Numbered
  BY InitTyped
<1>2. Typed /\ Numbered /\ [Next]_vars => (Typed /\ Numbered)'
  BY NextTyped
<1>3. QED
  BY <1>1, <1>2, PTL DEF Spec

-------------------------------------------------------------------------------
(* The settings' cache *)

\* A call that moves others leaves a set before the deletion of its entry.
LEMMA DelStays ==
    ASSUME NEW ks, Only(ks), "update" \notin ks, UNCHANGED <<row, cache, ghost.raced>>, StaleEntriesComeFromRaces
    PROVE  StaleEntriesComeFromRaces'
<1>1. \A c \in Callers : At(c, "update", "del") => At(c, "update", "del")'
  BY DEF Only, At
<1>2. QED
  BY <1>1 DEF StaleEntriesComeFromRaces

LEMMA SettingStepStale ==
    ASSUME Typed, NEW c \in Callers, SettingStep(c), StaleEntriesComeFromRaces
    PROVE  StaleEntriesComeFromRaces'
<1>1. call[c] \in CallRecord
  BY DEF Typed, CallsTyped, SettingStep, Hit, Miss, ReadRow, Fill, FindRow, SaveRow, DelEntry, SettingFails, At, Idle
<1>2. \A d \in Callers \ {c} : call'[d] = call[d]
  BY DEF Typed, CallsTyped, SettingStep, Hit, Miss, ReadRow, Fill, FindRow, SaveRow, DelEntry, SettingFails,
         Keep, Goto, Return
<1>3. ASSUME call[c].pc # "del", UNCHANGED <<row, cache, ghost>>
      PROVE  StaleEntriesComeFromRaces'
  <2>1. \A d \in Callers : At(d, "update", "del") => At(d, "update", "del")'
    BY <1>2, <1>3 DEF At
  <2>2. QED
    BY <1>3, <2>1 DEF StaleEntriesComeFromRaces
<1>4. CASE Hit(c) \/ Miss(c) \/ ReadRow(c) \/ FindRow(c) \/ SettingFails(c)
  BY <1>3, <1>4 DEF Hit, Miss, ReadRow, FindRow, SettingFails, At, settingVars
<1>5. CASE Fill(c)
  <2>1. cache'.val = call[c].base /\ row' = row /\ ghost'.raced = (call[c].base # row.val)
    BY <1>5 DEF Fill, Entry, Typed, GhostTyped
  <2>2. QED
    BY <2>1 DEF StaleEntriesComeFromRaces
<1>6. CASE SaveRow(c)
  <2>1. CASE row' = row
    BY <1>3, <1>6, <2>1 DEF SaveRow, At
  <2>2. CASE row' # row
    <3>1. Goto(c, "del") /\ At(c, "update", "save")
      BY <1>6, <2>2 DEF SaveRow
    <3>2. call'[c] = [call[c] EXCEPT !.pc = "del"]
      BY <3>1 DEF Goto, Typed, CallsTyped
    <3>3. call'[c].pc = "del" /\ call'[c].kind = "update"
      BY <1>1, <3>1, <3>2 DEF CallRecord, At
    <3>4. QED
      BY <3>3 DEF StaleEntriesComeFromRaces, At
  <2>3. QED
    BY <2>1, <2>2
<1>7. CASE DelEntry(c)
  BY <1>7 DEF DelEntry, StaleEntriesComeFromRaces, NoEntry
<1>8. QED
  BY <1>4, <1>5, <1>6, <1>7 DEF SettingStep

\* A cached value that is not the row's is that of a set which is about to
\* delete it, or was read before a set and cached after: for any number of
\* concurrent calls, failures, expiries and restarts.
THEOREM StaleOnlyFromRaces == Spec => []StaleEntriesComeFromRaces
<1> DEFINE I == Typed /\ Numbered /\ StaleEntriesComeFromRaces
<1>1. ServerInit => I
  BY InitTyped DEF ServerInit, StaleEntriesComeFromRaces, NoEntry
<1>2. I /\ [Next]_vars => I'
  <2> SUFFICES ASSUME I, [Next]_vars PROVE StaleEntriesComeFromRaces'
    BY NextTyped
  <2>1. ASSUME NEW c \in Callers, NEW k \in mix.kinds, NEW a \in Args(k), Begin(c, k, a)
        PROVE  StaleEntriesComeFromRaces'
    <3>1. call[c] = Idle /\ \A d \in Callers \ {c} : call'[d] = call[d]
      BY <2>1, BeginMoves
    <3>2. \A d \in Callers : At(d, "update", "del") => At(d, "update", "del")'
      BY <3>1 DEF At, Idle
    <3>3. ghost'.raced = ghost.raced /\ row' = row /\ cache' = cache
      BY <2>1 DEF Begin, settingVars, Typed, GhostTyped
    <3>4. QED
      BY <3>2, <3>3 DEF StaleEntriesComeFromRaces
  <2>2. ASSUME NEW c \in Callers, SettingStep(c)
        PROVE  StaleEntriesComeFromRaces'
    BY <2>2, SettingStepStale
  <2>3. ASSUME NEW c \in Callers, AuditStep(c) \/ AddJob(c) \/ PolicyStep(c)
        PROVE  StaleEntriesComeFromRaces'
    BY <2>3, AuditMoves, AddJobMoves, PolicyMoves, DelStays DEF settingVars, RoleKinds
  <2>4. ASSUME NEW n \in Numbers, JobStep(n)
        PROVE  StaleEntriesComeFromRaces'
    BY <2>4, JobMoves, DelStays DEF settingVars
  <2>5. ASSUME NEW e \in pending, SaveLog(e) \/ LoseLog(e)
        PROVE  StaleEntriesComeFromRaces'
    <3>1. ghost'.raced = ghost.raced
      BY <2>5 DEF SaveLog, LoseLog, Typed, GhostTyped
    <3>2. QED
      BY <2>5, <3>1, SaveLogMoves, DelStays DEF settingVars
  <2>6. CASE Expire \/ Restart
    BY <2>6 DEF Expire, Restart, StaleEntriesComeFromRaces, NoEntry
  <2>7. CASE Tick
    BY <2>7, TickMoves, DelStays DEF settingVars
  <2>8. CASE UNCHANGED vars
    BY <2>8 DEF vars, StaleEntriesComeFromRaces, At
  <2>9. QED
    BY <2>1, <2>2, <2>3, <2>4, <2>5, <2>6, <2>7, <2>8 DEF Next, Numbers
<1>3. QED
  BY <1>1, <1>2, PTL DEF Spec

-------------------------------------------------------------------------------
(* The audit log *)

Steps == {"start", "role", "admin", "committed", "rolledback"}
Parts(n) == {<<n, "role">>, <<n, "admin">>}

\* What a set-up's entries are, wherever it stands.
SetupLogged(c) ==
    /\ call[c].pc \in Steps
    /\ call[c].logged \subseteq Parts(call[c].n)
    /\ call[c].pc = "start" => \A e \in pending : e[1] # call[c].n
    /\ call[c].pc = "committed" => Parts(call[c].n) \subseteq changes

LogInv ==
    /\ LogNeverLies
    /\ \A e \in pending : e[1] <= calls
    /\ \A c \in Callers : call[c] # Idle /\ call[c].kind = "setup" => SetupLogged(c)

\* Other calls' moves do not matter.
LEMMA LogFrame ==
    ASSUME LogInv, NEW ks, Only(ks), "setup" \notin ks, UNCHANGED <<pending, log, changes, ghost.late>>
    PROVE  LogInv'
<1>1. \A c \in Callers : call'[c] # Idle /\ call'[c].kind = "setup" => call'[c] = call[c]
  BY DEF Only, Moved, Follows
<1>2. calls' = calls
  BY DEF Only
<1>3. \A c \in Callers : call'[c] # Idle /\ call'[c].kind = "setup" => SetupLogged(c)'
  BY <1>1 DEF LogInv, SetupLogged
<1>4. QED
  BY <1>2, <1>3 DEF LogInv, LogNeverLies

LEMMA AuditStepLog ==
    ASSUME Typed, Numbered, LogInv, NEW c \in Callers, AuditStep(c)
    PROVE  LogInv'
<1>1. call[c] \in CallRecord /\ call[c] # Idle /\ call[c].kind = "setup"
  BY AuditMoves DEF Typed, CallsTyped
<1>2. SetupLogged(c) /\ call[c].n <= calls /\ calls' = calls
  BY <1>1, AuditMoves DEF LogInv, Numbered, Only
<1>3. \A d \in Callers \ {c} : call'[d] = call[d]
  BY DEF Typed, CallsTyped, AuditStep, InsertRole, InsertAdmin, Commit, Rollback, Release, Keep, Goto, Return
<1>4. \A d \in Callers \ {c} : call[d] # Idle => call[d].n # call[c].n
  BY <1>1 DEF Numbered
<1>5. pending' \subseteq pending \cup Parts(call[c].n) /\ changes \subseteq changes' /\ ghost' = ghost
  BY DEF AuditStep, InsertRole, InsertAdmin, Commit, Rollback, Release, Parts, auditVars
<1>6. \A e \in Parts(call[c].n) : e[1] = call[c].n
  BY DEF Parts
<1>7. \A e \in pending' : e[1] <= calls'
  BY <1>2, <1>5, <1>6 DEF LogInv
<1>8. \A d \in Callers \ {c} : call'[d] # Idle /\ call'[d].kind = "setup" => SetupLogged(d)'
  BY <1>3, <1>4, <1>5, <1>6 DEF LogInv, SetupLogged
<1>9. LogNeverLies' /\ (call'[c] # Idle => SetupLogged(c)')
  <2>1. CASE InsertRole(c)
    <3>1. call'[c] = [call[c] EXCEPT !.pc = "role"]
      BY <2>1 DEF InsertRole, Goto, Typed, CallsTyped
    <3>2. QED
      BY <1>1, <1>2, <1>5, <2>1, <3>1 DEF InsertRole, SetupLogged, Steps, CallRecord, LogInv, LogNeverLies
  <2>2. CASE InsertAdmin(c)
    <3>1. call'[c] = [call[c] EXCEPT !.pc = "admin"]
      BY <2>2 DEF InsertAdmin, Goto, Typed, CallsTyped
    <3>2. QED
      BY <1>1, <1>2, <1>5, <2>2, <3>1 DEF InsertAdmin, SetupLogged, Steps, CallRecord, LogInv, LogNeverLies
  <2>3. CASE Commit(c)
    <3>1. call'[c] = [call[c] EXCEPT !.pc = "committed"]
      BY <2>3 DEF Commit, Goto, Typed, CallsTyped
    <3>2. changes' = changes \cup Parts(call[c].n)
      BY <2>3 DEF Commit, Parts
    <3>3. log' = log \cup call[c].logged
      BY <2>3 DEF Commit
    <3>4. QED
      BY <1>1, <1>2, <1>5, <3>1, <3>2, <3>3 DEF SetupLogged, Steps, CallRecord, LogInv, LogNeverLies
  <2>4. CASE Rollback(c)
    <3>1. call'[c] = [call[c] EXCEPT !.pc = "rolledback", !.logged = {}]
      BY <2>4 DEF Rollback, Keep, Typed, CallsTyped
    <3>2. QED
      BY <1>1, <1>2, <1>5, <2>4, <3>1 DEF Rollback, SetupLogged, Steps, CallRecord, LogInv, LogNeverLies, auditVars
  <2>5. CASE Release(c)
    <3>1. call'[c] = Idle
      BY <2>5 DEF Release, Return, Typed, CallsTyped
    <3>2. QED
      BY <2>5, <3>1 DEF Release, LogInv, LogNeverLies, auditVars
  <2>6. QED
    BY <2>1, <2>2, <2>3, <2>4, <2>5 DEF AuditStep
<1>10. QED
  BY <1>7, <1>8, <1>9 DEF LogInv

LEMMA SaveLogLog ==
    ASSUME Typed, Numbered, LogInv, NEW e \in pending, SaveLog(e) \/ LoseLog(e)
    PROVE  LogInv'
<1>1. e \in Inserts /\ e \in Parts(e[1])
  BY DEF Typed, AuditTyped, Inserts, Parts
<1>2. pending' \subseteq pending /\ changes' = changes /\ calls' = calls
  BY DEF SaveLog, LoseLog, callVars
<1>3. \A c \in Callers : call'[c] # Idle /\ call'[c].kind = "setup" => SetupLogged(c)'
  <2>1. CASE call' = call
    BY <1>2, <2>1 DEF LogInv, SetupLogged
  <2>2. CASE call' = [c \in Callers |-> IF c \in InTransaction(e) THEN [call[c] EXCEPT !.logged = @ \cup {e}] ELSE call[c]]
    <3>1. TAKE c \in Callers
    <3>2. HAVE call'[c] # Idle /\ call'[c].kind = "setup"
    <3>3. CASE c \in InTransaction(e)
      <4>1. call[c] \in CallRecord /\ call[c].kind = "setup" /\ call[c] # Idle /\ call[c].n = e[1]
        BY <3>3 DEF InTransaction, Typed, CallsTyped
      <4>2. call'[c] = [call[c] EXCEPT !.logged = @ \cup {e}]
        BY <2>2, <3>3
      <4>3. call'[c].pc = call[c].pc /\ call'[c].n = call[c].n /\ call'[c].logged = call[c].logged \cup {e}
        BY <4>1, <4>2 DEF CallRecord
      <4>4. SetupLogged(c)
        BY <4>1 DEF LogInv
      <4>5. QED
        BY <1>1, <1>2, <4>1, <4>3, <4>4 DEF SetupLogged
    <3>4. CASE c \notin InTransaction(e)
      <4>1. call'[c] = call[c]
        BY <2>2, <3>4
      <4>2. QED
        BY <1>2, <3>2, <4>1 DEF LogInv, SetupLogged
    <3>5. QED
      BY <3>3, <3>4
  <2>3. QED
    BY <2>1, <2>2 DEF SaveLog, LoseLog, callVars
<1>4. LogNeverLies'
  <2>1. CASE log' = log /\ ghost' = ghost
    BY <1>2, <2>1 DEF LogInv, LogNeverLies
  <2>2. CASE /\ SaveLog(e)
             /\ \A c \in InTransaction(e) : call[c].pc \notin {"role", "admin"}
             /\ InTransaction(e) # {}
    <3>1. log' = log \cup {e} /\ ghost.late \subseteq ghost'.late
      BY <2>2 DEF SaveLog, Typed, GhostTyped
    <3>2. PICK c \in InTransaction(e) : TRUE
      BY <2>2
    <3>3. c \in Callers /\ call[c] # Idle /\ call[c].kind = "setup" /\ call[c].n = e[1]
      BY <3>2 DEF InTransaction
    <3>4. call[c].pc \in {"committed", "rolledback"}
      BY <2>2, <3>3 DEF LogInv, SetupLogged, Steps
    <3>5. CASE call[c].pc = "committed"
      BY <1>1, <1>2, <3>1, <3>3, <3>5 DEF LogInv, SetupLogged, LogNeverLies
    <3>6. CASE call[c].pc = "rolledback"
      <4>1. ghost'.late = ghost.late \cup {e}
        BY <2>2, <3>6 DEF SaveLog, Typed, GhostTyped
      <4>2. QED
        BY <1>2, <3>1, <4>1 DEF LogInv, LogNeverLies
    <3>7. QED
      BY <3>4, <3>5, <3>6
  <2>3. QED
    BY <2>1, <2>2 DEF SaveLog, LoseLog
<1>5. QED
  BY <1>2, <1>3, <1>4 DEF LogInv

\* No entry of the log tells of a change that was not made, unless it was
\* saved between the rollback of its set-up and the release of the query
\* runner: for any number of set-ups, however late the entries are saved.
THEOREM LogIsTrue == Spec => []LogNeverLies
<1> DEFINE I == Typed /\ Numbered /\ LogInv
<1>1. ServerInit => I
  BY InitTyped DEF ServerInit, LogInv, LogNeverLies
<1>2. I /\ [Next]_vars => I'
  <2> SUFFICES ASSUME I, [Next]_vars PROVE LogInv'
    BY NextTyped
  <2>1. ASSUME NEW c \in Callers, NEW k \in mix.kinds, NEW a \in Args(k), Begin(c, k, a)
        PROVE  LogInv'
    <3>1. UNCHANGED <<pending, log, changes>> /\ ghost'.late = ghost.late
      BY <2>1, BeginMoves DEF Begin, auditVars, Typed, GhostTyped
    <3>2. \A e \in pending : e[1] <= calls /\ e[1] # calls' /\ e[1] <= calls'
      BY <2>1, BeginMoves DEF LogInv, Typed, AuditTyped, Inserts, Numbers, CallsTyped
    <3>3. call'[c].pc = "start" /\ call'[c].n = calls' /\ call'[c].logged = {}
      BY <2>1, BeginMoves DEF Begin, Typed, CallsTyped
    <3>4. SetupLogged(c)'
      BY <3>1, <3>2, <3>3 DEF SetupLogged, Steps
    <3>5. \A d \in Callers \ {c} : call'[d] # Idle /\ call'[d].kind = "setup" => SetupLogged(d)'
      BY <2>1, <3>1, BeginMoves DEF LogInv, SetupLogged
    <3>6. QED
      BY <3>1, <3>2, <3>4, <3>5 DEF LogInv, LogNeverLies
  <2>2. ASSUME NEW c \in Callers, AuditStep(c)
        PROVE  LogInv'
    BY <2>2, AuditStepLog
  <2>3. ASSUME NEW c \in Callers, SettingStep(c)
        PROVE  LogInv'
    <3>1. UNCHANGED auditVars /\ ghost'.late = ghost.late
      BY <2>3 DEF SettingStep, Hit, Miss, ReadRow, Fill, FindRow, SaveRow, DelEntry, SettingFails, BesidesSettings,
                  Typed, GhostTyped
    <3>2. QED
      BY <2>3, <3>1, SettingMoves, LogFrame DEF auditVars, SettingKinds
  <2>4. ASSUME NEW c \in Callers, AddJob(c) \/ PolicyStep(c)
        PROVE  LogInv'
    BY <2>4, AddJobMoves, PolicyMoves, LogFrame DEF auditVars, RoleKinds
  <2>5. ASSUME NEW n \in Numbers, JobStep(n)
        PROVE  LogInv'
    BY <2>5, JobMoves, LogFrame DEF auditVars
  <2>6. ASSUME NEW e \in pending, SaveLog(e) \/ LoseLog(e)
        PROVE  LogInv'
    BY <2>6, SaveLogLog
  <2>7. CASE Tick \/ Expire
    <3>1. ghost'.late = ghost.late
      BY <2>7, TickMoves DEF Expire, Typed, GhostTyped
    <3>2. QED
      BY <2>7, <3>1, TickMoves, ExpireMoves, LogFrame DEF auditVars
  <2>8. CASE Restart
    <3>1. ghost'.late = ghost.late /\ pending' = {}
      BY <2>8 DEF Restart, Typed, GhostTyped
    <3>2. QED
      BY <2>8, <3>1, RestartMoves DEF LogInv, LogNeverLies
  <2>9. CASE UNCHANGED vars
    BY <2>9 DEF vars, LogInv, LogNeverLies, SetupLogged
  <2>10. QED
    BY <2>1, <2>2, <2>3, <2>4, <2>5, <2>6, <2>7, <2>8, <2>9 DEF Next, Numbers
<1>3. I => LogNeverLies
  BY DEF LogInv
<1>4. QED
  BY <1>1, <1>2, <1>3, PTL DEF Spec

-------------------------------------------------------------------------------
(* The mail queue *)

Held(n) == worker.job = n
Open(j) == j.refused < Attempts /\ j.stalled <= MaxStalled

\* How often the mail of the job n may have gone out: once for each attempt
\* that was refused and each stall, and once for the attempt in progress.
JobInv(n) ==
    LET j == jobs[n] IN
    /\ j.state \in {"waiting", "delayed"} => Open(j) /\ j.sent <= j.refused + j.stalled
    /\ j.state = "active" =>
          /\ Open(j) /\ j.sent <= j.refused + j.stalled + 1
          /\ Held(n) /\ ~ worker.handed => j.sent <= j.refused + j.stalled
          /\ Held(n) /\ worker.handed => j.sent > 0
    /\ j.state = "completed" => Open(j) /\ j.sent > 0 /\ j.sent <= j.refused + j.stalled + 1
    /\ j.state = "failed" =>
          /\ j.sent <= j.refused + j.stalled
          /\ \/ j.refused = Attempts /\ j.stalled <= MaxStalled
             \/ j.refused < Attempts /\ j.stalled = MaxStalled + 1

MailInv ==
    /\ \A n \in Numbers : jobs[n] # NoJob => JobInv(n) /\ n <= calls
    /\ worker.job # 0 => jobs[worker.job].state = "active"
    /\ \A c \in Callers : call[c] # Idle /\ call[c].kind = "mail" => jobs[call[c].n] = NoJob

LEMMA MailFrame ==
    ASSUME MailInv, NEW ks, Only(ks), "mail" \notin ks, UNCHANGED mailVars
    PROVE  MailInv'
<1>1. \A c \in Callers : call'[c] # Idle /\ call'[c].kind = "mail" => call'[c] = call[c]
  BY DEF Only, Moved, Follows
<1>2. calls' = calls /\ jobs' = jobs /\ worker' = worker
  BY DEF Only, mailVars
<1>3. QED
  BY <1>1, <1>2 DEF MailInv, JobInv, Held

LEMMA JobStepMail ==
    ASSUME Typed, MailInv, NEW n \in Numbers, JobStep(n)
    PROVE  MailInv'
<1>1. n # 0 /\ jobs[n] \in JobRecord /\ jobs[n] # NoJob
  BY JobStepChange DEF JobRecord, NoJob
<1>2. JobInv(n) /\ n <= calls /\ UNCHANGED <<call, calls>>
  BY <1>1 DEF MailInv, JobStep, Pick, Send, Complete, Refuse, BackoffOver, Stalled, callVars
<1>3. jobs' = [jobs EXCEPT ![n] = jobs'[n]] /\ jobs'[n] \in JobRecord
  BY JobStepChange DEF Typed, MailTyped
<1>4. \A m \in Numbers \ {n} : jobs'[m] = jobs[m] /\ (worker'.job = m => worker' = worker)
  <2>1. worker' = worker \/ worker'.job \in {0, n}
    BY <1>1 DEF JobStep, Pick, Send, Complete, Refuse, BackoffOver, Stalled, Rest, Typed, MailTyped
  <2>2. \A m \in Numbers \ {n} : m # 0
    BY DEF Numbers
  <2>3. QED
    BY <1>3, <2>1, <2>2 DEF Typed, MailTyped
<1>5. \A m \in Numbers \ {n} : jobs'[m] # NoJob => JobInv(m)' /\ m <= calls'
  <2>1. TAKE m \in Numbers \ {n}
  <2>2. HAVE jobs'[m] # NoJob
  <2>3. JobInv(m) /\ m <= calls
    BY <1>4, <2>2 DEF MailInv
  <2>4. Held(m)' => Held(m) /\ worker'.handed = worker.handed
    BY <1>4 DEF Held
  <2>5. QED
    BY <1>2, <1>4, <2>3, <2>4 DEF JobInv, Open
<1>6. JobInv(n)' /\ (worker'.job # 0 => jobs'[worker'.job].state = "active")
  <2>1. /\ jobs[n].refused \in Nat /\ jobs[n].stalled \in Nat /\ jobs[n].sent \in Nat
        /\ jobs[n].attempts = Attempts /\ Attempts \in Nat /\ MaxStalled \in Nat
    BY <1>1, ServerAssumption DEF JobRecord
  <2>2. CASE Pick(n)
    <3>1. jobs'[n] = [jobs[n] EXCEPT !.state = "active"] /\ worker' = [job |-> n, handed |-> FALSE] /\ jobs[n].state = "waiting"
      BY <2>2 DEF Pick, Typed, MailTyped
    <3>2. /\ jobs'[n].state = "active" /\ jobs'[n].refused = jobs[n].refused
          /\ jobs'[n].stalled = jobs[n].stalled /\ jobs'[n].sent = jobs[n].sent
      BY <1>1, <3>1 DEF JobRecord
    <3>3. worker'.job = n /\ ~ worker'.handed
      BY <3>1
    <3>4. JobInv(n)'
      BY <1>2, <2>1, <3>1, <3>2, <3>3 DEF JobInv, Open, Held
    <3>5. QED
      BY <3>2, <3>3, <3>4
  <2>3. CASE Send(n)
    <3>1. jobs'[n] = [jobs[n] EXCEPT !.sent = @ + 1] /\ worker'.job = n /\ worker'.handed /\ ~ worker.handed /\ worker.job = n
      BY <2>3 DEF Send, Typed, MailTyped
    <3>2. /\ jobs'[n].state = "active" /\ jobs[n].state = "active" /\ jobs'[n].refused = jobs[n].refused
          /\ jobs'[n].stalled = jobs[n].stalled /\ jobs'[n].sent = jobs[n].sent + 1
      BY <1>1, <3>1 DEF JobRecord, MailInv
    <3>3. jobs'[n].sent > 0 /\ jobs[n].sent <= jobs[n].refused + jobs[n].stalled
      BY <1>2, <2>1, <3>1, <3>2 DEF JobInv, Held
    <3>4. JobInv(n)'
      BY <1>2, <2>1, <3>1, <3>2, <3>3 DEF JobInv, Open, Held
    <3>5. QED
      BY <3>1, <3>2, <3>4
  <2>4. CASE Complete(n)
    <3>1. jobs'[n] = [jobs[n] EXCEPT !.state = "completed"] /\ worker'.job = 0 /\ worker.handed /\ worker.job = n
      BY <2>4 DEF Complete, Typed, MailTyped, Rest
    <3>2. /\ jobs'[n].state = "completed" /\ jobs[n].state = "active" /\ jobs'[n].refused = jobs[n].refused
          /\ jobs'[n].stalled = jobs[n].stalled /\ jobs'[n].sent = jobs[n].sent
      BY <1>1, <3>1 DEF JobRecord, MailInv
    <3>3. QED
      BY <1>2, <2>1, <3>1, <3>2 DEF JobInv, Open, Held
  <2>5. CASE Refuse(n)
    <3>1. /\ worker'.job = 0 /\ worker.job = n
          /\ jobs'[n] = [jobs[n] EXCEPT !.refused = @ + 1,
                            !.state = IF jobs[n].refused + 1 < jobs[n].attempts THEN "delayed" ELSE "failed"]
      BY <2>5 DEF Refuse, Typed, MailTyped, Rest
    <3>2. /\ jobs'[n].state = (IF jobs[n].refused + 1 < Attempts THEN "delayed" ELSE "failed")
          /\ jobs[n].state = "active" /\ jobs'[n].refused = jobs[n].refused + 1
          /\ jobs'[n].stalled = jobs[n].stalled /\ jobs'[n].sent = jobs[n].sent
      BY <1>1, <2>1, <3>1 DEF JobRecord, MailInv
    <3>3. QED
      BY <1>2, <2>1, <3>1, <3>2 DEF JobInv, Open, Held
  <2>6. CASE BackoffOver(n)
    <3>1. jobs'[n] = [jobs[n] EXCEPT !.state = "waiting"] /\ worker' = worker /\ jobs[n].state = "delayed"
      BY <2>6 DEF BackoffOver, Typed, MailTyped
    <3>2. /\ jobs'[n].state = "waiting" /\ jobs'[n].refused = jobs[n].refused
          /\ jobs'[n].stalled = jobs[n].stalled /\ jobs'[n].sent = jobs[n].sent
      BY <1>1, <3>1 DEF JobRecord
    <3>3. worker.job # n
      BY <1>1, <3>1 DEF MailInv
    <3>4. worker.job # 0 => worker.job \in Numbers \ {n}
      BY <3>3, ServerAssumption DEF Typed, MailTyped, Numbers
    <3>5. QED
      BY <1>2, <1>4, <2>1, <3>1, <3>2, <3>4 DEF JobInv, Open, Held, MailInv
  <2>7. CASE Stalled(n)
    <3>1. /\ worker' = worker /\ jobs[n].state = "active" /\ worker.job # n
          /\ jobs'[n] = [jobs[n] EXCEPT !.stalled = @ + 1,
                            !.state = IF jobs[n].stalled < MaxStalled THEN "waiting" ELSE "failed"]
      BY <2>7 DEF Stalled, Typed, MailTyped
    <3>2. /\ jobs'[n].state = (IF jobs[n].stalled < MaxStalled THEN "waiting" ELSE "failed")
          /\ jobs'[n].refused = jobs[n].refused
          /\ jobs'[n].stalled = jobs[n].stalled + 1 /\ jobs'[n].sent = jobs[n].sent
      BY <1>1, <3>1 DEF JobRecord
    <3>3. worker.job # 0 => worker.job \in Numbers \ {n}
      BY <3>1, ServerAssumption DEF Typed, MailTyped, Numbers
    <3>4. QED
      BY <1>2, <1>4, <2>1, <3>1, <3>2, <3>3 DEF JobInv, Open, Held, MailInv
  <2>8. QED
    BY <2>2, <2>3, <2>4, <2>5, <2>6, <2>7 DEF JobStep
<1>7. \A c \in Callers : call'[c] # Idle /\ call'[c].kind = "mail" => jobs'[call'[c].n] = NoJob
  <2>1. \A c \in Callers : call[c] # Idle => call[c].n \in Numbers
    BY DEF Typed, CallsTyped, CallRecord
  <2>2. QED
    BY <1>1, <1>2, <1>4, <2>1 DEF MailInv
<1>8. jobs'[n] # NoJob
  BY <1>3 DEF JobRecord, NoJob
<1>9. QED
  BY <1>2, <1>5, <1>6, <1>7, <1>8 DEF MailInv

LEMMA AddJobMail ==
    ASSUME Typed, Numbered, MailInv, NEW c \in Callers, AddJob(c)
    PROVE  MailInv'
<1> DEFINE j == [state |-> "waiting", attempts |-> Attempts, refused |-> 0, stalled |-> 0, sent |-> 0]
<1> PICK n \in Numbers : n = call[c].n
  BY AddJobMoves
<1>1. n = call[c].n /\ n <= calls /\ calls' = calls /\ call[c] # Idle
  BY AddJobMoves DEF Numbered, Only
<1>2. jobs[n] = NoJob
  BY <1>1 DEF AddJob, At, MailInv
<1>3. jobs' = [jobs EXCEPT ![n] = j] /\ worker' = worker /\ call' = [call EXCEPT ![c] = Idle]
  BY <1>1 DEF AddJob, Return
<1>4. jobs'[n] = j /\ \A m \in Numbers \ {n} : jobs'[m] = jobs[m]
  BY <1>3 DEF Typed, MailTyped
<1>5. JobInv(n)'
  <2>1. j.state = "waiting" /\ j.refused = 0 /\ j.stalled = 0 /\ j.sent = 0
    OBVIOUS
  <2>2. /\ jobs'[n].state = "waiting" /\ jobs'[n].refused = 0 /\ jobs'[n].stalled = 0
        /\ jobs'[n].sent = 0
    BY <1>4, <2>1
  <2>3. 0 < Attempts /\ 0 <= MaxStalled /\ 0 <= 0 + 0
    BY ServerAssumption
  <2>4. QED
    BY <2>2, <2>3 DEF JobInv, Open
<1>6. \A m \in Numbers : jobs'[m] # NoJob => JobInv(m)' /\ m <= calls'
  <2>1. \A m \in Numbers \ {n} : jobs[m] # NoJob => JobInv(m)'
    <3>1. TAKE m \in Numbers \ {n}
    <3>2. HAVE jobs[m] # NoJob
    <3>3. JobInv(m) /\ jobs'[m] = jobs[m] /\ worker' = worker
      BY <1>3, <1>4, <3>2 DEF MailInv
    <3>4. QED
      BY <3>3 DEF JobInv, Held, Open
  <2>2. \A m \in Numbers \ {n} : jobs'[m] # NoJob => JobInv(m)' /\ m <= calls'
    BY <1>1, <1>4, <2>1 DEF MailInv
  <2>3. QED
    BY <1>1, <1>5, <2>2
<1>7. worker'.job # 0 => jobs'[worker'.job].state = "active"
  <2>1. worker.job # 0 => worker.job \in Numbers /\ worker.job # n
    BY <1>2, ServerAssumption DEF Typed, MailTyped, Numbers
  <2>2. QED
    BY <1>3, <1>4, <2>1 DEF MailInv
<1>8. \A d \in Callers : call'[d] # Idle /\ call'[d].kind = "mail" => jobs'[call'[d].n] = NoJob
  <2>1. TAKE d \in Callers
  <2>2. HAVE call'[d] # Idle /\ call'[d].kind = "mail"
  <2>3. d # c /\ call'[d] = call[d]
    BY <1>3, <2>2 DEF Typed, CallsTyped
  <2>4. call[d].n # n /\ call[d].n \in Numbers
    BY <1>1, <2>2, <2>3 DEF Numbered, Typed, CallsTyped, CallRecord
  <2>5. QED
    BY <1>4, <2>2, <2>3, <2>4 DEF MailInv
<1>9. QED
  BY <1>6, <1>7, <1>8 DEF MailInv

\* Completed means sent, failed means refused or stalled as often as allowed,
\* and no mail goes out more often than attempts and stalls are allowed: for
\* any number of jobs, attempts, stalls and restarts.
THEOREM MailsAreReported == Spec => []SentAsReported
<1> DEFINE I == Typed /\ Numbered /\ MailInv
<1>1. ServerInit => I
  <2> SUFFICES ASSUME ServerInit PROVE MailInv
    BY InitTyped
  <2>1. QED
    BY DEF ServerInit, MailInv, Rest, Numbers
<1>2. I /\ [Next]_vars => I'
  <2> SUFFICES ASSUME I, [Next]_vars PROVE MailInv'
    BY NextTyped
  <2>1. ASSUME NEW c \in Callers, NEW k \in mix.kinds, NEW a \in Args(k), Begin(c, k, a)
        PROVE  MailInv'
    <3>1. jobs' = jobs /\ worker' = worker
      BY <2>1, BeginMoves DEF mailVars
    <3>2. \A n \in Numbers : n <= calls => n <= calls' /\ n # calls'
      BY <2>1, BeginMoves DEF Typed, CallsTyped, Numbers
    <3>3. jobs[calls'] = NoJob /\ calls' \in Numbers
      BY <2>1, <3>2, BeginMoves DEF MailInv
    <3>4. \A d \in Callers : call'[d] # Idle /\ call'[d].kind = "mail" => jobs'[call'[d].n] = NoJob
      BY <2>1, <3>1, <3>3, BeginMoves DEF MailInv
    <3>5. QED
      BY <3>1, <3>2, <3>4 DEF MailInv, JobInv, Held
  <2>2. ASSUME NEW c \in Callers, AddJob(c)
        PROVE  MailInv'
    BY <2>2, AddJobMail
  <2>3. ASSUME NEW c \in Callers, SettingStep(c) \/ AuditStep(c) \/ PolicyStep(c)
        PROVE  MailInv'
    <3>1. SettingStep(c) => UNCHANGED mailVars
      BY DEF SettingStep, Hit, Miss, ReadRow, Fill, FindRow, SaveRow, DelEntry, SettingFails, BesidesSettings
    <3>2. QED
      BY <2>3, <3>1, SettingMoves, AuditMoves, PolicyMoves, MailFrame DEF SettingKinds, RoleKinds
  <2>4. ASSUME NEW n \in Numbers, JobStep(n)
        PROVE  MailInv'
    BY <2>4, JobStepMail
  <2>5. ASSUME NEW e \in pending, SaveLog(e) \/ LoseLog(e)
        PROVE  MailInv'
    BY <2>5, SaveLogMoves, MailFrame
  <2>6. CASE Tick \/ Expire
    BY <2>6, TickMoves, ExpireMoves, MailFrame
  <2>7. CASE Restart
    <3>1. worker' = Rest /\ jobs' = jobs /\ calls' = calls
      BY <2>7 DEF Restart
    <3>2. \A n \in Numbers : ~ Held(n)'
      BY <3>1 DEF Held, Rest, Numbers
    <3>3. \A n \in Numbers : jobs[n] # NoJob => JobInv(n)'
      BY <3>1, <3>2 DEF MailInv, JobInv
    <3>4. QED
      BY <2>7, <3>1, <3>3, RestartMoves DEF MailInv, Rest
  <2>8. CASE UNCHANGED vars
    BY <2>8 DEF vars, MailInv, JobInv, Held
  <2>9. QED
    BY <2>1, <2>2, <2>3, <2>4, <2>5, <2>6, <2>7, <2>8 DEF Next, Numbers
<1>3. I => SentAsReported
  <2> SUFFICES ASSUME I, NEW n \in DOMAIN jobs, jobs[n] # NoJob
               PROVE  /\ jobs[n].state = "completed" => jobs[n].sent > 0
                      /\ jobs[n].state = "failed" => jobs[n].refused = Attempts \/ jobs[n].stalled > MaxStalled
                      /\ jobs[n].sent <= Attempts + MaxStalled
    BY DEF SentAsReported
  <2>1. n \in Numbers /\ jobs[n] \in JobRecord /\ JobInv(n)
    BY DEF Typed, MailTyped, MailInv
  <2>2. QED
    BY <2>1, ServerAssumption DEF JobInv, Open, JobRecord, JobStates
<1>4. QED
  BY <1>1, <1>2, <1>3, PTL DEF Spec

-------------------------------------------------------------------------------
(* Roles *)

\* What a token, or one about to be signed, still grants was lost no longer
\* ago than the token has lived; what the role grants is not lost.
LossInv ==
    /\ \A t \in tokens : \A p \in Grants(t.role) : lost[p] + t.left <= TokenLife
    /\ \A c \in Callers : At(c, "sign", "sign") => \A p \in Grants(call[c].role) : lost[p] = 0
    /\ \A p \in Grants(RoleOf(holder)) : lost[p] = 0

LEMMA GrantsPerms ==
    ASSUME NEW r \in RoleType
    PROVE  Grants(r) \subseteq Perms
  BY DEF RoleType, Grants

LEMMA LossFrame ==
    ASSUME LossInv, NEW ks, Only(ks), "sign" \notin ks, UNCHANGED <<roleVars, tokenVars>>
    PROVE  LossInv'
<1>1. \A c \in Callers : At(c, "sign", "sign")' => call'[c] = call[c]
  BY DEF Only, Moved, Follows, At, Idle
<1>2. \A c \in Callers : At(c, "sign", "sign")' => At(c, "sign", "sign") /\ call'[c] = call[c]
  BY <1>1 DEF At
<1>3. role' = role /\ holder' = holder /\ tokens' = tokens /\ lost' = lost
  BY DEF roleVars, tokenVars
<1>4. QED
  BY <1>2, <1>3 DEF LossInv, RoleOf

\* A change of a role or of the administrator's takes effect on lost at once.
LEMMA NotedLoss ==
    ASSUME Typed, Typed', LossInv, NoteHeld, tokens' = tokens,
           \A c \in Callers : At(c, "sign", "sign")' => At(c, "sign", "sign") /\ call'[c] = call[c]
    PROVE  LossInv'
<1>1. \A p \in Perms : lost'[p] = 0 \/ lost'[p] = lost[p]
  BY DEF NoteHeld
<1>2. \A p \in Perms : lost[p] = 0 => lost'[p] = 0
  BY DEF NoteHeld
<1>3. \A p \in Perms : lost[p] \in 0 .. TokenLife /\ TokenLife \in Nat
  BY ServerAssumption DEF Typed, RolesTyped
<1>4. \A t \in tokens : t.left \in 1 .. TokenLife /\ Grants(t.role) \subseteq Perms
  BY GrantsPerms DEF Typed, RolesTyped
<1>5. \A t \in tokens' : \A p \in Grants(t.role) : lost'[p] + t.left <= TokenLife
  BY <1>1, <1>3, <1>4 DEF LossInv
<1>6. \A c \in Callers : At(c, "sign", "sign")' => \A p \in Grants(call'[c].role) : lost'[p] = 0
  <2>1. \A c \in Callers : At(c, "sign", "sign") => call[c].role \in RoleType
    BY DEF Typed, CallsTyped, CallRecord, At, Idle
  <2>2. QED
    BY <1>2, <2>1, GrantsPerms DEF LossInv
<1>7. \A p \in Grants(RoleOf(holder))' : lost'[p] = 0
  <2>1. (RoleOf(holder) \in RoleType)'
    BY RoleOfIsRole DEF Typed, RolesTyped, RoleOf, NoRole, RoleType
  <2>2. Grants(RoleOf(holder))' \subseteq Perms
    BY <2>1 DEF RoleType, Grants
  <2>3. QED
    BY <2>2 DEF NoteHeld
<1>8. QED
  BY <1>5, <1>6, <1>7 DEF LossInv

LEMMA PolicyStepLoss ==
    ASSUME Typed, Numbered, LossInv, NEW c \in Callers, PolicyStep(c)
    PROVE  LossInv'
<1>1. call[c] \in CallRecord /\ Typed'
  <2>1. call[c] # Idle
    BY DEF PolicyStep, FindRole, SaveRole, RemoveRole, LoadHeld, FindNewRole, AssignRole, LoadAdmin, CreateToken, At, Idle
  <2>2. call[c] \in CallRecord
    BY <2>1 DEF Typed, CallsTyped
  <2>3. QED
    BY <2>2, PolicyMoves
<1>2. \A d \in Callers \ {c} : call'[d] = call[d]
  BY DEF Typed, CallsTyped, PolicyStep, FindRole, SaveRole, RemoveRole, LoadHeld, FindNewRole, AssignRole,
         LoadAdmin, CreateToken, Keep, Goto, Return
<1>3. ASSUME call'[c].pc # "sign"
      PROVE  \A d \in Callers : At(d, "sign", "sign")' => At(d, "sign", "sign") /\ call'[d] = call[d]
  BY <1>2, <1>3 DEF At
<1>4. CASE FindRole(c) \/ FindNewRole(c)
  <2>1. call'[c].pc # "sign"
    BY <1>1, <1>4 DEF FindRole, FindNewRole, Goto, Return, Typed, CallsTyped, CallRecord, Idle
  <2>2. role' = role /\ holder' = holder /\ tokens' = tokens /\ lost' = lost
    BY <1>4 DEF FindRole, FindNewRole, roleVars, tokenVars
  <2>3. QED
    BY <1>3, <2>1, <2>2 DEF LossInv, RoleOf
<1>5. CASE SaveRole(c) \/ RemoveRole(c) \/ AssignRole(c)
  <2>1. call'[c].pc # "sign"
    BY <1>5 DEF SaveRole, RemoveRole, AssignRole, Return, Typed, CallsTyped, Idle
  <2>2. NoteHeld /\ tokens' = tokens
    BY <1>5 DEF SaveRole, RemoveRole, AssignRole
  <2>3. QED
    BY <1>1, <1>3, <2>1, <2>2, NotedLoss
<1>9. CASE LoadHeld(c)
  <2>1. call'[c] = [call[c] EXCEPT !.pc = "find", !.held = {h \in {holder} : role[h].live}]
    BY <1>9 DEF LoadHeld, Keep, Typed, CallsTyped
  <2>2. call'[c].pc # "sign"
    BY <1>1, <2>1 DEF CallRecord
  <2>3. role' = role /\ holder' = holder /\ tokens' = tokens /\ lost' = lost
    BY <1>9 DEF LoadHeld, roleVars, tokenVars
  <2>4. QED
    BY <1>3, <2>2, <2>3 DEF LossInv, RoleOf
<1>6. CASE LoadAdmin(c)
  <2>1. role' = role /\ holder' = holder /\ tokens' = tokens /\ lost' = lost
    BY <1>6 DEF LoadAdmin, roleVars, tokenVars
  <2>2. call'[c] = [call[c] EXCEPT !.pc = "sign", !.role = RoleOf(holder)]
    BY <1>6 DEF LoadAdmin, Keep, Typed, CallsTyped
  <2>3. call'[c].role = RoleOf(holder)
    BY <1>1, <2>2 DEF CallRecord
  <2>4. \A d \in Callers : At(d, "sign", "sign")' => \A p \in Grants(call'[d].role) : lost[p] = 0
    BY <1>2, <2>3 DEF At, LossInv
  <2>5. QED
    BY <2>1, <2>4 DEF LossInv, RoleOf
<1>7. CASE CreateToken(c)
  <2>1. role' = role /\ holder' = holder /\ lost' = lost /\ At(c, "sign", "sign")
        /\ tokens' = tokens \cup {[role |-> call[c].role, left |-> TokenLife]}
    BY <1>7 DEF CreateToken, roleVars
  <2>2. call'[c].pc # "sign"
    BY <1>7 DEF CreateToken, Return, Typed, CallsTyped, Idle
  <2>3. \A t \in tokens' : \A p \in Grants(t.role) : lost'[p] + t.left <= TokenLife
    BY <2>1, ServerAssumption DEF LossInv
  <2>4. QED
    BY <1>3, <2>1, <2>2, <2>3 DEF LossInv, RoleOf
<1>8. QED
  BY <1>4, <1>5, <1>6, <1>7, <1>9 DEF PolicyStep

LEMMA TickLoss ==
    ASSUME Typed, LossInv, Tick
    PROVE  LossInv'
<1>1. role' = role /\ holder' = holder /\ call' = call
  BY DEF Tick, roleVars, callVars
<1>2. \A p \in Perms : lost[p] \in 0 .. TokenLife /\ lost'[p] \in 0 .. TokenLife /\ lost'[p] <= lost[p] + 1
                       /\ (p \in Grants(RoleOf(holder)) => lost'[p] = 0)
  BY TickMoves, ServerAssumption DEF Tick, Typed, RolesTyped
<1>3. \A t \in tokens' : \E u \in tokens : t.role = u.role /\ u.left \in 2 .. TokenLife /\ t.left = u.left - 1
                                           /\ Grants(u.role) \subseteq Perms
  BY GrantsPerms, ServerAssumption DEF Tick, Typed, RolesTyped
<1>4. \A t \in tokens' : \A p \in Grants(t.role) : lost'[p] + t.left <= TokenLife
  BY <1>2, <1>3, ServerAssumption DEF LossInv
<1>5. Grants(RoleOf(holder)) \subseteq Perms
  BY RoleOfIsRole, GrantsPerms DEF Typed, RolesTyped
<1>6. \A c \in Callers : ~ At(c, "sign", "sign")'
  BY <1>1 DEF Tick, At
<1>7. QED
  BY <1>1, <1>2, <1>4, <1>5, <1>6 DEF LossInv, RoleOf

\* A lost permission is of no use one token life later: for any number of
\* roles, permissions, tokens and concurrent calls.
THEOREM RevocationHolds == Spec => []RevocationTakesEffect
<1> DEFINE I == Typed /\ Numbered /\ LossInv
<1>1. ServerInit => I
  <2> SUFFICES ASSUME ServerInit PROVE LossInv
    BY InitTyped
  <2>1. Grants(RoleOf(holder)) \subseteq Perms
    BY InitTyped, RoleOfIsRole, GrantsPerms DEF Typed, RolesTyped
  <2>2. QED
    BY <2>1 DEF ServerInit, LossInv, At, Idle
<1>2. I /\ [Next]_vars => I'
  <2> SUFFICES ASSUME I, [Next]_vars PROVE LossInv'
    BY NextTyped
  <2>1. ASSUME NEW c \in Callers, NEW k \in mix.kinds, NEW a \in Args(k), Begin(c, k, a)
        PROVE  LossInv'
    <3>1. role' = role /\ holder' = holder /\ tokens' = tokens /\ lost' = lost
      BY <2>1, BeginMoves DEF roleVars, tokenVars
    <3>2. \A d \in Callers : At(d, "sign", "sign")' => At(d, "sign", "sign") /\ call'[d] = call[d]
      BY <2>1, BeginMoves DEF At
    <3>3. QED
      BY <3>1, <3>2 DEF LossInv, RoleOf
  <2>2. ASSUME NEW c \in Callers, PolicyStep(c)
        PROVE  LossInv'
    BY <2>2, PolicyStepLoss
  <2>3. ASSUME NEW c \in Callers, SettingStep(c) \/ AuditStep(c) \/ AddJob(c)
        PROVE  LossInv'
    <3>1. SettingStep(c) => UNCHANGED <<roleVars, tokenVars>>
      BY DEF SettingStep, Hit, Miss, ReadRow, Fill, FindRow, SaveRow, DelEntry, SettingFails, BesidesSettings
    <3>2. QED
      BY <2>3, <3>1, SettingMoves, AuditMoves, AddJobMoves, LossFrame DEF SettingKinds
  <2>4. ASSUME NEW n \in Numbers, JobStep(n)
        PROVE  LossInv'
    BY <2>4, JobMoves, LossFrame
  <2>5. ASSUME NEW e \in pending, SaveLog(e) \/ LoseLog(e)
        PROVE  LossInv'
    BY <2>5, SaveLogMoves, LossFrame
  <2>6. CASE Expire
    BY <2>6, ExpireMoves, LossFrame
  <2>7. CASE Tick
    BY <2>7, TickLoss
  <2>8. CASE Restart
    <3>1. role' = role /\ holder' = holder /\ tokens' = tokens /\ lost' = lost
      BY <2>8 DEF Restart, roleVars, tokenVars
    <3>2. \A c \in Callers : ~ At(c, "sign", "sign")'
      BY <2>8, RestartMoves DEF At, Idle
    <3>3. QED
      BY <3>1, <3>2 DEF LossInv, RoleOf
  <2>9. CASE UNCHANGED vars
    BY <2>9 DEF vars, LossInv, At, RoleOf
  <2>10. QED
    BY <2>1, <2>2, <2>3, <2>4, <2>5, <2>6, <2>7, <2>8, <2>9 DEF Next, Numbers
<1>3. I => RevocationTakesEffect
  <2> SUFFICES ASSUME I, NEW need \in (SUBSET Perms) \ {{}}, NEW any \in BOOLEAN, Allowed(need, any)
               PROVE  \E p \in need : lost[p] < TokenLife
    BY DEF RevocationTakesEffect
  <2>1. PICK t \in tokens : IF any THEN need \cap Grants(t.role) # {} ELSE need \subseteq Grants(t.role)
    BY DEF Allowed
  <2>2. PICK p \in need : p \in Grants(t.role)
    BY <2>1
  <2>3. lost[p] + t.left <= TokenLife /\ t.left \in 1 .. TokenLife /\ lost[p] \in 0 .. TokenLife
    BY <2>2 DEF LossInv, Typed, RolesTyped
  <2>4. QED
    BY <2>2, <2>3, ServerAssumption
<1>4. QED
  BY <1>1, <1>2, <1>3, PTL DEF Spec

-------------------------------------------------------------------------------
(* Updates of settings *)

Setting(c) == call[c] # Idle /\ call[c].kind \in SettingKinds
Quiet(n) == ghost.met[n] = {}
HasRead(c) == call[c].pc \in {"fill", "find", "save", "del"}

\* A value has the update u, or later ones, in every field u wrote.
Keeps(v, u) == \A f \in u.arg : v[f] >= u.n

\* Calls in progress together have met.
MetInv ==
    \A c, d \in Callers : c # d /\ Setting(c) /\ Setting(d) => call[d].n \in ghost.met[call[c].n]

\* An answered update is over.
AnsweredInv ==
    \A u \in ghost.answered :
        /\ u.arg \subseteq Fields /\ u.n <= calls
        /\ \A c \in Callers : call[c] # Idle => call[c].n # u.n

\* A quiet update is in the row, in the cache and in whatever calls, which all
\* began after it, have read.
QuietInv ==
    \A u \in ghost.answered : Quiet(u.n) =>
        /\ Keeps(row.val, u) /\ (cache.there => Keeps(cache.val, u))
        /\ \A c \in Callers : Setting(c) => call[c].n > u.n /\ (HasRead(c) => Keeps(call[c].base, u))

\* A quiet update that has saved is in the row until it is answered.
SavedInv ==
    \A c \in Callers : At(c, "update", "del") /\ Quiet(call[c].n) => Keeps(row.val, call[c])

LastInv == MetInv /\ AnsweredInv /\ QuietInv /\ SavedInv

LEMMA LastFrame ==
    ASSUME LastInv, NEW ks, Only(ks), ks \cap SettingKinds = {},
           UNCHANGED <<row, ghost.met, ghost.answered>>,
           cache' = cache \/ ~ cache'.there
    PROVE  LastInv'
<1>1. \A c \in Callers : Setting(c)' => Setting(c) /\ call'[c] = call[c]
  BY DEF Only, Moved, Follows, Setting
<1>2. \A c \in Callers : call'[c] # Idle => call[c] # Idle /\ call'[c].n = call[c].n
  BY DEF Only, Moved, Follows
<1>3. \A c \in Callers : At(c, "update", "del")' => At(c, "update", "del") /\ call'[c] = call[c]
  <2>1. \A c \in Callers : At(c, "update", "del")' => Setting(c)'
    BY DEF At, Setting, SettingKinds, Idle
  <2>2. QED
    BY <1>1, <2>1 DEF At
<1>4. calls' = calls
  BY DEF Only
<1>5. MetInv'
  BY <1>1 DEF LastInv, MetInv
<1>6. AnsweredInv'
  BY <1>2, <1>4 DEF LastInv, AnsweredInv
<1>7. QuietInv'
  BY <1>1 DEF LastInv, QuietInv, Quiet, HasRead, Keeps
<1>8. SavedInv'
  BY <1>3 DEF LastInv, SavedInv, Quiet, Keeps
<1>9. QED
  BY <1>5, <1>6, <1>7, <1>8 DEF LastInv

\* Where what a step writes comes from.
Sources(c) ==
    /\ row' = row \/ (call[c].pc = "save" /\ row'.val = Merged(call[c]))
    /\ cache'.there => cache' = cache \/ (HasRead(c) /\ cache'.val = call[c].base)
    /\ call'[c] # Idle /\ HasRead(c)' =>
           \/ HasRead(c) /\ call'[c].base = call[c].base
           \/ call'[c].base = row.val
           \/ cache.there /\ call'[c].base = cache.val
    /\ At(c, "update", "del")' => call[c].pc = "save" /\ row'.val = Merged(call[c])
    /\ ghost'.met = ghost.met
    /\ \/ ghost'.answered = ghost.answered
       \/ /\ At(c, "update", "del") /\ row' = row /\ ~ cache'.there /\ call'[c] = Idle
          /\ ghost'.answered = ghost.answered \cup {[n |-> call[c].n, arg |-> call[c].arg]}

LEMMA SettingSources ==
    ASSUME Typed, NEW c \in Callers, SettingStep(c)
    PROVE  Sources(c)
<1>1. call[c] \in CallRecord
  BY DEF Typed, CallsTyped, SettingStep, Hit, Miss, ReadRow, Fill, FindRow, SaveRow, DelEntry, SettingFails, At, Idle
<1>2. ASSUME NEW pc \in Pcs, Goto(c, pc)
      PROVE  call'[c].pc = pc /\ call'[c].base = call[c].base /\ call'[c].kind = call[c].kind
  BY <1>1, <1>2 DEF Goto, Typed, CallsTyped, CallRecord
<1>3. ASSUME Return(c)
      PROVE  call'[c] = Idle /\ ~ At(c, "update", "del")'
  BY <1>3 DEF Return, Typed, CallsTyped, At, Idle
<1>4. CASE Hit(c)
  <2>1. row' = row /\ cache' = cache /\ ghost' = ghost
    BY <1>4 DEF Hit, settingVars
  <2>2. CASE call[c].kind = "get"
    BY <1>3, <1>4, <2>1, <2>2 DEF Hit, Sources
  <2>3. CASE call[c].kind # "get"
    <3>1. call'[c] = [call[c] EXCEPT !.pc = "find", !.base = cache.val] /\ cache.there
      BY <1>4, <2>3 DEF Hit, Keep, Typed, CallsTyped
    <3>2. call'[c].pc = "find" /\ call'[c].base = cache.val
      BY <1>1, <3>1 DEF CallRecord
    <3>3. QED
      BY <2>1, <3>1, <3>2 DEF Sources, At, HasRead
  <2>4. QED
    BY <2>2, <2>3
<1>5. CASE Miss(c)
  <2>1. row' = row /\ cache' = cache /\ ghost' = ghost /\ call'[c].pc = "read"
    BY <1>2, <1>5 DEF Miss, settingVars, Pcs
  <2>2. QED
    BY <2>1 DEF Sources, HasRead, At
<1>6. CASE ReadRow(c)
  <2>1. call'[c] = [call[c] EXCEPT !.pc = "fill", !.base = row.val]
    BY <1>6 DEF ReadRow, Keep, Typed, CallsTyped
  <2>2. call'[c].pc = "fill" /\ call'[c].base = row.val
    BY <1>1, <2>1 DEF CallRecord
  <2>3. row' = row /\ cache' = cache /\ ghost' = ghost
    BY <1>6 DEF ReadRow, settingVars
  <2>4. QED
    BY <2>2, <2>3 DEF Sources, At
<1>7. CASE Fill(c)
  <2>1. row' = row /\ cache'.val = call[c].base /\ HasRead(c)
    BY <1>7 DEF Fill, Entry, HasRead
  <2>2. ghost'.met = ghost.met /\ ghost'.answered = ghost.answered
    BY <1>7 DEF Fill, Typed, GhostTyped
  <2>3. CASE Return(c)
    BY <1>3, <2>1, <2>2, <2>3 DEF Sources
  <2>4. CASE Goto(c, "find")
    <3>1. call'[c].pc = "find" /\ call'[c].base = call[c].base
      BY <1>2, <2>4 DEF Pcs
    <3>2. QED
      BY <2>1, <2>2, <3>1 DEF Sources, At
  <2>5. QED
    BY <1>7, <2>3, <2>4 DEF Fill
<1>8. CASE FindRow(c)
  <2>1. call'[c] = [call[c] EXCEPT !.pc = "save", !.found = row.there] /\ call[c].pc = "find"
    BY <1>8 DEF FindRow, Keep, At, Typed, CallsTyped
  <2>2. call'[c].pc = "save" /\ call'[c].base = call[c].base
    BY <1>1, <2>1 DEF CallRecord
  <2>3. row' = row /\ cache' = cache /\ ghost' = ghost
    BY <1>8 DEF FindRow, settingVars
  <2>4. QED
    BY <2>1, <2>2, <2>3 DEF Sources, At, HasRead
<1>9. CASE SaveRow(c)
  <2>1. cache' = cache /\ ghost' = ghost /\ call[c].pc = "save"
    BY <1>9 DEF SaveRow, At
  <2>2. CASE row' = Entry(Merged(call[c])) /\ Goto(c, "del")
    BY <1>2, <2>1, <2>2 DEF Sources, HasRead, Entry, Pcs
  <2>3. CASE row' = row /\ Return(c)
    BY <1>3, <2>1, <2>3 DEF Sources
  <2>4. QED
    BY <1>9, <2>2, <2>3 DEF SaveRow
<1>10. CASE DelEntry(c)
  <2>1. row' = row /\ ~ cache'.there /\ call'[c] = Idle /\ ~ At(c, "update", "del")' /\ At(c, "update", "del")
    BY <1>3, <1>10 DEF DelEntry, NoEntry
  <2>2. ghost'.met = ghost.met
        /\ ghost'.answered = ghost.answered \cup {[n |-> call[c].n, arg |-> call[c].arg]}
    BY <1>10 DEF DelEntry, Typed, GhostTyped
  <2>3. QED
    BY <2>1, <2>2 DEF Sources
<1>11. CASE SettingFails(c)
  <2>1. row' = row /\ cache' = cache /\ ghost' = ghost
    BY <1>11 DEF SettingFails, settingVars
  <2>2. QED
    BY <1>3, <1>11, <2>1 DEF SettingFails, Sources
<1>12. QED
  BY <1>4, <1>5, <1>6, <1>7, <1>8, <1>9, <1>10, <1>11 DEF SettingStep

LEMMA SettingStepLast ==
    ASSUME Typed, Numbered, LastInv, NEW c \in Callers, SettingStep(c)
    PROVE  LastInv'
<1>1. call[c] \in CallRecord /\ Setting(c)
  BY IdleIsNoRecord DEF Typed, CallsTyped, SettingStep, Hit, Miss, ReadRow, Fill, FindRow, SaveRow, DelEntry,
     SettingFails, At, Idle, Setting, SettingKinds
<1>2. \A d \in Callers \ {c} : call'[d] = call[d]
  BY DEF Typed, CallsTyped, SettingStep, Hit, Miss, ReadRow, Fill, FindRow, SaveRow, DelEntry, SettingFails,
         Keep, Goto, Return
<1>3. /\ calls' = calls
      /\ call'[c] # Idle => call'[c].n = call[c].n /\ call'[c].kind = call[c].kind /\ call'[c].arg = call[c].arg
  BY SettingMoves DEF Only, Moved, Follows
<1>4. Sources(c)
  BY SettingSources
<1>5. ghost'.met = ghost.met
  BY <1>4 DEF Sources
<1>6. \A d \in Callers : Setting(d)' => Setting(d) /\ call'[d].n = call[d].n
  BY <1>1, <1>2, <1>3 DEF Setting
<1>7. MetInv'
  BY <1>5, <1>6 DEF LastInv, MetInv
<1>8. call[c].n \in Numbers /\ (\A u \in ghost.answered : u.n \in Numbers) /\ \A d \in Callers : call[d] # Idle => call[d].n \in Numbers
  BY <1>1 DEF CallRecord, Typed, GhostTyped, CallsTyped
<1>9. ASSUME Quiet(call[c].n)
      PROVE  \A d \in Callers \ {c} : ~ Setting(d)
  BY <1>1, <1>9 DEF LastInv, MetInv, Quiet
<1>10. ASSUME NEW d \in Callers \ {c}, Setting(d)
       PROVE  ~ Quiet(call[d].n)
  BY <1>1, <1>10 DEF LastInv, MetInv, Quiet
<1>11. AnsweredInv'
  <2>1. ASSUME NEW u \in ghost.answered
        PROVE  /\ u.arg \subseteq Fields /\ u.n <= calls'
               /\ \A d \in Callers : call'[d] # Idle => call'[d].n # u.n
    <3>1. \A d \in Callers : call'[d] # Idle => call[d] # Idle /\ call'[d].n = call[d].n
      BY <1>1, <1>2, <1>3 DEF Setting
    <3>2. QED
      BY <1>3, <2>1, <3>1 DEF LastInv, AnsweredInv
  <2>2. ASSUME At(c, "update", "del"), call'[c] = Idle,
               NEW u \in {[n |-> call[c].n, arg |-> call[c].arg]}
        PROVE  /\ u.arg \subseteq Fields /\ u.n <= calls'
               /\ \A d \in Callers : call'[d] # Idle => call'[d].n # u.n
    <3>1. u.n = call[c].n /\ u.arg = call[c].arg
      BY <2>2
    <3>2. call[c].arg \in Args("update") /\ call[c].n <= calls
      BY <1>1, <2>2 DEF Numbered, At, Setting
    <3>3. \A d \in Callers \ {c} : call[d] # Idle => call[d].n # call[c].n
      BY <1>1 DEF Numbered, Setting
    <3>4. QED
      BY <1>2, <1>3, <2>2, <3>1, <3>2, <3>3 DEF Args
  <2>3. QED
    BY <1>4, <2>1, <2>2 DEF Sources, AnsweredInv
<1>12. QuietInv'
  <2>1. ASSUME NEW u \in ghost.answered, Quiet(u.n)
        PROVE  /\ Keeps(row'.val, u) /\ (cache'.there => Keeps(cache'.val, u))
               /\ \A d \in Callers : Setting(d)' => call'[d].n > u.n /\ (HasRead(d)' => Keeps(call'[d].base, u))
    <3>1. /\ Keeps(row.val, u) /\ (cache.there => Keeps(cache.val, u))
          /\ \A d \in Callers : Setting(d) => call[d].n > u.n /\ (HasRead(d) => Keeps(call[d].base, u))
      BY <2>1 DEF LastInv, QuietInv
    <3>2. HasRead(c) => Keeps(Merged(call[c]), u)
      <4>1. u.arg \subseteq Fields /\ call[c].n >= u.n
        BY <1>1, <1>8, <2>1, <3>1 DEF LastInv, AnsweredInv, Numbers
      <4>2. QED
        BY <1>1, <3>1, <4>1 DEF Keeps, Merged
    <3>3. Keeps(row'.val, u)
      BY <1>4, <3>1, <3>2 DEF Sources, HasRead
    <3>4. cache'.there => Keeps(cache'.val, u)
      BY <1>1, <1>4, <3>1 DEF Sources
    <3>5. ASSUME NEW d \in Callers, Setting(d)'
          PROVE  call'[d].n > u.n /\ (HasRead(d)' => Keeps(call'[d].base, u))
      <4>1. CASE d = c
        BY <1>1, <1>4, <1>6, <3>1, <3>5, <4>1 DEF Sources, Setting
      <4>2. CASE d # c
        BY <1>2, <3>1, <3>5, <4>2 DEF Setting, HasRead
      <4>3. QED
        BY <4>1, <4>2
    <3>6. QED
      BY <3>3, <3>4, <3>5
  <2>2. ASSUME At(c, "update", "del"), row' = row, ~ cache'.there, call'[c] = Idle,
               NEW u \in {[n |-> call[c].n, arg |-> call[c].arg]}, Quiet(u.n)
        PROVE  /\ Keeps(row'.val, u) /\ (cache'.there => Keeps(cache'.val, u))
               /\ \A d \in Callers : Setting(d)' => call'[d].n > u.n /\ (HasRead(d)' => Keeps(call'[d].base, u))
    <3>1. u.n = call[c].n /\ u.arg = call[c].arg
      BY <2>2
    <3>2. Keeps(row.val, u)
      BY <2>2, <3>1 DEF LastInv, SavedInv, Keeps
    <3>3. \A d \in Callers : ~ Setting(d)'
      BY <1>2, <1>9, <2>2, <3>1 DEF Setting
    <3>4. QED
      BY <2>2, <3>2, <3>3
  <2>3. \A u : Quiet(u.n)' <=> Quiet(u.n)
    BY <1>5 DEF Quiet
  <2>4. QED
    BY <1>4, <2>1, <2>2, <2>3 DEF Sources, QuietInv, Keeps
<1>13. SavedInv'
  <2> SUFFICES ASSUME NEW d \in Callers, At(d, "update", "del")', Quiet(call'[d].n)
               PROVE  Keeps(row'.val, call'[d])
    BY <1>5 DEF SavedInv, Quiet, Keeps
  <2>1. CASE d = c
    <3>1. row'.val = Merged(call[c]) /\ call'[c] # Idle
      BY <1>4, <2>1 DEF Sources, At, Idle
    <3>2. call'[c].n = call[c].n /\ call'[c].arg = call[c].arg /\ call[c].kind = "update"
      BY <1>3, <2>1, <3>1 DEF At
    <3>3. call[c].arg \subseteq Fields
      BY <1>1, <3>2 DEF Numbered, Args, Setting
    <3>4. \A f \in call[c].arg : Merged(call[c])[f] = call[c].n
      BY <3>3 DEF Merged
    <3>5. QED
      BY <1>8, <2>1, <3>1, <3>2, <3>4 DEF Keeps, Numbers
  <2>2. CASE d # c
    BY <1>2, <1>10, <2>2 DEF At, Setting, SettingKinds, Idle
  <2>3. QED
    BY <2>1, <2>2
<1>14. QED
  BY <1>7, <1>11, <1>12, <1>13 DEF LastInv

\* A call that begins has met those in progress, and they have met it.
LEMMA BeginLast ==
    ASSUME Typed, Numbered, LastInv,
           NEW c \in Callers, NEW k \in mix.kinds, NEW a \in Args(k), Begin(c, k, a)
    PROVE  LastInv'
<1>1. /\ calls' = calls + 1 /\ calls' \in Numbers /\ calls \in Nat
      /\ call'[c].pc = "start" /\ call'[c].n = calls' /\ call'[c].kind = k
      /\ call[c] = Idle /\ \A d \in Callers \ {c} : call'[d] = call[d]
      /\ row' = row /\ cache' = cache
  BY BeginMoves, ServerAssumption DEF settingVars, Typed, CallsTyped
<1>2. ghost'.answered = ghost.answered
  BY DEF Begin, Typed, GhostTyped
<1>3. \A d \in Callers : call[d] # Idle => call[d].n <= calls /\ call[d].n \in Numbers
  BY DEF Numbered, Typed, CallsTyped, CallRecord
<1>4. \A x \in Numbers : x <= calls => ghost.met[x] \subseteq ghost'.met[x]
  <2>1. CASE k \in SettingKinds
    <3>1. \A x \in Numbers : ghost'.met[x] =
              IF x = calls + 1 THEN {call[e].n : e \in SettingCalls}
              ELSE IF \E e \in SettingCalls : call[e].n = x THEN ghost.met[x] \cup {calls + 1} ELSE ghost.met[x]
      BY <2>1 DEF Begin, Typed, GhostTyped
    <3>2. \A x \in Numbers : x <= calls => x # calls + 1
      BY <1>1 DEF Numbers
    <3>3. QED
      BY <3>1, <3>2
  <2>2. CASE k \notin SettingKinds
    BY <2>2 DEF Begin
  <2>3. QED
    BY <2>1, <2>2
<1>5. k \in SettingKinds =>
          /\ \A d \in Callers : Setting(d) => call[d].n \in ghost'.met[calls']
          /\ \A d \in Callers : Setting(d) => calls' \in ghost'.met[call[d].n]
  <2> SUFFICES ASSUME k \in SettingKinds, NEW d \in Callers, Setting(d)
               PROVE  call[d].n \in ghost'.met[calls'] /\ calls' \in ghost'.met[call[d].n]
    OBVIOUS
  <2>1. d \in SettingCalls /\ call[d].n <= calls /\ call[d].n \in Numbers
    BY <1>3 DEF SettingCalls, Setting
  <2>2. \A x \in Numbers : ghost'.met[x] =
            IF x = calls + 1 THEN {call[e].n : e \in SettingCalls}
            ELSE IF \E e \in SettingCalls : call[e].n = x THEN ghost.met[x] \cup {calls + 1} ELSE ghost.met[x]
    BY DEF Begin, Typed, GhostTyped
  <2>3. call[d].n # calls + 1
    BY <1>1, <2>1 DEF Numbers
  <2>4. ghost'.met[calls'] = {call[e].n : e \in SettingCalls}
    BY <1>1, <2>2
  <2>5. ghost'.met[call[d].n] = ghost.met[call[d].n] \cup {calls'}
    BY <1>1, <2>1, <2>2, <2>3
  <2>6. QED
    BY <2>1, <2>4, <2>5
<1>6. MetInv'
  <2> SUFFICES ASSUME NEW d \in Callers, NEW e \in Callers, d # e, Setting(d)', Setting(e)'
               PROVE  call'[e].n \in ghost'.met[call'[d].n]
    BY DEF MetInv
  <2>1. CASE d = c
    BY <1>1, <1>5, <2>1 DEF Setting
  <2>2. CASE e = c
    BY <1>1, <1>5, <2>2 DEF Setting
  <2>3. CASE d # c /\ e # c
    <3>1. Setting(d) /\ Setting(e) /\ call'[d] = call[d] /\ call'[e] = call[e]
      BY <1>1, <2>3 DEF Setting
    <3>2. QED
      BY <1>3, <1>4, <3>1 DEF LastInv, MetInv, Setting
  <2>4. QED
    BY <2>1, <2>2, <2>3
<1>7. \A u \in ghost.answered : u.n \in Numbers /\ u.n <= calls /\ u.n < calls' /\ (Quiet(u.n)' => Quiet(u.n))
  <2>1. \A u \in ghost.answered : u.n \in Numbers /\ u.n <= calls
    BY DEF LastInv, AnsweredInv, Typed, GhostTyped
  <2>2. QED
    BY <1>1, <1>4, <2>1 DEF Quiet, Numbers
<1>8. AnsweredInv'
  <2>1. \A u \in ghost.answered : \A d \in Callers : call'[d] # Idle => call'[d].n # u.n
    BY <1>1, <1>7 DEF LastInv, AnsweredInv, Numbers
  <2>2. \A u \in ghost.answered : u.arg \subseteq Fields /\ u.n <= calls'
    BY <1>1, <1>7 DEF LastInv, AnsweredInv, Numbers
  <2>3. QED
    BY <1>2, <2>1, <2>2 DEF AnsweredInv
<1>9. QuietInv'
  <2> SUFFICES ASSUME NEW u \in ghost.answered, Quiet(u.n)
               PROVE  /\ Keeps(row'.val, u) /\ (cache'.there => Keeps(cache'.val, u))
                      /\ \A d \in Callers : Setting(d)' => call'[d].n > u.n /\ (HasRead(d)' => Keeps(call'[d].base, u))
    BY <1>2, <1>7 DEF QuietInv, Keeps
  <2>1. \A d \in Callers \ {c} : Setting(d)' => call'[d].n > u.n /\ (HasRead(d)' => Keeps(call'[d].base, u))
    BY <1>1 DEF LastInv, QuietInv, Setting, HasRead
  <2>2. call'[c].n > u.n /\ ~ HasRead(c)'
    BY <1>1, <1>7 DEF HasRead, Numbers
  <2>3. QED
    BY <1>1, <2>1, <2>2 DEF LastInv, QuietInv
<1>10. SavedInv'
  <2> SUFFICES ASSUME NEW d \in Callers, At(d, "update", "del")', Quiet(call[d].n)'
               PROVE  Keeps(row.val, call[d])'
    BY DEF SavedInv
  <2>1. d # c /\ call'[d] = call[d] /\ At(d, "update", "del") /\ call[d] # Idle
    BY <1>1 DEF At, Idle
  <2>2. Quiet(call[d].n)
    BY <1>3, <1>4, <2>1 DEF Quiet
  <2>3. QED
    BY <1>1, <2>1, <2>2 DEF LastInv, SavedInv, Keeps
<1>11. QED
  BY <1>6, <1>8, <1>9, <1>10 DEF LastInv

\* An update that no other call on settings overlapped is lost only to later
\* updates of its fields: for any number of callers, fields, expiries of the
\* cache, failing queries and restarts.
THEOREM QuietUpdateLasts == Spec => []QuietUpdatesLast
<1> DEFINE I == Typed /\ Numbered /\ LastInv
<1>1. ServerInit => I
  <2> SUFFICES ASSUME ServerInit PROVE LastInv
    BY InitTyped
  <2>1. ghost.answered = {} /\ \A c \in Callers : call[c] = Idle
    BY DEF ServerInit
  <2>2. QED
    BY <2>1 DEF LastInv, MetInv, AnsweredInv, QuietInv, SavedInv, At, Idle, Setting
<1>2. I /\ [Next]_vars => I'
  <2> SUFFICES ASSUME I, [Next]_vars PROVE LastInv'
    BY NextTyped
  <2>1. ASSUME NEW c \in Callers, NEW k \in mix.kinds, NEW a \in Args(k), Begin(c, k, a)
        PROVE  LastInv'
    BY <2>1, BeginLast
  <2>2. ASSUME NEW c \in Callers, SettingStep(c)
        PROVE  LastInv'
    BY <2>2, SettingStepLast
  <2>3. ASSUME NEW c \in Callers, AuditStep(c) \/ AddJob(c) \/ PolicyStep(c)
        PROVE  LastInv'
    <3>1. ghost' = ghost
      BY <2>3, AddJobMoves, PolicyMoves DEF AuditStep, InsertRole, InsertAdmin, Commit, Rollback, Release
    <3>2. QED
      BY <2>3, <3>1, AuditMoves, AddJobMoves, PolicyMoves, LastFrame DEF settingVars, RoleKinds, SettingKinds
  <2>4. ASSUME NEW n \in Numbers, JobStep(n)
        PROVE  LastInv'
    BY <2>4, JobMoves, LastFrame DEF settingVars
  <2>5. ASSUME NEW e \in pending, SaveLog(e) \/ LoseLog(e)
        PROVE  LastInv'
    <3>1. ghost'.met = ghost.met /\ ghost'.answered = ghost.answered
      BY <2>5 DEF SaveLog, LoseLog, Typed, GhostTyped
    <3>2. QED
      BY <2>5, <3>1, SaveLogMoves, LastFrame DEF settingVars, SettingKinds
  <2>6. CASE Expire
    <3>1. ghost'.met = ghost.met /\ ghost'.answered = ghost.answered /\ row' = row /\ ~ cache'.there
      BY <2>6 DEF Expire, NoEntry, Typed, GhostTyped
    <3>2. QED
      BY <2>6, <3>1, ExpireMoves, LastFrame
  <2>7. CASE Tick
    BY <2>7, TickMoves, LastFrame DEF settingVars
  <2>8. CASE Restart
    <3>1. ghost'.met = ghost.met /\ ghost'.answered = ghost.answered /\ row' = row /\ ~ cache'.there
      BY <2>8 DEF Restart, NoEntry, Typed, GhostTyped
    <3>2. calls' = calls /\ \A c \in Callers : call'[c] = Idle
      BY <2>8, RestartMoves
    <3>3. QED
      BY <3>1, <3>2 DEF LastInv, MetInv, AnsweredInv, QuietInv, SavedInv, Quiet, Keeps, At, Idle, Setting
  <2>9. CASE UNCHANGED vars
    BY <2>9 DEF vars, LastInv, MetInv, AnsweredInv, QuietInv, SavedInv, Quiet, Keeps, At, Setting, HasRead
  <2>10. QED
    BY <2>1, <2>2, <2>3, <2>4, <2>5, <2>6, <2>7, <2>8, <2>9 DEF Next, Numbers
<1>3. I => QuietUpdatesLast
  BY DEF LastInv, QuietInv, QuietUpdatesLast, Quiet, Keeps
<1>4. QED
  BY <1>1, <1>2, <1>3, PTL DEF Spec

===============================================================================
