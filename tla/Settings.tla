-------------------------------- MODULE Settings --------------------------------
(* settings.service.ts and settings.controller.ts: a row behind an entry of  *)
(* a cache in this process's memory.                                         *)
EXTENDS ServerState

BesidesSettings == UNCHANGED <<auditVars, mailVars, roleVars, tokenVars>>

\* The cache, which is asked first, has the value: get answers, and an
\* update goes on with what it got.
Hit(c) ==
    /\ call[c].pc = "start" /\ call[c].kind \in SettingKinds
    /\ cache.there
    /\ IF call[c].kind = "get" THEN Return(c) ELSE Keep(c, [call[c] EXCEPT !.pc = "find", !.base = cache.val])
    /\ UNCHANGED <<settingVars, ghost>> /\ BesidesSettings

Miss(c) ==
    /\ call[c].pc = "start" /\ call[c].kind \in SettingKinds
    /\ ~cache.there
    /\ Goto(c, "read")
    /\ UNCHANGED <<settingVars, ghost>> /\ BesidesSettings

\* The row, or the default.
ReadRow(c) ==
    /\ call[c].pc = "read" /\ call[c].kind \in SettingKinds
    /\ Keep(c, [call[c] EXCEPT !.pc = "fill", !.base = row.val])
    /\ UNCHANGED <<settingVars, ghost>> /\ BesidesSettings

\* What was read is cached.
Fill(c) ==
    /\ call[c].pc = "fill" /\ call[c].kind \in SettingKinds
    /\ cache' = Entry(call[c].base)
    /\ ghost' = [ghost EXCEPT !.raced = call[c].base # row.val]
    /\ IF call[c].kind = "get" THEN Return(c) ELSE Goto(c, "find")
    /\ UNCHANGED row /\ BesidesSettings

\* set: is there a row?
FindRow(c) ==
    /\ At(c, "update", "find")
    /\ Keep(c, [call[c] EXCEPT !.pc = "save", !.found = row.there])
    /\ UNCHANGED <<settingVars, ghost>> /\ BesidesSettings

\* The value that is saved: what get answered, with the fields of the form.
Merged(o) == [f \in Fields |-> IF f \in o.arg THEN o.n ELSE o.base[f]]

\* save: an INSERT fails if by now there is a row (unique key).
SaveRow(c) ==
    /\ At(c, "update", "save")
    /\ IF call[c].found \/ ~row.there
       THEN row' = Entry(Merged(call[c])) /\ Goto(c, "del")
       ELSE UNCHANGED row /\ Return(c)
    /\ UNCHANGED <<cache, ghost>> /\ BesidesSettings

\* Mutant: the entry stays.
DelEntry_Not(c) ==
    /\ At(c, "update", "del")
    /\ ghost' = [ghost EXCEPT !.answered = @ \cup {[n |-> call[c].n, arg |-> call[c].arg]}]
    /\ Return(c)
    /\ UNCHANGED settingVars /\ BesidesSettings

\* The entry goes, and the update is answered.
DelEntry(c) ==
    /\ At(c, "update", "del")
    /\ cache' = NoEntry
    /\ ghost' = [ghost EXCEPT !.raced = FALSE, !.answered = @ \cup {[n |-> call[c].n, arg |-> call[c].arg]}]
    /\ Return(c)
    /\ UNCHANGED row /\ BesidesSettings

\* The entry's 3.6 seconds are over.
Expire ==
    /\ cache.there
    /\ cache' = NoEntry
    /\ ghost' = [ghost EXCEPT !.raced = FALSE]
    /\ UNCHANGED <<callVars, row>> /\ BesidesSettings

\* PostgreSQL refuses a query.
SettingFails(c) ==
    /\ call[c].pc \in {"read", "find", "save"} /\ call[c].kind \in SettingKinds
    /\ Return(c)
    /\ UNCHANGED <<settingVars, ghost>> /\ BesidesSettings

SettingStep(c) ==
    \/ Hit(c) \/ Miss(c) \/ ReadRow(c) \/ Fill(c) \/ FindRow(c) \/ SaveRow(c) \/ DelEntry(c) \/ SettingFails(c)

-------------------------------------------------------------------------------
\* The cached value is the row's, unless a set has saved and not yet deleted
\* the entry, or a get had read the row before a set saved it and cached it
\* after (until the entry expires).
StaleEntriesComeFromRaces ==
    cache.there /\ cache.val # row.val => ghost.raced \/ \E c \in Callers : At(c, "update", "del")

\* A field of an update that no other call on settings overlapped is lost
\* only to a later update of that field.  So overlapping updates and entries
\* left by a race lose only what was written while they ran.
QuietUpdatesLast ==
    \A u \in ghost.answered : ghost.met[u.n] = {} => \A f \in u.arg : row.val[f] >= u.n
===============================================================================
