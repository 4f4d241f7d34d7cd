----------------------------- MODULE DropboxDriver -----------------------------
(* dropbox.driver.ts: a remote tree; the expiries of all files are in one   *)
(* index file on this machine, read as a whole and written as a whole.      *)
EXTENDS DiskState

Dropbox(c, ks, pc) == At("dropbox", c, ks, pc)

DropboxRead(p) == GetBody(p)
DropboxExists(p) == Has(p)
DropboxMetadata(p) == Size(p)
DropboxListed == {p \in Paths : Has(p)}

DropboxPut(c) ==
    /\ Dropbox(c, {"put", "putTimed"}, "start")
    /\ Store(op[c].p, <<op[c].n>>)
    /\ IF op[c].kind = "put" THEN Done(c) ELSE Goto(c, "index")
    /\ UNCHANGED <<exp, hasDir>>

\* putStream collects the stream and puts it.
DropboxPutStream(c) ==
    /\ Dropbox(c, {"putStream"}, "start")
    /\ Store(op[c].p, <<op[c].n>>) /\ Done(c)
    /\ UNCHANGED <<exp, hasDir>>

\* putTimed, once the file is there: the index is read.  One that cannot be
\* read, or parsed, counts as empty, here as in a sweep.
DropboxReadIndex(c, fails) ==
    /\ Dropbox(c, {"putTimed"}, "index")
    /\ op' = [op EXCEPT ![c].pc = "write", ![c].snap = IF fails THEN NoExpiry ELSE exp]
    /\ ghost' = IF fails THEN Unsure(ghost) ELSE ghost
    /\ UNCHANGED <<driver, store, exp, hasDir, ops>>

\* ... and written back with the new entry.
DropboxPutTimed(c) ==
    /\ Dropbox(c, {"putTimed"}, "write")
    /\ exp' = [Aged(op[c].snap) EXCEPT ![op[c].p] = "fresh"]
    /\ Done(c)
    /\ UNCHANGED <<store, hasDir>>

\* The write of the index stops half-way, here or at the end of a sweep.
DropboxTorn(c) ==
    /\ Dropbox(c, {"putTimed"}, "write") \/ (Dropbox(c, {"deleteExpired"}, "delete") /\ op[c].todo = {})
    /\ Torn(c, Paths)

\* A missing file is an error.
DropboxDelete(c) ==
    /\ Dropbox(c, {"delete"}, "start")
    /\ IF Has(op[c].p) THEN Remove({op[c].p}) /\ Done(c) ELSE UNCHANGED store /\ Fail(c)
    /\ UNCHANGED <<exp, hasDir>>

\* autorename is off: an existing destination is an error.
DropboxCopy(c) ==
    /\ Dropbox(c, {"copy"}, "start")
    /\ IF Has(op[c].p) /\ ~Has(op[c].q)
       THEN Store(op[c].q, Body(op[c].p)) /\ Done(c)
       ELSE UNCHANGED store /\ Fail(c)
    /\ UNCHANGED <<exp, hasDir>>

DropboxMove(c) ==
    LET p == op[c].p  q == op[c].q IN
    /\ Dropbox(c, {"move"}, "start")
    /\ IF Has(p) /\ ~Has(q)
       THEN store' = [store EXCEPT ![p] = {}, ![q] = store[p]] /\ Done(c)
       ELSE UNCHANGED store /\ Fail(c)
    /\ UNCHANGED <<exp, hasDir>>

\* A folder that is there already is an error, and changes no file.
DropboxMakeDirectory(c) ==
    /\ Dropbox(c, {"makeDirectory"}, "start")
    /\ Done(c)
    /\ UNCHANGED <<store, exp, hasDir>>

\* The folder goes with what is in it; the entries of the index stay.
DropboxDeleteDirectory(c) ==
    /\ Dropbox(c, {"deleteDirectory"}, "start")
    /\ Remove(Nested) /\ Done(c)
    /\ UNCHANGED <<exp, hasDir>>

\* get, as prepend and append use it: any failure counts as an empty file.
DropboxGet(c, fails) ==
    /\ Dropbox(c, {"prepend", "append"}, "start")
    /\ op' = [op EXCEPT ![c].pc = "put", ![c].read = IF fails THEN <<>> ELSE Content(op[c].p)]
    /\ ghost' = IF fails /\ Has(op[c].p) THEN Unsure(ghost) ELSE ghost
    /\ UNCHANGED <<driver, store, exp, hasDir, ops>>

DropboxPrepend(c) ==
    /\ Dropbox(c, {"prepend"}, "put")
    /\ Store(op[c].p, <<op[c].n>> \o Existing(op[c])) /\ Done(c)
    /\ UNCHANGED <<exp, hasDir>>

DropboxAppend(c) ==
    /\ Dropbox(c, {"append"}, "put")
    /\ Store(op[c].p, Append(Existing(op[c]), op[c].n)) /\ Done(c)
    /\ UNCHANGED <<exp, hasDir>>

\* setVisibility is not there to be called.
DropboxNoVisibility(c) ==
    /\ Dropbox(c, {"setVisibility"}, "start")
    /\ Fail(c)
    /\ UNCHANGED <<store, exp, hasDir>>

\* deleteExpiredFiles reads the index once.
DropboxSweep(c, fails) ==
    /\ Dropbox(c, {"deleteExpired"}, "start")
    /\ op' = [op EXCEPT ![c].pc = "delete", ![c].snap = IF fails THEN NoExpiry ELSE exp,
                        ![c].todo = IF fails THEN {} ELSE {p \in Paths : exp[p] = "expired"}]
    /\ ghost' = IF fails THEN Unsure(ghost) ELSE ghost
    /\ UNCHANGED <<driver, store, exp, hasDir, ops>>

\* Mutant: the entry is dropped, the file forgotten.
DropboxDeleteExpired_EntryOnly(c, p) ==
    /\ Dropbox(c, {"deleteExpired"}, "delete") /\ p \in op[c].todo
    /\ op' = [op EXCEPT ![c].todo = @ \ {p}, ![c].snap[p] = "none"]
    /\ UNCHANGED <<driver, store, exp, hasDir, ops, ghost>>

\* An expired file is deleted and its entry dropped; if the file is gone the
\* error is swallowed and the entry stays.
DropboxDeleteExpired(c, p) ==
    /\ Dropbox(c, {"deleteExpired"}, "delete") /\ p \in op[c].todo
    /\ Remove({p})
    /\ op' = [op EXCEPT ![c].todo = @ \ {p}, ![c].snap[p] = IF Has(p) THEN "none" ELSE @]
    /\ Judge(p)
    /\ UNCHANGED <<driver, exp, hasDir, ops>>

\* So is any other error: the file and its entry stay, the sweep goes on.
DropboxDeleteFails(c, p) ==
    /\ Dropbox(c, {"deleteExpired"}, "delete") /\ p \in op[c].todo
    /\ op' = [op EXCEPT ![c].todo = @ \ {p}]
    /\ ghost' = Unsure(ghost)
    /\ UNCHANGED <<driver, store, exp, hasDir, ops>>

\* What is left of the index as it was read is written back.
DropboxSweepEnd(c) ==
    /\ Dropbox(c, {"deleteExpired"}, "delete") /\ op[c].todo = {}
    /\ exp' = Aged(op[c].snap)
    /\ Swept(c)
    /\ UNCHANGED <<store, hasDir>>

DropboxStep(c) ==
    \/ DropboxPut(c) \/ DropboxPutStream(c) \/ DropboxPutTimed(c) \/ DropboxTorn(c) \/ DropboxDelete(c)
    \/ DropboxCopy(c) \/ DropboxMove(c) \/ DropboxMakeDirectory(c) \/ DropboxDeleteDirectory(c)
    \/ DropboxPrepend(c) \/ DropboxAppend(c) \/ DropboxNoVisibility(c)
    \/ DropboxSweepEnd(c)
    \/ \E fails \in BOOLEAN : DropboxGet(c, fails) \/ DropboxReadIndex(c, fails) \/ DropboxSweep(c, fails)
    \/ \E p \in Paths : DropboxDeleteExpired(c, p) \/ DropboxDeleteFails(c, p)
===============================================================================
