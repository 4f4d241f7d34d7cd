------------------------------ MODULE LocalDriver ------------------------------
(* local.driver.ts: a directory tree; an expiry is a sidecar `.meta.json` *)
EXTENDS DiskState

Local(c, ks, pc) == At("local", c, ks, pc)

\* What opens a file to write it, renames one or writes a sidecar does not
\* make the directory.
DirThere(p) == p \in Nested => hasDir

LocalGet(p) == GetBody(p)
LocalExists(p) == Has(p)
LocalMetadata(p) == Size(p)

\* put: the directory is made; a sidecar that is already there stays.
LocalPut(c) ==
    /\ Local(c, {"put", "putTimed"}, "start")
    /\ hasDir' = (hasDir \/ op[c].p \in Nested)
    /\ Goto(c, "open")
    /\ UNCHANGED <<store, exp>>

\* putStream: the same.
LocalPutStream(c) ==
    /\ Local(c, {"putStream"}, "start")
    /\ hasDir' = (hasDir \/ op[c].p \in Nested)
    /\ Goto(c, "open")
    /\ UNCHANGED <<store, exp>>

\* prepend reads the file; any error counts as an empty one.
LocalRead(c, fails) ==
    /\ Local(c, {"prepend"}, "start")
    /\ op' = [op EXCEPT ![c].pc = "open", ![c].read = IF fails THEN <<>> ELSE Content(op[c].p)]
    /\ ghost' = IF fails /\ Has(op[c].p) THEN Unsure(ghost) ELSE ghost
    /\ UNCHANGED <<driver, store, exp, hasDir, ops>>

\* The id of the file of a path.
Inode(p) == (CHOOSE f \in store[p] : TRUE).id

\* copyFile opens the source.
LocalCopy(c) ==
    LET p == op[c].p IN
    /\ Local(c, {"copy"}, "start")
    /\ IF Has(p) THEN Keep(c, [op[c] EXCEPT !.pc = "open", !.read = Body(p), !.id = Inode(p)]) ELSE Fail(c)
    /\ UNCHANGED <<store, exp, hasDir>>

\* The file a call opens, and the one it creates if there is none; a copy of
\* a file to itself is nothing.
Opened(o) == IF Has(Target(o)) THEN Inode(Target(o)) ELSE o.n
ToItself(o) == o.kind = "copy" /\ o.id = Opened(o)

\* writeFile, createWriteStream and copyFile open the file, creating or
\* emptying it (k chunks are written by the time somebody looks); appendFile,
\* whose first step this is, only creates it.
LocalOpen(c, k) ==
    LET o == op[c]  t == Target(op[c]) IN
    /\ Local(c, {"put", "putTimed", "putStream", "prepend", "copy"}, "open") \/ Local(c, {"append"}, "start")
    /\ k = 0 \/ (k < Len(Whole(o)) /\ o.kind # "append")
    /\ CASE ~DirThere(t) -> UNCHANGED store /\ Fail(c)
         [] DirThere(t) /\ ToItself(o) -> UNCHANGED store /\ Done(c)
         [] OTHER ->
                /\ store' = [store EXCEPT ![t] =
                       {[id |-> Opened(o), body |-> IF o.kind = "append" THEN Content(t) ELSE SubSeq(Whole(o), 1, k)]}]
                /\ Keep(c, [o EXCEPT !.pc = "fill", !.id = Opened(o)])
    /\ UNCHANGED <<exp, hasDir>>

\* What is written: a copy has what the source was when it was opened, or what
\* it is.
Written(o) == {Whole(o)} \cup (IF o.kind = "copy" THEN {f.body : f \in store[o.p]} ELSE {})

\* The open file is written, whatever its name is by now; nothing happens to
\* the disk if it is gone.
LocalWrite(c) ==
    LET o == op[c] IN
    /\ Local(c, {"put", "putTimed", "putStream", "prepend", "copy", "append"}, "fill")
    /\ \E b \in Written(o) :
           store' = [x \in Paths |->
               {IF f.id # o.id THEN f ELSE [f EXCEPT !.body = IF o.kind = "append" THEN Append(@, o.n) ELSE b] : f \in store[x]}]
    /\ IF o.kind = "putTimed" THEN Goto(c, "meta") ELSE Done(c)
    /\ UNCHANGED <<exp, hasDir>>

\* copyFile removes what it could not finish.
LocalCopyFails(c) ==
    /\ Local(c, {"copy"}, "fill")
    /\ Remove({op[c].q})
    /\ op' = [op EXCEPT ![c] = Idle]
    /\ ghost' = Unsure(ghost)
    /\ UNCHANGED <<driver, exp, hasDir, ops>>

\* putTimed, once the file is written: the sidecar.
LocalPutTimed(c) ==
    /\ Local(c, {"putTimed"}, "meta")
    /\ IF DirThere(op[c].p)
       THEN exp' = [exp EXCEPT ![op[c].p] = "fresh"] /\ Done(c)
       ELSE UNCHANGED exp /\ Fail(c)
    /\ UNCHANGED <<store, hasDir>>

LocalTorn(c) == Local(c, {"putTimed"}, "meta") /\ DirThere(op[c].p) /\ Torn(c, {op[c].p})

\* chmod: the content stays.
LocalSetVisibility(c) ==
    /\ Local(c, {"setVisibility"}, "start")
    /\ IF Has(op[c].p) THEN Done(c) ELSE Fail(c)
    /\ UNCHANGED <<store, exp, hasDir>>

LocalDelete(c) ==
    /\ Local(c, {"delete"}, "start")
    /\ IF Has(op[c].p) THEN Remove({op[c].p}) /\ Done(c) ELSE UNCHANGED store /\ Fail(c)
    /\ UNCHANGED <<exp, hasDir>>

\* rename: one step, and nothing if source and destination are the same.
LocalMove(c) ==
    LET p == op[c].p  q == op[c].q IN
    /\ Local(c, {"move"}, "start")
    /\ IF Has(p) /\ DirThere(q)
       THEN store' = [store EXCEPT ![p] = {}, ![q] = store[p]] /\ Done(c)
       ELSE UNCHANGED store /\ Fail(c)
    /\ UNCHANGED <<exp, hasDir>>

LocalMakeDirectory(c) ==
    /\ Local(c, {"makeDirectory"}, "start")
    /\ hasDir' = TRUE /\ Done(c)
    /\ UNCHANGED <<store, exp>>

\* rm -r: what is in the directory is listed, again if more has come ...
LocalListDirectory(c) ==
    /\ \/ Local(c, {"deleteDirectory"}, "start")
       \/ Local(c, {"deleteDirectory"}, "delete") /\ op[c].todo = {} /\ \E p \in Nested : Has(p)
    /\ Keep(c, [op[c] EXCEPT !.pc = "delete", !.todo = {p \in Nested : Has(p)}])
    /\ UNCHANGED <<store, exp, hasDir>>

\* ... the files go one by one, with their sidecars ...
LocalUnlink(c, p) ==
    /\ Local(c, {"deleteDirectory"}, "delete") /\ p \in op[c].todo
    /\ Remove({p})
    /\ exp' = [exp EXCEPT ![p] = "none"]
    /\ Keep(c, [op[c] EXCEPT !.todo = @ \ {p}])
    /\ UNCHANGED hasDir

\* ... and then the directory, with the sidecars of files that were gone.
LocalDeleteDirectory(c) ==
    /\ Local(c, {"deleteDirectory"}, "delete") /\ op[c].todo = {} /\ \A p \in Nested : ~Has(p)
    /\ hasDir' = FALSE
    /\ exp' = [p \in Paths |-> IF p \in Nested THEN "none" ELSE exp[p]]
    /\ Done(c)
    /\ UNCHANGED store

\* The files listFiles names so that they are found again: the recursion puts
\* the directory's name in front of paths that already begin with it.
LocalListed == {p \in Paths \ Nested : Has(p)}

\* deleteExpiredFiles: the list.
LocalSweep(c) ==
    /\ Local(c, {"deleteExpired"}, "start")
    /\ Keep(c, [op[c] EXCEPT !.pc = "check", !.todo = LocalListed])
    /\ UNCHANGED <<store, exp, hasDir>>

\* The sidecar of the next file is read; without one, or if it cannot be
\* read, the file is skipped.
LocalCheck(c, p, fails) ==
    /\ Local(c, {"deleteExpired"}, "check") /\ p \in op[c].todo
    /\ op' = [op EXCEPT ![c].pc = IF exp[p] = "expired" /\ ~fails THEN "delete" ELSE "check",
                        ![c].p = p, ![c].todo = @ \ {p}]
    /\ ghost' = IF fails THEN Unsure(ghost) ELSE ghost
    /\ UNCHANGED <<driver, store, exp, hasDir, ops>>

\* It has expired: the file is deleted; if it is gone its sidecar is left.
LocalDeleteExpired(c) ==
    LET p == op[c].p IN
    /\ Local(c, {"deleteExpired"}, "delete")
    /\ Remove({p})
    /\ op' = [op EXCEPT ![c].pc = IF Has(p) THEN "unmeta" ELSE "check"]
    /\ Judge(p)
    /\ UNCHANGED <<driver, exp, hasDir, ops>>

LocalDeleteMeta(c) ==
    /\ Local(c, {"deleteExpired"}, "unmeta")
    /\ exp' = [exp EXCEPT ![op[c].p] = "none"]
    /\ Goto(c, "check")
    /\ UNCHANGED <<store, hasDir>>

\* Whatever fails is swallowed: the file or its sidecar stays, and the sweep
\* goes on.
LocalSweepFails(c) ==
    /\ Local(c, {"deleteExpired"}, "delete") \/ Local(c, {"deleteExpired"}, "unmeta")
    /\ op' = [op EXCEPT ![c].pc = "check"]
    /\ ghost' = Unsure(ghost)
    /\ UNCHANGED <<driver, store, exp, hasDir, ops>>

LocalSweepEnd(c) ==
    /\ Local(c, {"deleteExpired"}, "check") /\ op[c].todo = {}
    /\ Swept(c)
    /\ UNCHANGED <<store, exp, hasDir>>

LocalStep(c) ==
    \/ LocalPut(c) \/ LocalPutStream(c) \/ LocalWrite(c) \/ LocalCopy(c) \/ LocalCopyFails(c)
    \/ LocalPutTimed(c) \/ LocalTorn(c) \/ LocalSetVisibility(c) \/ LocalDelete(c) \/ LocalMove(c)
    \/ LocalMakeDirectory(c) \/ LocalListDirectory(c) \/ LocalDeleteDirectory(c)
    \/ LocalSweep(c) \/ LocalDeleteExpired(c) \/ LocalDeleteMeta(c) \/ LocalSweepFails(c) \/ LocalSweepEnd(c)
    \/ \E k \in 0 .. MaxOps : LocalOpen(c, k)
    \/ \E fails \in BOOLEAN : LocalRead(c, fails)
    \/ \E p \in Paths : LocalUnlink(c, p) \/ \E fails \in BOOLEAN : LocalCheck(c, p, fails)
===============================================================================
