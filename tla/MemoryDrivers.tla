----------------------------- MODULE MemoryDrivers -----------------------------
(* buffer.driver.ts: a Map, every method one step but move; and the         *)
(* readonly.driver.ts wrapper, whose writing methods all throw.             *)
EXTENDS DiskState

Buffer(c, ks, pc) == At("buffer", c, ks, pc)

BufferGet(p) == GetBody(p)
BufferExists(p) == Has(p)
BufferMetadata(p) == Size(p)
BufferListed == {p \in Paths : Has(p)}

BufferPut(c) ==
    /\ Buffer(c, {"put"}, "start")
    /\ Store(op[c].p, <<op[c].n>>) /\ Done(c)
    /\ UNCHANGED <<exp, hasDir>>

\* The service puts in place of the putTimed and the putStream the driver does
\* not have: the file never expires.
ServicePutTimed(c) ==
    /\ Buffer(c, {"putTimed"}, "start")
    /\ Store(op[c].p, <<op[c].n>>) /\ Done(c)
    /\ UNCHANGED <<exp, hasDir>>

ServicePutStream(c) ==
    /\ Buffer(c, {"putStream"}, "start")
    /\ Store(op[c].p, <<op[c].n>>) /\ Done(c)
    /\ UNCHANGED <<exp, hasDir>>

BufferDelete(c) ==
    /\ Buffer(c, {"delete"}, "start")
    /\ Remove({op[c].p}) /\ Done(c)
    /\ UNCHANGED <<exp, hasDir>>

\* copy, and the first half of move.
BufferCopy(c) ==
    /\ Buffer(c, {"copy", "move"}, "start")
    /\ IF Has(op[c].p)
       THEN /\ Store(op[c].q, Body(op[c].p))
            /\ IF op[c].kind = "copy" THEN Done(c) ELSE Goto(c, "copied")
       ELSE UNCHANGED store /\ Fail(c)
    /\ UNCHANGED <<exp, hasDir>>

\* move deletes the source once it is copied, also when it is the destination.
BufferMove(c) ==
    /\ Buffer(c, {"move"}, "copied")
    /\ Remove({op[c].p}) /\ Done(c)
    /\ UNCHANGED <<exp, hasDir>>

BufferPrepend(c) ==
    /\ Buffer(c, {"prepend"}, "start")
    /\ Store(op[c].p, <<op[c].n>> \o Content(op[c].p)) /\ Done(c)
    /\ UNCHANGED <<exp, hasDir>>

BufferAppend(c) ==
    /\ Buffer(c, {"append"}, "start")
    /\ Store(op[c].p, Append(Content(op[c].p), op[c].n)) /\ Done(c)
    /\ UNCHANGED <<exp, hasDir>>

BufferSetVisibility(c) ==
    /\ Buffer(c, {"setVisibility"}, "start")
    /\ IF Has(op[c].p) THEN Done(c) ELSE Fail(c)
    /\ UNCHANGED <<store, exp, hasDir>>

\* Directories are not kept.
BufferMakeDirectory(c) ==
    /\ Buffer(c, {"makeDirectory"}, "start")
    /\ Done(c)
    /\ UNCHANGED <<store, exp, hasDir>>

\* The service answers 0 for a driver without deleteExpiredFiles.
ServiceDeleteExpired(c) ==
    /\ Buffer(c, {"deleteExpired"}, "start")
    /\ Swept(c)
    /\ UNCHANGED <<store, exp, hasDir>>

\* Every key that starts with the name goes.
BufferDeleteDirectory(c) ==
    /\ Buffer(c, {"deleteDirectory"}, "start")
    /\ Remove(Prefixed) /\ Done(c)
    /\ UNCHANGED <<exp, hasDir>>

BufferStep(c) ==
    \/ BufferPut(c) \/ ServicePutTimed(c) \/ ServicePutStream(c) \/ ServiceDeleteExpired(c)
    \/ BufferDelete(c) \/ BufferCopy(c) \/ BufferMove(c)
    \/ BufferPrepend(c) \/ BufferAppend(c) \/ BufferSetVisibility(c)
    \/ BufferMakeDirectory(c) \/ BufferDeleteDirectory(c)

\* A read-only disk: every writing method throws before it calls the driver
\* it wraps; deleteExpiredFiles and putTimed it does not have.
ReadOnlyRefuses(c) ==
    /\ At("readonly", c, Kinds, "start")
    /\ Fail(c)
    /\ UNCHANGED <<store, exp, hasDir>>
===============================================================================
