------------------------------ MODULE DriveDriver ------------------------------
(* google-drive.driver.ts: files with an id in one folder, found by their   *)
(* basename, of which there may be several; the index of expiries is a file *)
(* on this machine.                                                         *)
EXTENDS DiskState

Drive(c, ks, pc) == At("gdrive", c, ks, pc)

NoId == 0
Name(c) == Base[op[c].p]
FilesOf(name, id) == {f \in store[name] : f.id = id}

\* findFileId: any of the files of that name, or none.
FindFileId(name) == IF store[name] = {} THEN {NoId} ELSE {f.id : f \in store[name]}

DriveRead(p) == GetBody(Base[p])
DriveExists(p) == store[Base[p]] # {}
DriveMetadata(p) == Size(Base[p])
DriveListed == {p \in Paths : Has(p)}

\* The lookup every method starts with (append and prepend: read, below).
DriveFind(c, id) ==
    /\ driver = "gdrive"
    /\ \/ op[c].pc = "start" /\ op[c].kind \in {"put", "putStream", "putTimed", "delete", "copy", "move"}
       \/ op[c].pc = "find"
    /\ id \in FindFileId(Name(c))
    /\ Keep(c, [op[c] EXCEPT !.pc = "found", !.id = id])
    /\ UNCHANGED <<store, exp, hasDir>>

\* What put writes: the chunk, or what append and prepend make of what they
\* read, decoded if they were given a string.
DriveBody(o) ==
    CASE o.kind = "append" -> Append(Existing(o), o.n)
      [] o.kind = "prepend" -> <<o.n>> \o Existing(o)
      [] OTHER -> <<o.n>>

\* put: the file that was found is updated, and if it is gone the request
\* fails; if none was found a new one is created, whatever is there by now.
DrivePut(c) ==
    LET o == op[c]  name == Name(c) IN
    /\ Drive(c, {"put", "putTimed", "append", "prepend"}, "found")
    /\ IF o.id # NoId /\ FilesOf(name, o.id) = {}
       THEN UNCHANGED store /\ Fail(c)
       ELSE /\ store' = [store EXCEPT ![name] =
                   (@ \ FilesOf(name, o.id)) \cup
                   {[id |-> IF o.id = NoId THEN o.n ELSE o.id, body |-> DriveBody(o)]}]
            /\ IF o.kind = "putTimed" THEN Goto(c, "index") ELSE Done(c)
    /\ UNCHANGED <<exp, hasDir>>

\* putStream: the same with a stream for content.
DrivePutStream(c) ==
    LET o == op[c]  name == Name(c) IN
    /\ Drive(c, {"putStream"}, "found")
    /\ IF o.id # NoId /\ FilesOf(name, o.id) = {}
       THEN UNCHANGED store /\ Fail(c)
       ELSE /\ store' = [store EXCEPT ![name] =
                   (@ \ FilesOf(name, o.id)) \cup {[id |-> IF o.id = NoId THEN o.n ELSE o.id, body |-> <<o.n>>]}]
            /\ Done(c)
    /\ UNCHANGED <<exp, hasDir>>

\* get, as prepend and append use it: any failure counts as an empty file.
DriveGet(c, fails) ==
    /\ Drive(c, {"prepend", "append"}, "start")
    /\ \E f \in store[Name(c)] :
           op' = [op EXCEPT ![c].pc = "find", ![c].read = IF fails THEN <<>> ELSE f.body]
    /\ ghost' = IF fails THEN Unsure(ghost) ELSE ghost
    /\ UNCHANGED <<driver, store, exp, hasDir, ops>>

DriveGetNothing(c) ==
    /\ Drive(c, {"prepend", "append"}, "start")
    /\ store[Name(c)] = {}
    /\ Goto(c, "find")
    /\ UNCHANGED <<store, exp, hasDir>>

\* Deleting a file that is not there is not an error.
DriveDelete(c) ==
    /\ Drive(c, {"delete"}, "found")
    /\ store' = [store EXCEPT ![Name(c)] = @ \ FilesOf(Name(c), op[c].id)]
    /\ Done(c)
    /\ UNCHANGED <<exp, hasDir>>

\* copy makes a new file, also beside one of the same name.
DriveCopy(c) ==
    LET old == FilesOf(Name(c), op[c].id) IN
    /\ Drive(c, {"copy"}, "found")
    /\ IF old = {} THEN UNCHANGED store /\ Fail(c)
       ELSE /\ store' = [store EXCEPT ![Base[op[c].q]] = @ \cup {[f EXCEPT !.id = op[c].n] : f \in old}]
            /\ Done(c)
    /\ UNCHANGED <<exp, hasDir>>

\* move renames, also to a name that is taken.
DriveMove(c) ==
    LET old == FilesOf(Name(c), op[c].id)  q == Base[op[c].q] IN
    /\ Drive(c, {"move"}, "found")
    /\ IF old = {} THEN UNCHANGED store /\ Fail(c)
       ELSE /\ store' = [p \in Paths |->
                   (store[p] \ (IF p = Name(c) THEN old ELSE {})) \cup (IF p = q THEN old ELSE {})]
            /\ Done(c)
    /\ UNCHANGED <<exp, hasDir>>

\* A folder is created, beside others of its name; files are never in it.
DriveMakeDirectory(c) ==
    /\ Drive(c, {"makeDirectory"}, "start")
    /\ Done(c)
    /\ UNCHANGED <<store, exp, hasDir>>

\* The folders of that name are deleted; the files are in the one folder of
\* the configuration and stay.
DriveDeleteDirectory(c) ==
    /\ Drive(c, {"deleteDirectory"}, "start")
    /\ Done(c)
    /\ UNCHANGED <<store, exp, hasDir>>

DriveNoVisibility(c) ==
    /\ Drive(c, {"setVisibility"}, "start")
    /\ Fail(c)
    /\ UNCHANGED <<store, exp, hasDir>>

\* An index that cannot be read, or parsed, counts as empty, here as in a sweep.
DriveReadIndex(c, fails) ==
    /\ Drive(c, {"putTimed"}, "index")
    /\ op' = [op EXCEPT ![c].pc = "write", ![c].snap = IF fails THEN NoExpiry ELSE exp]
    /\ ghost' = IF fails THEN Unsure(ghost) ELSE ghost
    /\ UNCHANGED <<driver, store, exp, hasDir, ops>>

DrivePutTimed(c) ==
    /\ Drive(c, {"putTimed"}, "write")
    /\ exp' = [Aged(op[c].snap) EXCEPT ![op[c].p] = "fresh"]
    /\ Done(c)
    /\ UNCHANGED <<store, hasDir>>

\* The write of the index stops half-way, here or at the end of a sweep.
DriveTorn(c) ==
    /\ Drive(c, {"putTimed"}, "write") \/ (Drive(c, {"deleteExpired"}, "look") /\ op[c].todo = {})
    /\ Torn(c, Paths)

\* deleteExpiredFiles reads the index once.
DriveSweep(c, fails) ==
    /\ Drive(c, {"deleteExpired"}, "start")
    /\ op' = [op EXCEPT ![c].pc = "look", ![c].snap = IF fails THEN NoExpiry ELSE exp,
                        ![c].todo = IF fails THEN {} ELSE {p \in Paths : exp[p] = "expired"}]
    /\ ghost' = IF fails THEN Unsure(ghost) ELSE ghost
    /\ UNCHANGED <<driver, store, exp, hasDir, ops>>

\* delete of an expired path: the lookup ...
DriveSweepFind(c, p, id) ==
    /\ Drive(c, {"deleteExpired"}, "look") /\ p \in op[c].todo
    /\ id \in FindFileId(Base[p])
    /\ Keep(c, [op[c] EXCEPT !.pc = "delete", !.p = p, !.id = id, !.todo = @ \ {p}])
    /\ UNCHANGED <<store, exp, hasDir>>

\* ... and the deletion; the entry is dropped, there having been a file or not.
DriveDeleteExpired(c) ==
    LET p == op[c].p IN
    /\ Drive(c, {"deleteExpired"}, "delete")
    /\ store' = [store EXCEPT ![Base[p]] = @ \ FilesOf(Base[p], op[c].id)]
    /\ op' = [op EXCEPT ![c].pc = "look", ![c].snap[p] = "none"]
    /\ Judge(p)
    /\ UNCHANGED <<driver, exp, hasDir, ops>>

\* The lookup or the deletion fails: the error is swallowed, the file and its
\* entry stay, the sweep goes on.
DriveSweepFails(c, p) ==
    /\ \/ Drive(c, {"deleteExpired"}, "look") /\ p \in op[c].todo
       \/ Drive(c, {"deleteExpired"}, "delete") /\ p = op[c].p
    /\ op' = [op EXCEPT ![c].pc = "look", ![c].todo = @ \ {p}]
    /\ ghost' = Unsure(ghost)
    /\ UNCHANGED <<driver, store, exp, hasDir, ops>>

DriveSweepEnd(c) ==
    /\ Drive(c, {"deleteExpired"}, "look") /\ op[c].todo = {}
    /\ exp' = Aged(op[c].snap)
    /\ Swept(c)
    /\ UNCHANGED <<store, hasDir>>

DriveStep(c) ==
    \/ \E id \in 0 .. MaxOps : DriveFind(c, id) \/ (\E p \in Paths : DriveSweepFind(c, p, id))
    \/ \E fails \in BOOLEAN : DriveGet(c, fails) \/ DriveReadIndex(c, fails) \/ DriveSweep(c, fails)
    \/ \E p \in Paths : DriveSweepFails(c, p)
    \/ DrivePut(c) \/ DrivePutStream(c) \/ DriveGetNothing(c) \/ DriveDelete(c) \/ DriveCopy(c) \/ DriveMove(c)
    \/ DriveMakeDirectory(c) \/ DriveDeleteDirectory(c) \/ DriveNoVisibility(c)
    \/ DrivePutTimed(c) \/ DriveTorn(c) \/ DriveDeleteExpired(c) \/ DriveSweepEnd(c)
===============================================================================
