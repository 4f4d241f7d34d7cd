------------------------------- MODULE S3Driver -------------------------------
(* s3.driver.ts: a flat bucket; an expiry is a tag of the object, which any *)
(* PutObject takes off and a copy takes along.                              *)
EXTENDS DiskState

S3(c, ks, pc) == At("s3", c, ks, pc)

\* Mutant: tags survive a PutObject.
PutObject_KeepsTags(p, b) == Store(p, b) /\ UNCHANGED exp

\* PutObject: a new object, without tags.
PutObject(p, b) == Store(p, b) /\ exp' = [exp EXCEPT ![p] = "none"]

DeleteObject(p) == Remove({p}) /\ exp' = [exp EXCEPT ![p] = "none"]

\* HeadObject answers exists and getMetadata.
S3Exists(p) == Has(p)
S3Metadata(p) == Size(p)
S3Read(p) == GetBody(p)

S3Put(c) ==
    /\ S3(c, {"put", "putTimed"}, "start")
    /\ PutObject(op[c].p, <<op[c].n>>)
    /\ IF op[c].kind = "put" THEN Done(c) ELSE Goto(c, "tag")
    /\ UNCHANGED hasDir

S3PutStream(c) ==
    /\ S3(c, {"putStream"}, "start")
    /\ PutObject(op[c].p, <<op[c].n>>)
    /\ Done(c)
    /\ UNCHANGED hasDir

\* putTimed, once the object is there: the tag.
S3PutTimed(c) ==
    /\ S3(c, {"putTimed"}, "tag")
    /\ IF Has(op[c].p)
       THEN exp' = [exp EXCEPT ![op[c].p] = "fresh"] /\ Done(c)
       ELSE UNCHANGED exp /\ Fail(c)
    /\ UNCHANGED <<store, hasDir>>

\* A PutObject with the ACL and an empty body.
S3SetVisibility(c) ==
    /\ S3(c, {"setVisibility"}, "start")
    /\ PutObject(op[c].p, <<>>)
    /\ Done(c)
    /\ UNCHANGED hasDir

S3Delete(c) ==
    /\ S3(c, {"delete"}, "start")
    /\ DeleteObject(op[c].p)
    /\ Done(c)
    /\ UNCHANGED hasDir

\* copy, and the first half of move; S3 refuses to copy an object to itself.
S3Copy(c) ==
    LET p == op[c].p  q == op[c].q IN
    /\ S3(c, {"copy", "move"}, "start")
    /\ IF Has(p) /\ p # q
       THEN /\ Store(q, Body(p)) /\ exp' = [exp EXCEPT ![q] = exp[p]]
            /\ IF op[c].kind = "copy" THEN Done(c) ELSE Goto(c, "copied")
       ELSE UNCHANGED <<store, exp>> /\ Fail(c)
    /\ UNCHANGED hasDir

\* Mutant: the source of a move stays.
S3Move_Keeps(c) ==
    /\ S3(c, {"move"}, "copied")
    /\ Done(c)
    /\ UNCHANGED <<store, exp, hasDir>>

S3Move(c) ==
    /\ S3(c, {"move"}, "copied")
    /\ DeleteObject(op[c].p)
    /\ Done(c)
    /\ UNCHANGED hasDir

\* makeDirectory does nothing.
S3MakeDirectory(c) ==
    /\ S3(c, {"makeDirectory"}, "start")
    /\ Done(c)
    /\ UNCHANGED <<store, exp, hasDir>>

\* get, as prepend and append use it: whatever goes wrong, also when the
\* object is there, counts as an empty one.
S3Get(c, fails) ==
    /\ S3(c, {"prepend", "append"}, "start")
    /\ op' = [op EXCEPT ![c].pc = "put", ![c].read = IF fails THEN <<>> ELSE Content(op[c].p)]
    /\ ghost' = IF fails /\ Has(op[c].p) THEN Unsure(ghost) ELSE ghost
    /\ UNCHANGED <<driver, store, exp, hasDir, ops>>

S3Prepend(c) ==
    /\ S3(c, {"prepend"}, "put")
    /\ PutObject(op[c].p, <<op[c].n>> \o op[c].read)
    /\ Done(c)
    /\ UNCHANGED hasDir

\* Mutant: the new content comes first.
S3Append_Swaps(c) ==
    /\ S3(c, {"append"}, "put")
    /\ PutObject(op[c].p, <<op[c].n>> \o op[c].read)
    /\ Done(c)
    /\ UNCHANGED hasDir

S3Append(c) ==
    /\ S3(c, {"append"}, "put")
    /\ PutObject(op[c].p, Append(op[c].read, op[c].n))
    /\ Done(c)
    /\ UNCHANGED hasDir

S3Listed(ps) == {p \in ps : Has(p)}

\* listFiles with a prefix: the first page, and nothing of a second.
S3Pages(ps) ==
    {page \in SUBSET S3Listed(ps) :
        Cardinality(page) = PageSize \/ (page = S3Listed(ps) /\ Cardinality(page) < PageSize)}

\* deleteDirectory: what starts with the name is listed ...
S3ListDirectory(c, page) ==
    /\ S3(c, {"deleteDirectory"}, "start") /\ page \in S3Pages(Prefixed)
    /\ op' = [op EXCEPT ![c].pc = "delete", ![c].todo = page]
    /\ ghost' = IF page = S3Listed(Prefixed) THEN ghost ELSE Unsure(ghost)
    /\ UNCHANGED <<driver, store, exp, hasDir, ops>>

\* ... and deleted one by one.
S3DeleteDirectory(c, p) ==
    /\ S3(c, {"deleteDirectory"}, "delete") /\ p \in op[c].todo
    /\ DeleteObject(p)
    /\ Keep(c, [op[c] EXCEPT !.todo = @ \ {p}])
    /\ UNCHANGED hasDir

\* deleteExpiredFiles goes through all pages of the bucket, listed here at one
\* moment.
S3Sweep(c) ==
    /\ S3(c, {"deleteExpired"}, "start")
    /\ Keep(c, [op[c] EXCEPT !.pc = "tags", !.todo = S3Listed(Paths)])
    /\ UNCHANGED <<store, exp, hasDir>>

\* The tags of the next object.
S3Tags(c, p) ==
    /\ S3(c, {"deleteExpired"}, "tags") /\ p \in op[c].todo
    /\ Keep(c, [op[c] EXCEPT !.pc = IF exp[p] = "expired" THEN "expired" ELSE "tags",
                             !.p = p, !.todo = @ \ {p}])
    /\ UNCHANGED <<store, exp, hasDir>>

S3DeleteExpired(c) ==
    /\ S3(c, {"deleteExpired"}, "expired")
    /\ DeleteObject(op[c].p)
    /\ op' = [op EXCEPT ![c].pc = "tags"]
    /\ Judge(op[c].p)
    /\ UNCHANGED <<driver, hasDir, ops>>

\* Nothing left to look at.
S3End(c) ==
    /\ driver = "s3" /\ op[c].pc \in {"delete", "tags"} /\ op[c].todo = {}
    /\ Swept(c)
    /\ UNCHANGED <<store, exp, hasDir>>

S3Step(c) ==
    \/ S3Put(c) \/ S3PutStream(c) \/ S3PutTimed(c) \/ S3SetVisibility(c) \/ S3Delete(c) \/ S3Copy(c) \/ S3Move(c)
    \/ S3MakeDirectory(c) \/ S3Prepend(c) \/ S3Append(c)
    \/ S3Sweep(c) \/ S3DeleteExpired(c) \/ S3End(c)
    \/ \E fails \in BOOLEAN : S3Get(c, fails)
    \/ \E page \in SUBSET Prefixed : S3ListDirectory(c, page)
    \/ \E p \in Paths : S3DeleteDirectory(c, p) \/ S3Tags(c, p)
===============================================================================
