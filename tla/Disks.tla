--------------------------------- MODULE Disks ---------------------------------
(***************************************************************************)
(* A disk of FileStorageService with any of its drivers, called by several *)
(* clients at once, and what can be said of the contents and the expiries. *)
(***************************************************************************)
EXTENDS LocalDriver, MemoryDrivers, S3Driver, DropboxDriver, DriveDriver

Next ==
    \/ \E c \in Clients, k \in Kinds : \E a \in Args(k) : Call(c, k, a)
    \/ \E c \in Clients :
        \/ LocalStep(c) \/ BufferStep(c) \/ S3Step(c) \/ DropboxStep(c) \/ DriveStep(c)
        \/ ReadOnlyRefuses(c) \/ Fault(c)
    \/ \E p \in Paths : Expire(p)

Spec == DiskInit /\ [][Next]_diskVars

-------------------------------------------------------------------------------

\* What get, exists, getMetadata and listFiles answer.
Answers(p) ==
    CASE driver = "local" -> <<LocalGet(p), LocalExists(p), LocalMetadata(p), p \in LocalListed>>
      [] driver = "buffer" -> <<BufferGet(p), BufferExists(p), BufferMetadata(p), p \in BufferListed>>
      [] driver = "s3" -> <<S3Read(p), S3Exists(p), S3Metadata(p), \A page \in S3Pages(Paths) : p \in page>>
      [] driver = "dropbox" -> <<DropboxRead(p), DropboxExists(p), DropboxMetadata(p), p \in DropboxListed>>
      [] driver = "gdrive" -> <<DriveRead(p), DriveExists(p), DriveMetadata(p), p \in DriveListed>>
      [] OTHER -> <<GetBody(p), Has(p), Size(p), Has(p)>>

\* What they answer on a dictionary.
Meant(x) == <<x, x # Missing, IF x = Missing THEN NoSize ELSE Len(x), x # Missing>>

\* Paths a driver does not tell from others, or does not list under their
\* name, or at all, its listing being one page of several.
Confused(p) ==
    \/ driver = "gdrive" /\ Base[p] # p
    \/ driver = "local" /\ p \in Nested
    \/ driver = "s3" /\ S3Pages(Paths) # {S3Listed(Paths)}

\* While nobody calls two methods at once and no request fails, the drivers
\* are interchangeable: between two calls every reading method answers what
\* it would on a dictionary after the calls that succeeded, apart from the
\* calls listed in Diverges, those that S3 answered with less than it has, and
\* the paths in Confused (of which the content is still what it should be).
SameMeaning ==
    ghost.serial /\ (\A c \in Clients : op[c] = Idle) =>
        /\ Contents = ghost.shadow
        /\ \A p \in Paths : Confused(p) \/ Answers(p) = Meant(ghost.shadow[p])

D == INSTANCE Disk WITH Chunks <- 1 .. MaxOps, dict <- Contents

\* s3.setVisibility.
Emptied == driver = "s3" /\ \E c \in Clients : op[c] # Idle /\ op[c].kind = "setVisibility" /\ op'[c] = Idle

\* What a call may do to the contents, in as many steps as it takes; a copy
\* that fails on a local disk removes its destination.
Asked(o) ==
    CASE o.kind \in {"put", "putStream", "putTimed"} -> D!Put(o.p, o.n)
      [] o.kind = "append" -> D!AppendTo(o.p, o.n)
      [] o.kind = "prepend" -> D!PrependTo(o.p, o.n)
      [] o.kind = "copy" -> D!Copy(o.p, o.q) \/ (driver = "local" /\ D!Remove({o.q}))
      [] o.kind = "move" -> D!Move(o.p, o.q) \/ D!Copy(o.p, o.q) \/ D!Remove({o.p})
      [] o.kind = "delete" -> D!Remove({o.p})
      [] o.kind = "deleteDirectory" -> \E ps \in SUBSET Prefixed : D!Remove(ps)
      [] o.kind = "deleteExpired" -> \E p \in Paths : D!Remove({p})
      [] OTHER -> UNCHANGED Contents

\* A local file is opened to be written: it has a part of what will be
\* written, or is created by an append.
Begins(o) ==
    /\ driver = "local" /\ o.pc \in {"start", "open"}
    /\ \E b \in {SubSeq(Whole(o), 1, k) : k \in 0 .. Len(Whole(o))} \cup {Content(Target(o))} :
           Contents' = [Contents EXCEPT ![Target(o)] = b]

\* The content a call puts at x is not what its caller asked for: that of a
\* prepend, an append or a copy on a local disk whose source is not what it
\* read any more, could not be read, or was decoded or emptied; and, on a local
\* disk, that of a file that was renamed while it was written.
Raced(o, x) ==
    IF x = Target(o)
    THEN (o.kind \in {"prepend", "append"} \/ (driver = "local" /\ o.kind = "copy")) /\ Existing(o) # Contents[o.p]
    ELSE driver = "local" /\ o.pc = "fill"
Rewrites(o, x) ==
    \E b \in Written(o) :
        Contents' = [Contents EXCEPT ![x] = IF driver = "local" /\ o.kind = "append" THEN Append(Content(x), o.n) ELSE b]

\* However calls overlap, fail or stop half-way, each step on a disk other
\* than Google Drive is one operation of the abstract disk, and one its
\* caller asked for, but for three: S3's setVisibility, the opening of a
\* local file that is going to be written, and a write that raced; and that
\* one has the chunk of its call and what the call read, nothing else.
ImplementsDisk ==
    D!Init /\ [][\/ driver = "gdrive" \/ Emptied
                 \/ \E c \in Clients :
                        /\ op[c] # Idle /\ op'[c] # op[c]
                        /\ \/ D!Next /\ Asked(op[c])
                           \/ Begins(op[c])
                           \/ \E x \in Paths : Raced(op[c], x) /\ Rewrites(op[c], x)]_Contents

\* A sweep that nothing overlapped deletes no file whose expiry is still to
\* come, and on S3, where a put takes the old expiry off, none put without one.
SweepSparesCurrent ==
    \A w \in ghost.wronged : w[2] # "fresh" /\ driver # "s3"

\* A sweep that nothing overlapped deletes every file that had expired when
\* it began, apart from those in directories of a local disk.
SweepFindsAll == \A p \in ghost.missed : driver = "local" /\ p \in Nested

\* "this will not overwrite content": the body of an S3 object whose
\* visibility is set is the one it had.
VisibilityKeepsContent ==
    [][\A c \in Clients : op[c] # Idle /\ op[c].kind = "setVisibility" /\ op'[c] = Idle /\ Has(op[c].p)
            => store' = store]_diskVars
===============================================================================
