------------------------------- MODULE DiskState -------------------------------
(***************************************************************************)
(* What the storage drivers share: a disk, the calls in progress on it,    *)
(* and the history the properties read.                                    *)
(*                                                                         *)
(* A step of a call is one request to the store (an fs call, a request to  *)
(* S3, Dropbox or Google Drive): between two of them anything may happen.  *)
(* A file of a local disk is opened, which empties it, and then written:   *)
(* those are two steps.                                                    *)
(*                                                                         *)
(* The files of a path are a set because Google Drive may keep several of  *)
(* one name; every other store has one at most.  A file has an id, which   *)
(* stays with it when it is renamed: that of Google Drive, the inode of a  *)
(* local disk, 0 elsewhere.  Contents are sequences of chunks, a chunk     *)
(* being the number of the call that brought it: a string, or a Buffer of  *)
(* bytes that are no UTF-8 (Binary).  Such bytes do not survive being      *)
(* decoded; a part of a chunk counts as none of it.  An expiry is fresh or *)
(* expired; Expire lets time pass.  Visibility is left out: no property    *)
(* tells it apart.                                                         *)
(***************************************************************************)
EXTENDS Naturals, Sequences, FiniteSets

CONSTANTS
    Clients,    \* the callers that can be in progress together
    Paths,      \* the paths of files
    Nested,     \* those inside the one directory that is made and deleted
    Prefixed,   \* those whose string starts with the directory's name
    Base,       \* the basename of a path, as a path
    Drivers,    \* the drivers a disk may be configured with
    Kinds,      \* the methods that are called
    Binary,     \* the calls whose content is a Buffer and no UTF-8; the others bring a string
    PageSize,   \* the keys that S3 lists at once
    MaxOps      \* bound on the calls ever made

ASSUME DiskAssumption ==
    /\ Nested \subseteq Prefixed /\ Prefixed \subseteq Paths
    /\ Paths # {} /\ Base \in [Paths -> Paths]
    /\ MaxOps \in Nat /\ Binary \subseteq 1 .. MaxOps /\ PageSize \in Nat \ {0}

VARIABLES
    driver,     \* the driver of the disk
    store,      \* the files of every path
    exp,        \* the expiry on record: sidecar, tag or entry of the index
    hasDir,     \* the directory exists
    op,         \* the call every client has in progress
    ops,        \* calls made so far
    ghost       \* history, read by properties only

diskVars == <<driver, store, exp, hasDir, op, ops, ghost>>

Idle == [pc |-> "idle"]
Missing == <<0>>
NoExpiry == [p \in Paths |-> "none"]
Empty == [p \in Paths |-> Missing]

Has(p) == store[p] # {}
Body(p) == (CHOOSE f \in store[p] : TRUE).body
Content(p) == IF Has(p) THEN Body(p) ELSE <<>>
Contents == [p \in Paths |-> IF Has(p) THEN Body(p) ELSE Missing]

\* What a reading method answers when there is no file: an error.
NoSize == MaxOps + 1
GetBody(p) == IF Has(p) THEN Body(p) ELSE Missing
Size(p) == IF Has(p) THEN Len(Body(p)) ELSE NoSize

\* Effects of one request on a store that keeps one file per path.
Store(p, b) == store' = [store EXCEPT ![p] = {[id |-> 0, body |-> b]}]
Remove(ps) == store' = [p \in Paths |-> IF p \in ps THEN {} ELSE store[p]]

\* An index that is written as it was read: what was fresh may have expired.
Aged(snap) == [p \in Paths |-> IF snap[p] = "fresh" /\ exp[p] = "expired" THEN "expired" ELSE snap[p]]

At(d, c, ks, pc) == driver = d /\ op[c].pc = pc /\ op[c].kind \in ks

\* toString: bytes that are no UTF-8 become others.
Decoded(b) == [i \in DOMAIN b |-> IF b[i] \in Binary THEN MaxOps + b[i] ELSE b[i]]

\* The calls that make a string of what they read: prepend on a local disk,
\* prepend and append of a string on Dropbox and Google Drive.
Decodes(o) ==
    \/ driver = "local" /\ o.kind = "prepend"
    \/ driver \in {"dropbox", "gdrive"} /\ o.kind \in {"prepend", "append"} /\ o.n \notin Binary

\* What a call puts its chunk to.
Existing(o) == IF Decodes(o) THEN Decoded(o.read) ELSE o.read

\* What a call writes, and where.
Whole(o) ==
    CASE o.kind = "prepend" -> <<o.n>> \o Existing(o)
      [] o.kind = "append" -> Append(Existing(o), o.n)
      [] o.kind = "copy" -> o.read
      [] OTHER -> <<o.n>>
Target(o) == IF o.kind = "copy" THEN o.q ELSE o.p

-------------------------------------------------------------------------------
(* History.  serial: so far no two calls were in progress together and none *)
(* failed half-way or did what "Diverges" lists.  shadow and due: what a    *)
(* reader of the interface expects the contents and the expiries to be      *)
(* (meaningful while serial).  missed: expired files a sweep left behind.   *)
(* wronged: what a sweep deleted although it was not due.                   *)

Ghost == [serial |-> TRUE, shadow |-> Empty, due |-> NoExpiry, missed |-> {}, wronged |-> {}]

\* Where drivers are known to do something else than the interface says.
Diverges(o) ==
    \/ driver = "buffer" /\ o.kind = "move" /\ o.p = o.q
    \/ driver = "s3" /\ o.kind = "setVisibility"
    \/ driver \in {"buffer", "s3"} /\ o.kind = "deleteDirectory" /\ Nested # Prefixed
    \/ driver = "gdrive" /\ (o.kind \in {"copy", "move", "deleteDirectory"} \/ Base[o.p] # o.p)
    \/ Existing(o) # o.read

\* From here on nobody knows what to expect.
Unsure(g) == [g EXCEPT !.serial = FALSE, !.shadow = Empty, !.due = NoExpiry]

\* The contents a caller expects after a call that succeeded.
Expected(o, s) ==
    LET cur == IF s[o.p] = Missing THEN <<>> ELSE s[o.p] IN
    CASE o.kind \in {"put", "putStream", "putTimed"} -> [s EXCEPT ![o.p] = <<o.n>>]
      [] o.kind = "append" -> [s EXCEPT ![o.p] = Append(cur, o.n)]
      [] o.kind = "prepend" -> [s EXCEPT ![o.p] = <<o.n>> \o cur]
      [] o.kind = "delete" -> [s EXCEPT ![o.p] = Missing]
      [] o.kind = "copy" -> [s EXCEPT ![o.q] = s[o.p]]
      [] o.kind = "move" -> [s EXCEPT ![o.p] = Missing, ![o.q] = s[o.p]]
      [] o.kind = "deleteDirectory" -> [p \in Paths |-> IF p \in Nested THEN Missing ELSE s[p]]
      [] o.kind = "deleteExpired" -> [p \in Paths |-> IF store[p] = {} THEN Missing ELSE s[p]]
      [] OTHER -> s

\* The expiries a caller expects: put and putTimed set them, a path without
\* a file has none, what the other calls make of them is not said.
Due(o, d) ==
    CASE o.kind \in {"put", "putStream", "delete"} -> [d EXCEPT ![o.p] = "none"]
      [] o.kind = "putTimed" -> [d EXCEPT ![o.p] = "fresh"]
      [] o.kind \in {"append", "prepend"} -> [d EXCEPT ![o.p] = "unknown"]
      [] o.kind = "copy" -> [d EXCEPT ![o.q] = "unknown"]
      [] o.kind = "move" -> [d EXCEPT ![o.p] = "none", ![o.q] = "unknown"]
      [] o.kind = "deleteDirectory" -> [p \in Paths |-> IF p \in Nested THEN "none" ELSE d[p]]
      [] o.kind = "deleteExpired" -> [p \in Paths |-> IF store[p] = {} THEN "none" ELSE d[p]]
      [] OTHER -> d

Settle(o, g) ==
    IF ~g.serial THEN g
    ELSE IF Diverges(o) THEN Unsure(g)
    ELSE [g EXCEPT !.shadow = Expected(o, @), !.due = Due(o, @)]

-------------------------------------------------------------------------------
(* The course of a call *)

\* The arguments a call of a method may have.
Args(k) ==
    CASE k \in {"copy", "move"} -> Paths \X Paths
      [] k \in {"makeDirectory", "deleteDirectory", "deleteExpired"} -> {<<p, p>> : p \in {CHOOSE x \in Paths : TRUE}}
      [] OTHER -> {<<p, p>> : p \in Paths}

Call(c, k, a) ==
    /\ op[c] = Idle /\ ops < MaxOps
    /\ op' = [op EXCEPT ![c] =
                [pc |-> "start", kind |-> k, p |-> a[1], q |-> a[2], n |-> ops + 1,
                 read |-> <<>>, id |-> 0, todo |-> {}, snap |-> NoExpiry,
                 owed |-> IF k = "deleteExpired" THEN {p \in Paths : ghost.due[p] = "expired"} ELSE {}]]
    /\ ops' = ops + 1
    /\ ghost' = IF \E x \in Clients \ {c} : op[x] # Idle THEN Unsure(ghost) ELSE ghost
    /\ UNCHANGED <<driver, store, exp, hasDir>>

Goto(c, pc) == op' = [op EXCEPT ![c].pc = pc] /\ UNCHANGED <<driver, ops, ghost>>
Keep(c, o) == op' = [op EXCEPT ![c] = o] /\ UNCHANGED <<driver, ops, ghost>>
Done(c) ==
    /\ op' = [op EXCEPT ![c] = Idle]
    /\ ghost' = Settle(op[c], ghost)
    /\ UNCHANGED <<driver, ops>>
Fail(c) == op' = [op EXCEPT ![c] = Idle] /\ UNCHANGED <<driver, ops, ghost>>

\* A sweep has looked at all it listed: what was due and still stands was missed.
Swept(c) ==
    /\ op' = [op EXCEPT ![c] = Idle]
    /\ ghost' = [Settle(op[c], ghost) EXCEPT !.missed = @ \cup {p \in op[c].owed : ghost.serial /\ Has(p)}]
    /\ UNCHANGED <<driver, ops>>

\* A sweep deletes the file of p.
Judge(p) ==
    ghost' = IF ghost.serial /\ ghost.due[p] \in {"none", "fresh"}
             THEN [ghost EXCEPT !.wronged = @ \cup {<<p, ghost.due[p]>>}] ELSE ghost

\* A request fails, or the process stops: the call goes no further.
Fault(c) ==
    /\ op[c] # Idle /\ driver # "buffer"
    /\ op' = [op EXCEPT ![c] = Idle]
    /\ ghost' = Unsure(ghost)
    /\ UNCHANGED <<driver, store, exp, hasDir, ops>>

\* The write of a sidecar or an index stops half-way: what is left is no
\* JSON, and counts as nothing.
Torn(c, ps) ==
    /\ exp' = [p \in Paths |-> IF p \in ps THEN "none" ELSE exp[p]]
    /\ op' = [op EXCEPT ![c] = Idle]
    /\ ghost' = Unsure(ghost)
    /\ UNCHANGED <<driver, store, hasDir, ops>>

\* The expiry on record for p passes.
Expire(p) ==
    /\ exp[p] = "fresh"
    /\ exp' = [exp EXCEPT ![p] = "expired"]
    /\ ghost' = IF ghost.due[p] = "fresh" THEN [ghost EXCEPT !.due[p] = "expired"] ELSE ghost
    /\ UNCHANGED <<driver, store, hasDir, op, ops>>

DiskInit ==
    /\ driver \in Drivers
    /\ store = [p \in Paths |-> {}]
    /\ exp = NoExpiry
    /\ hasDir = FALSE
    /\ op = [c \in Clients |-> Idle]
    /\ ops = 0
    /\ ghost = Ghost
===============================================================================
