----------------------------- MODULE DisksProofs -----------------------------
(***************************************************************************)
(* Theorems about Disks, for any number of clients, paths and calls.       *)
(***************************************************************************)
EXTENDS Disks, SequenceTheorems, TLAPS

(* Types *)

Chunk == 1 .. MaxOps
Bodies == Seq(Nat \ {0})
File == [id : Nat, body : Bodies]
Expiries == {"none", "fresh", "expired"}
Dues == Expiries \cup {"unknown"}
Pcs == {"start", "meta", "tag", "index", "write", "copied", "find", "found", "put",
        "open", "fill", "check", "delete", "unmeta", "tags", "expired", "look"}

OpRecord ==
    [pc : Pcs, kind : Kinds, p : Paths, q : Paths, n : Chunk, read : Bodies, id : Nat,
     todo : SUBSET Paths, snap : [Paths -> Expiries], owed : SUBSET Paths]

Typed ==
    /\ driver \in Drivers
    /\ store \in [Paths -> SUBSET File]
    /\ exp \in [Paths -> Expiries]
    /\ hasDir \in BOOLEAN
    /\ op \in [Clients -> {Idle} \cup OpRecord]
    /\ ops \in 0 .. MaxOps
    /\ ghost \in [serial : BOOLEAN, shadow : [Paths -> Bodies \cup {Missing}], due : [Paths -> Dues],
                  missed : SUBSET Paths, wronged : SUBSET (Paths \X Dues)]

-------------------------------------------------------------------------------
(* Facts about data *)

LEMMA IdleIsNoRecord == Idle \notin OpRecord
  BY DEF Idle, OpRecord, Pcs

LEMMA MissingIsNoBody == Missing \notin Bodies
<1>1. ASSUME Missing \in Bodies PROVE FALSE
  <2>1. Missing[1] \in Nat \ {0}
    BY <1>1 DEF Missing, Bodies
  <2>2. Missing[1] = 0
    BY DEF Missing
  <2>3. QED
    BY <2>1, <2>2
<1>2. QED
  BY <1>1

\* What writes make is a body.
LEMMA WrittenIsBody ==
    ASSUME NEW b \in Bodies, NEW n \in Chunk
    PROVE  <<>> \in Bodies /\ <<n>> \in Bodies /\ Append(b, n) \in Bodies /\ <<n>> \o b \in Bodies
<1>1. n \in Nat \ {0}
  BY DiskAssumption DEF Chunk
<1>2. QED
  BY <1>1 DEF Bodies

\* So is what decoding makes of one ...
LEMMA DecodedIsBody ==
    ASSUME NEW b \in Bodies
    PROVE  Decoded(b) \in Bodies
<1>1. PICK n \in Nat : b \in [1 .. n -> Nat \ {0}]
  BY SeqDef DEF Bodies
<1>2. Decoded(b) \in [1 .. n -> Nat \ {0}]
  BY <1>1, DiskAssumption DEF Decoded
<1>3. QED
  BY <1>2, SeqDef DEF Bodies

\* ... and what a call writes, and a part of it.
LEMMA WholeIsBody ==
    ASSUME NEW o \in OpRecord
    PROVE  /\ Existing(o) \in Bodies /\ Whole(o) \in Bodies /\ Target(o) \in Paths
           /\ \A k \in 0 .. Len(Whole(o)) : SubSeq(Whole(o), 1, k) \in Bodies
<1>1. o.read \in Bodies /\ o.n \in Chunk /\ o.p \in Paths /\ o.q \in Paths
  BY DEF OpRecord
<1>2. Existing(o) \in Bodies
  BY <1>1, DecodedIsBody DEF Existing
<1>3. Whole(o) \in Bodies
  BY <1>1, <1>2, WrittenIsBody DEF Whole
<1>4. ASSUME NEW k \in 0 .. Len(Whole(o)) PROVE SubSeq(Whole(o), 1, k) \in Bodies
  BY <1>3 DEF Bodies
<1>5. QED
  BY <1>1, <1>2, <1>3, <1>4 DEF Target

\* A client between its first step and its last holds a call.
LEMMA BusyIsRecord ==
    ASSUME Typed, NEW c \in Clients, op[c].pc \in Pcs
    PROVE  op[c] \in OpRecord /\ op[c] # Idle
  BY IdleIsNoRecord DEF Typed, Idle, Pcs

LEMMA BodyOfFile ==
    ASSUME Typed, NEW p \in Paths
    PROVE  /\ Has(p) => Body(p) \in Bodies
           /\ Content(p) \in Bodies
<1>1. store[p] \subseteq File
  BY DEF Typed
<1>2. Has(p) => (CHOOSE f \in store[p] : TRUE) \in store[p]
  BY DEF Has
<1>3. Has(p) => Body(p) \in Bodies
  BY <1>1, <1>2 DEF Body, File
<1>4. QED
  BY <1>3, DiskAssumption DEF Content, Bodies

-------------------------------------------------------------------------------
(* The steps that calls share keep the types *)

LEMMA StoreTyped ==
    ASSUME Typed, NEW p \in Paths, NEW b \in Bodies, Store(p, b)
    PROVE  store' \in [Paths -> SUBSET File]
<1>1. {[id |-> 0, body |-> b]} \in SUBSET File
  BY DEF File
<1>2. QED
  BY <1>1 DEF Store, Typed

LEMMA RemoveTyped ==
    ASSUME Typed, NEW ps, Remove(ps)
    PROVE  store' \in [Paths -> SUBSET File]
  BY DEF Remove, Typed

GhostType ==
    [serial : BOOLEAN, shadow : [Paths -> Bodies \cup {Missing}], due : [Paths -> Dues],
     missed : SUBSET Paths, wronged : SUBSET (Paths \X Dues)]

LEMMA ExpectedTyped ==
    ASSUME NEW o \in OpRecord, NEW s \in [Paths -> Bodies \cup {Missing}]
    PROVE  Expected(o, s) \in [Paths -> Bodies \cup {Missing}]
<1> DEFINE cur == IF s[o.p] = Missing THEN <<>> ELSE s[o.p]
<1>1. o.p \in Paths /\ o.q \in Paths /\ o.n \in Chunk
  BY DEF OpRecord
<1>2. cur \in Bodies
  BY <1>1 DEF Bodies
<1>3. <<o.n>> \in Bodies /\ Append(cur, o.n) \in Bodies /\ <<o.n>> \o cur \in Bodies
  BY <1>1, <1>2, WrittenIsBody
<1>4. s[o.p] \in Bodies \cup {Missing}
  BY <1>1
<1>5. /\ [s EXCEPT ![o.p] = <<o.n>>] \in [Paths -> Bodies \cup {Missing}]
      /\ [s EXCEPT ![o.p] = Append(cur, o.n)] \in [Paths -> Bodies \cup {Missing}]
      /\ [s EXCEPT ![o.p] = <<o.n>> \o cur] \in [Paths -> Bodies \cup {Missing}]
      /\ [s EXCEPT ![o.p] = Missing] \in [Paths -> Bodies \cup {Missing}]
      /\ [s EXCEPT ![o.q] = s[o.p]] \in [Paths -> Bodies \cup {Missing}]
      /\ [s EXCEPT ![o.p] = Missing, ![o.q] = s[o.p]] \in [Paths -> Bodies \cup {Missing}]
      /\ [p \in Paths |-> IF p \in Nested THEN Missing ELSE s[p]] \in [Paths -> Bodies \cup {Missing}]
      /\ [p \in Paths |-> IF store[p] = {} THEN Missing ELSE s[p]] \in [Paths -> Bodies \cup {Missing}]
  BY <1>3, <1>4
<1> HIDE DEF cur
<1>6. QED
  BY <1>5 DEF Expected, cur

LEMMA DueTyped ==
    ASSUME NEW o \in OpRecord, NEW d \in [Paths -> Dues]
    PROVE  Due(o, d) \in [Paths -> Dues]
<1>1. o.p \in Paths /\ o.q \in Paths
  BY DEF OpRecord
<1>2. /\ [d EXCEPT ![o.p] = "none"] \in [Paths -> Dues]
      /\ [d EXCEPT ![o.p] = "fresh"] \in [Paths -> Dues]
      /\ [d EXCEPT ![o.p] = "unknown"] \in [Paths -> Dues]
      /\ [d EXCEPT ![o.q] = "unknown"] \in [Paths -> Dues]
      /\ [d EXCEPT ![o.p] = "none", ![o.q] = "unknown"] \in [Paths -> Dues]
      /\ [p \in Paths |-> IF p \in Nested THEN "none" ELSE d[p]] \in [Paths -> Dues]
      /\ [p \in Paths |-> IF store[p] = {} THEN "none" ELSE d[p]] \in [Paths -> Dues]
  BY DEF Dues, Expiries
<1>3. QED
  BY <1>2 DEF Due

LEMMA UnsureTyped ==
    ASSUME NEW g \in GhostType
    PROVE  Unsure(g) \in GhostType
  BY DEF Unsure, GhostType, Empty, NoExpiry, Dues, Expiries

LEMMA SettleTyped ==
    ASSUME NEW o \in OpRecord, NEW g \in GhostType
    PROVE  Settle(o, g) \in GhostType
<1>1. Expected(o, g.shadow) \in [Paths -> Bodies \cup {Missing}]
  BY ExpectedTyped DEF GhostType
<1>2. Due(o, g.due) \in [Paths -> Dues]
  BY DueTyped DEF GhostType
<1>3. [g EXCEPT !.shadow = Expected(o, @), !.due = Due(o, @)] \in GhostType
  BY <1>1, <1>2 DEF GhostType
<1>4. QED
  BY <1>3, UnsureTyped DEF Settle

LEMMA ArgsArePaths ==
    ASSUME NEW k, NEW a \in Args(k)
    PROVE  a[1] \in Paths /\ a[2] \in Paths
<1>1. (CHOOSE x \in Paths : TRUE) \in Paths
  BY DiskAssumption
<1>2. QED
  BY <1>1 DEF Args

\* The ways a step of a call ends.
LEMMA DoneTyped ==
    ASSUME Typed, NEW c \in Clients, op[c] \in OpRecord, Done(c)
    PROVE  op' \in [Clients -> {Idle} \cup OpRecord] /\ ghost' \in GhostType /\ UNCHANGED <<driver, ops>>
<1>1. ghost \in GhostType
  BY DEF Typed, GhostType
<1>2. QED
  BY <1>1, SettleTyped DEF Done, Typed

LEMMA FailTyped ==
    ASSUME Typed, NEW c \in Clients, Fail(c)
    PROVE  op' \in [Clients -> {Idle} \cup OpRecord] /\ UNCHANGED <<driver, ops, ghost>>
  BY DEF Fail, Typed

LEMMA GotoTyped ==
    ASSUME Typed, NEW c \in Clients, op[c] \in OpRecord, NEW pc \in Pcs, Goto(c, pc)
    PROVE  op' \in [Clients -> {Idle} \cup OpRecord] /\ UNCHANGED <<driver, ops, ghost>>
<1>1. [op[c] EXCEPT !.pc = pc] \in OpRecord
  BY DEF OpRecord
<1>2. op' = [op EXCEPT ![c] = [op[c] EXCEPT !.pc = pc]]
  BY DEF Goto
<1>3. QED
  BY <1>1, <1>2 DEF Goto, Typed

LEMMA KeepTyped ==
    ASSUME Typed, NEW c \in Clients, NEW o \in OpRecord, Keep(c, o)
    PROVE  op' \in [Clients -> {Idle} \cup OpRecord] /\ UNCHANGED <<driver, ops, ghost>>
  BY DEF Keep, Typed

LEMMA SweptTyped ==
    ASSUME Typed, NEW c \in Clients, op[c] \in OpRecord, Swept(c)
    PROVE  op' \in [Clients -> {Idle} \cup OpRecord] /\ ghost' \in GhostType /\ UNCHANGED <<driver, ops>>
<1>1. ghost \in GhostType
  BY DEF Typed, GhostType
<1>2. PICK g \in GhostType : g = Settle(op[c], ghost)
  BY <1>1, SettleTyped
<1>3. op[c].owed \subseteq Paths
  BY DEF OpRecord
<1>4. PICK left \in SUBSET Paths : left = {p \in op[c].owed : ghost.serial /\ Has(p)}
  BY <1>3
<1>5. ghost' = [g EXCEPT !.missed = @ \cup left]
  BY <1>2, <1>4 DEF Swept
<1>6. [g EXCEPT !.missed = @ \cup left] \in GhostType
  BY DEF GhostType
<1>7. QED
  BY <1>5, <1>6 DEF Swept, Typed

LEMMA JudgeTyped ==
    ASSUME Typed, NEW p \in Paths, Judge(p)
    PROVE  ghost' \in GhostType
<1>1. ghost \in GhostType
  BY DEF Typed, GhostType
<1>2. ghost.due[p] \in Dues
  BY <1>1 DEF GhostType
<1>3. [ghost EXCEPT !.wronged = @ \cup {<<p, ghost.due[p]>>}] \in GhostType
  BY <1>1, <1>2 DEF GhostType
<1>4. QED
  BY <1>1, <1>3 DEF Judge

LEMMA AgedTyped ==
    ASSUME NEW snap \in [Paths -> Expiries]
    PROVE  Aged(snap) \in [Paths -> Expiries]
  BY DEF Aged, Expiries

-------------------------------------------------------------------------------
(* Type correctness: one lemma per driver *)

LEMMA StepTyped ==
    ASSUME Typed, NEW c \in Clients, op[c] \in OpRecord,
           store' \in [Paths -> SUBSET File], exp' \in [Paths -> Expiries], hasDir' \in BOOLEAN,
           \/ Done(c) \/ Fail(c) \/ Swept(c)
           \/ \E pc \in Pcs : Goto(c, pc)
           \/ \E o \in OpRecord : Keep(c, o)
    PROVE  Typed'
<1>1. UNCHANGED ghost => ghost' \in GhostType
  BY DEF Typed, GhostType
<1>2. op' \in [Clients -> {Idle} \cup OpRecord] /\ ghost' \in GhostType /\ UNCHANGED <<driver, ops>>
  BY <1>1, DoneTyped, FailTyped, SweptTyped, GotoTyped, KeepTyped
<1>3. QED
  BY <1>2 DEF Typed, GhostType

\* A step that ends, or changes the record, and may leave in doubt what to expect.
LEMMA ChangedTyped ==
    ASSUME Typed, NEW c \in Clients,
           store' \in [Paths -> SUBSET File], exp' \in [Paths -> Expiries], hasDir' \in BOOLEAN,
           UNCHANGED <<driver, ops>>,
           NEW o \in OpRecord \cup {Idle}, op' = [op EXCEPT ![c] = o],
           ghost' \in {ghost, Unsure(ghost)}
    PROVE  Typed'
<1>1. ghost' \in GhostType
  BY UnsureTyped DEF Typed, GhostType
<1>2. op' \in [Clients -> {Idle} \cup OpRecord]
  BY DEF Typed
<1>3. QED
  BY <1>1, <1>2 DEF Typed, GhostType

LEMMA TornTyped ==
    ASSUME Typed, NEW c \in Clients, NEW ps, Torn(c, ps)
    PROVE  exp' \in [Paths -> Expiries]
  BY DEF Torn, Typed, Expiries

\* What the actions of all drivers make of the fields they write.
LEMMA FieldsTyped ==
    ASSUME Typed, NEW c \in Clients, op[c] \in OpRecord
    PROVE  /\ op[c].p \in Paths /\ op[c].q \in Paths /\ op[c].n \in Chunk /\ op[c].read \in Bodies
           /\ op[c].todo \in SUBSET Paths /\ op[c].snap \in [Paths -> Expiries] /\ op[c].owed \in SUBSET Paths
           /\ Store(op[c].p, <<op[c].n>>) => store' \in [Paths -> SUBSET File]
           /\ Store(op[c].p, <<>>) => store' \in [Paths -> SUBSET File]
           /\ Existing(op[c]) \in Bodies
           /\ Store(op[c].p, <<op[c].n>> \o Existing(op[c])) => store' \in [Paths -> SUBSET File]
           /\ Store(op[c].p, Append(Existing(op[c]), op[c].n)) => store' \in [Paths -> SUBSET File]
           /\ Store(op[c].p, <<op[c].n>> \o op[c].read) => store' \in [Paths -> SUBSET File]
           /\ Store(op[c].p, Append(op[c].read, op[c].n)) => store' \in [Paths -> SUBSET File]
           /\ Store(op[c].p, <<op[c].n>> \o Content(op[c].p)) => store' \in [Paths -> SUBSET File]
           /\ Store(op[c].p, Append(Content(op[c].p), op[c].n)) => store' \in [Paths -> SUBSET File]
           /\ Has(op[c].p) /\ Store(op[c].q, Body(op[c].p)) => store' \in [Paths -> SUBSET File]
           /\ store' = [store EXCEPT ![op[c].p] = {}, ![op[c].q] = store[op[c].p]] => store' \in [Paths -> SUBSET File]
           /\ UNCHANGED store => store' \in [Paths -> SUBSET File]
           /\ UNCHANGED exp => exp' \in [Paths -> Expiries]
           /\ UNCHANGED hasDir => hasDir' \in BOOLEAN
           /\ \A p \in Paths, e \in Expiries : exp' = [exp EXCEPT ![p] = e] => exp' \in [Paths -> Expiries]
<1> DEFINE o == op[c]
<1>1. o.p \in Paths /\ o.q \in Paths /\ o.n \in Chunk /\ o.read \in Bodies
      /\ o.todo \in SUBSET Paths /\ o.snap \in [Paths -> Expiries] /\ o.owed \in SUBSET Paths
  BY DEF OpRecord
<1>2. Content(o.p) \in Bodies /\ (Has(o.p) => Body(o.p) \in Bodies)
  BY <1>1, BodyOfFile
<1>3. /\ <<>> \in Bodies /\ <<o.n>> \in Bodies /\ <<o.n>> \o o.read \in Bodies /\ Append(o.read, o.n) \in Bodies
      /\ <<o.n>> \o Content(o.p) \in Bodies /\ Append(Content(o.p), o.n) \in Bodies
      /\ Existing(o) \in Bodies /\ <<o.n>> \o Existing(o) \in Bodies /\ Append(Existing(o), o.n) \in Bodies
  BY <1>1, <1>2, WrittenIsBody, WholeIsBody
<1>4. store' = [store EXCEPT ![o.p] = {}, ![o.q] = store[o.p]] => store' \in [Paths -> SUBSET File]
  BY <1>1 DEF Typed
<1>5. \A p \in Paths, e \in Expiries : exp' = [exp EXCEPT ![p] = e] => exp' \in [Paths -> Expiries]
  BY DEF Typed
<1>6. (UNCHANGED store => store' \in [Paths -> SUBSET File]) /\ (UNCHANGED exp => exp' \in [Paths -> Expiries])
      /\ (UNCHANGED hasDir => hasDir' \in BOOLEAN)
  BY DEF Typed
<1>7. \A p \in Paths, b \in Bodies : Store(p, b) => store' \in [Paths -> SUBSET File]
  BY StoreTyped
<1> HIDE DEF o
<1>8. QED
  BY <1>1, <1>2, <1>3, <1>4, <1>5, <1>6, <1>7 DEF o

\* A step of a call on a local disk is one of a call in progress.
LEMMA LocalBusy ==
    ASSUME Typed, NEW c \in Clients, LocalStep(c)
    PROVE  op[c] \in OpRecord /\ op[c] # Idle /\ driver = "local" /\ UNCHANGED driver
<1>1. ASSUME NEW p \in Paths, LocalUnlink(c, p) \/ \E fails \in BOOLEAN : LocalCheck(c, p, fails)
      PROVE  op[c].pc \in Pcs /\ driver = "local" /\ UNCHANGED driver
  BY <1>1 DEF LocalUnlink, LocalCheck, Local, At, Pcs, Keep
<1>2. ASSUME NEW k \in 0 .. MaxOps, LocalOpen(c, k)
      PROVE  op[c].pc \in Pcs /\ driver = "local" /\ UNCHANGED driver
  BY <1>2 DEF LocalOpen, Local, At, Pcs, Keep, Done, Fail
<1>3. ASSUME NEW fails \in BOOLEAN, LocalRead(c, fails)
      PROVE  op[c].pc \in Pcs /\ driver = "local" /\ UNCHANGED driver
  BY <1>3 DEF LocalRead, Local, At, Pcs
<1>4. op[c].pc \in Pcs /\ driver = "local" /\ UNCHANGED driver
  BY <1>1, <1>2, <1>3 DEF LocalStep, LocalPut, LocalPutStream, LocalWrite, LocalCopy, LocalCopyFails, LocalPutTimed,
     LocalTorn, LocalSetVisibility, LocalDelete, LocalMove, LocalMakeDirectory, LocalListDirectory,
     LocalDeleteDirectory, LocalSweep, LocalDeleteExpired, LocalDeleteMeta, LocalSweepFails, LocalSweepEnd,
     Local, At, Pcs, Done, Fail, Goto, Keep, Swept, Torn
<1>5. QED
  BY <1>4, BusyIsRecord

LEMMA InodeTyped ==
    ASSUME Typed, NEW p \in Paths, Has(p)
    PROVE  Inode(p) \in Nat /\ Body(p) \in Bodies /\ (CHOOSE f \in store[p] : TRUE) \in store[p]
<1>1. (CHOOSE f \in store[p] : TRUE) \in store[p] /\ store[p] \subseteq File
  BY DEF Has, Typed
<1>2. QED
  BY <1>1 DEF Inode, Body, File

LEMMA OpenedTyped ==
    ASSUME Typed, NEW c \in Clients, op[c] \in OpRecord
    PROVE  Opened(op[c]) \in Nat
<1>1. op[c].n \in Nat /\ Target(op[c]) \in Paths
  BY WholeIsBody, DiskAssumption DEF OpRecord, Chunk
<1>2. QED
  BY <1>1, InodeTyped DEF Opened

LEMMA LocalOpenTyped ==
    ASSUME Typed, NEW c \in Clients, op[c] \in OpRecord, NEW k \in 0 .. MaxOps, LocalOpen(c, k)
    PROVE  Typed'
<1> DEFINE o == op[c]
           t == Target(op[c])
<1>1. exp' \in [Paths -> Expiries] /\ hasDir' \in BOOLEAN
  BY FieldsTyped DEF LocalOpen
<1>2. CASE ~DirThere(t) \/ ToItself(o)
  <2>1. store' \in [Paths -> SUBSET File]
    BY <1>2, FieldsTyped DEF LocalOpen
  <2>2. Fail(c) \/ Done(c)
    BY <1>2 DEF LocalOpen
  <2>3. QED
    BY <1>1, <2>1, <2>2, StepTyped
<1>3. CASE DirThere(t) /\ ~ToItself(o)
  <2>1. PICK b : b = IF o.kind = "append" THEN Content(t) ELSE SubSeq(Whole(o), 1, k)
    OBVIOUS
  <2>2. k \in 0 .. Len(Whole(o)) \/ o.kind = "append"
    <3>1. Len(Whole(o)) \in Nat
      BY WholeIsBody DEF Bodies
    <3>2. QED
      BY <3>1 DEF LocalOpen
  <2>3. t \in Paths /\ Opened(o) \in Nat
    BY WholeIsBody, OpenedTyped
  <2>4. b \in Bodies
    BY <2>1, <2>2, <2>3, WholeIsBody, BodyOfFile
  <2>5. store' = [store EXCEPT ![t] = {[id |-> Opened(o), body |-> b]}]
    BY <1>3, <2>1 DEF LocalOpen
  <2>6. {[id |-> Opened(o), body |-> b]} \in SUBSET File
    BY <2>3, <2>4 DEF File
  <2>7. store' \in [Paths -> SUBSET File]
    BY <2>3, <2>5, <2>6 DEF Typed
  <2>8. PICK i \in Nat : i = Opened(o)
    BY <2>3
  <2>9. [o EXCEPT !.pc = "fill", !.id = i] \in OpRecord
    BY DEF OpRecord, Pcs
  <2>10. Keep(c, [o EXCEPT !.pc = "fill", !.id = i])
    BY <1>3, <2>8 DEF LocalOpen
  <2>11. QED
    BY <1>1, <2>7, <2>9, <2>10, StepTyped
<1>4. QED
  BY <1>2, <1>3

LEMMA LocalWriteTyped ==
    ASSUME Typed, NEW c \in Clients, op[c] \in OpRecord, LocalWrite(c)
    PROVE  Typed'
<1> DEFINE o == op[c]
<1>1. exp' \in [Paths -> Expiries] /\ hasDir' \in BOOLEAN
  BY FieldsTyped DEF LocalWrite
<1>2. o.p \in Paths /\ o.n \in Chunk /\ Whole(o) \in Bodies
  BY FieldsTyped, WholeIsBody
<1>3. \A b \in Written(o) : b \in Bodies
  BY <1>2 DEF Written, Typed, File
<1>4. PICK b \in Written(o) :
          store' = [x \in Paths |->
              {IF f.id # o.id THEN f ELSE [f EXCEPT !.body = IF o.kind = "append" THEN Append(@, o.n) ELSE b] : f \in store[x]}]
  BY DEF LocalWrite
<1>5. b \in Bodies
  BY <1>3
<1>6. ASSUME NEW f \in File
      PROVE  (IF f.id # o.id THEN f ELSE [f EXCEPT !.body = IF o.kind = "append" THEN Append(@, o.n) ELSE b]) \in File
  <2>1. Append(f.body, o.n) \in Bodies
    BY <1>2, WrittenIsBody DEF File
  <2>2. QED
    BY <1>5, <2>1 DEF File
<1>7. store' \in [Paths -> SUBSET File]
  BY <1>4, <1>6 DEF Typed
<1>8. Done(c) \/ \E pc \in Pcs : Goto(c, pc)
  BY DEF LocalWrite, Pcs
<1>9. QED
  BY <1>1, <1>7, <1>8, StepTyped

\* Steps that leave in doubt what to expect, or may.
LEMMA LocalDoubtTyped ==
    ASSUME Typed, NEW c \in Clients, op[c] \in OpRecord,
           \/ \E fails \in BOOLEAN : LocalRead(c, fails) \/ \E p \in Paths : LocalCheck(c, p, fails)
           \/ LocalCopyFails(c) \/ LocalTorn(c) \/ LocalSweepFails(c)
    PROVE  Typed'
<1>1. op[c].p \in Paths /\ op[c].q \in Paths /\ op[c].todo \in SUBSET Paths
  BY FieldsTyped
<1>2. CASE \E fails \in BOOLEAN : LocalRead(c, fails)
  <2>1. PICK fails \in BOOLEAN : LocalRead(c, fails)
    BY <1>2
  <2>2. PICK b \in Bodies : b = IF fails THEN <<>> ELSE Content(op[c].p)
    <3>1. <<>> \in Bodies
      BY DEF Bodies
    <3>2. QED
      BY <1>1, <3>1, BodyOfFile
  <2>3. op' = [op EXCEPT ![c] = [op[c] EXCEPT !.pc = "open", !.read = b]]
    BY <2>1, <2>2 DEF LocalRead
  <2>4. [op[c] EXCEPT !.pc = "open", !.read = b] \in OpRecord
    BY DEF OpRecord, Pcs
  <2>5. QED
    BY <2>1, <2>3, <2>4, FieldsTyped, ChangedTyped DEF LocalRead
<1>3. CASE \E fails \in BOOLEAN, p \in Paths : LocalCheck(c, p, fails)
  <2>1. PICK fails \in BOOLEAN, p \in Paths : LocalCheck(c, p, fails)
    BY <1>3
  <2>2. PICK pc \in Pcs : pc = IF exp[p] = "expired" /\ ~fails THEN "delete" ELSE "check"
    BY DEF Pcs
  <2>3. op' = [op EXCEPT ![c] = [op[c] EXCEPT !.pc = pc, !.p = p, !.todo = @ \ {p}]]
    BY <2>1, <2>2 DEF LocalCheck
  <2>4. [op[c] EXCEPT !.pc = pc, !.p = p, !.todo = @ \ {p}] \in OpRecord
    BY DEF OpRecord
  <2>5. QED
    BY <2>1, <2>3, <2>4, FieldsTyped, ChangedTyped DEF LocalCheck
<1>4. CASE LocalCopyFails(c)
  <2>1. store' \in [Paths -> SUBSET File]
    BY <1>4, RemoveTyped DEF LocalCopyFails
  <2>2. QED
    BY <1>4, <2>1, FieldsTyped, ChangedTyped DEF LocalCopyFails
<1>5. CASE LocalTorn(c)
  <2>1. exp' \in [Paths -> Expiries]
    BY <1>5 DEF LocalTorn, Torn, Typed, Expiries
  <2>2. QED
    BY <1>5, <2>1, FieldsTyped, ChangedTyped DEF LocalTorn, Torn
<1>6. CASE LocalSweepFails(c)
  <2>1. [op[c] EXCEPT !.pc = "check"] \in OpRecord
    BY DEF OpRecord, Pcs
  <2>2. op' = [op EXCEPT ![c] = [op[c] EXCEPT !.pc = "check"]]
    BY <1>6 DEF LocalSweepFails
  <2>3. QED
    BY <1>6, <2>1, <2>2, FieldsTyped, ChangedTyped DEF LocalSweepFails
<1>7. QED
  BY <1>2, <1>3, <1>4, <1>5, <1>6

LEMMA LocalTyped ==
    ASSUME Typed, NEW c \in Clients, LocalStep(c)
    PROVE  Typed'
<1>1. op[c] \in OpRecord /\ UNCHANGED driver
  BY LocalBusy
<1>2. op[c].p \in Paths /\ op[c].todo \in SUBSET Paths
  BY <1>1, FieldsTyped
<1>3. CASE LocalDeleteExpired(c)
  <2>1. ghost' \in GhostType
    BY <1>2, <1>3, JudgeTyped DEF LocalDeleteExpired
  <2>2. store' \in [Paths -> SUBSET File]
    BY <1>3, RemoveTyped DEF LocalDeleteExpired
  <2>3. \A pc \in Pcs : [op[c] EXCEPT !.pc = pc] \in OpRecord
    BY <1>1 DEF OpRecord
  <2>4. op' \in [Clients -> {Idle} \cup OpRecord]
    BY <1>3, <2>3 DEF LocalDeleteExpired, Typed, Pcs
  <2>5. QED
    BY <1>3, <2>1, <2>2, <2>4 DEF LocalDeleteExpired, Typed, GhostType
<1>4. CASE \E k \in 0 .. MaxOps : LocalOpen(c, k)
  BY <1>1, <1>4, LocalOpenTyped
<1>5. CASE LocalWrite(c)
  BY <1>1, <1>5, LocalWriteTyped
<1>6. CASE \/ \E fails \in BOOLEAN : LocalRead(c, fails) \/ \E p \in Paths : LocalCheck(c, p, fails)
           \/ LocalCopyFails(c) \/ LocalTorn(c) \/ LocalSweepFails(c)
  BY <1>1, <1>6, LocalDoubtTyped
<1>7. CASE \/ LocalPut(c) \/ LocalPutStream(c) \/ LocalCopy(c) \/ LocalPutTimed(c) \/ LocalSetVisibility(c)
           \/ LocalDelete(c) \/ LocalMove(c) \/ LocalMakeDirectory(c) \/ LocalListDirectory(c)
           \/ LocalDeleteDirectory(c) \/ LocalSweep(c) \/ LocalDeleteMeta(c) \/ LocalSweepEnd(c)
           \/ \E p \in Paths : LocalUnlink(c, p)
  <2>1. store' \in [Paths -> SUBSET File]
    BY <1>1, <1>7, FieldsTyped, RemoveTyped DEF LocalPut, LocalPutStream, LocalCopy, LocalPutTimed, LocalSetVisibility,
       LocalDelete, LocalMove, LocalMakeDirectory, LocalListDirectory, LocalDeleteDirectory, LocalSweep,
       LocalDeleteMeta, LocalSweepEnd, LocalUnlink
  <2>2. LocalDeleteDirectory(c) => exp' \in [Paths -> Expiries]
    BY DEF LocalDeleteDirectory, Typed, Expiries
  <2>3. "none" \in Expiries /\ "fresh" \in Expiries
    BY DEF Expiries
  <2>4. exp' \in [Paths -> Expiries]
    BY <1>1, <1>7, FieldsTyped, <2>2, <2>3 DEF LocalPut, LocalPutStream, LocalCopy, LocalPutTimed, LocalSetVisibility,
       LocalDelete, LocalMove, LocalMakeDirectory, LocalListDirectory, LocalSweep, LocalDeleteMeta, LocalSweepEnd,
       LocalUnlink
  <2>5. hasDir' \in BOOLEAN
    BY <1>1, <1>7, FieldsTyped DEF LocalPut, LocalPutStream, LocalCopy, LocalPutTimed, LocalSetVisibility,
       LocalDelete, LocalMove, LocalMakeDirectory, LocalListDirectory, LocalDeleteDirectory, LocalSweep,
       LocalDeleteMeta, LocalSweepEnd, LocalUnlink
  <2>6. LocalCopy(c) => Fail(c) \/ \E o \in OpRecord : Keep(c, o)
    <3>1. ASSUME LocalCopy(c), Has(op[c].p) PROVE \E o \in OpRecord : Keep(c, o)
      <4>1. PICK i \in Nat, b \in Bodies : i = Inode(op[c].p) /\ b = Body(op[c].p)
        BY <1>2, <3>1, InodeTyped
      <4>2. [op[c] EXCEPT !.pc = "open", !.read = b, !.id = i] \in OpRecord
        BY <1>1 DEF OpRecord, Pcs
      <4>3. QED
        BY <3>1, <4>1, <4>2 DEF LocalCopy
    <3>2. QED
      BY <3>1 DEF LocalCopy
  <2>7. LocalSweep(c) => \E o \in OpRecord : Keep(c, o)
    BY <1>1 DEF LocalSweep, LocalListed, OpRecord, Pcs
  <2>8. LocalListDirectory(c) => \E o \in OpRecord : Keep(c, o)
    BY <1>1, DiskAssumption DEF LocalListDirectory, OpRecord, Pcs
  <2>9. ASSUME NEW p \in Paths, LocalUnlink(c, p) PROVE \E o \in OpRecord : Keep(c, o)
    BY <1>1, <2>9 DEF LocalUnlink, OpRecord
  <2>10. \/ Done(c) \/ Fail(c) \/ Swept(c)
         \/ \E pc \in Pcs : Goto(c, pc)
         \/ \E o \in OpRecord : Keep(c, o)
    BY <1>7, <2>6, <2>7, <2>8, <2>9 DEF LocalPut, LocalPutStream, LocalPutTimed, LocalSetVisibility,
       LocalDelete, LocalMove, LocalMakeDirectory, LocalDeleteDirectory, LocalDeleteMeta, LocalSweepEnd, Pcs
  <2>11. QED
    BY <1>1, <2>1, <2>4, <2>5, <2>10, StepTyped
<1>8. QED
  BY <1>3, <1>4, <1>5, <1>6, <1>7 DEF LocalStep

LEMMA BufferTyped ==
    ASSUME Typed, NEW c \in Clients, BufferStep(c)
    PROVE  Typed'
<1>1. op[c] \in OpRecord
  BY BusyIsRecord DEF BufferStep, BufferPut, ServicePutTimed, ServicePutStream, ServiceDeleteExpired,
     BufferDelete, BufferCopy, BufferMove, BufferPrepend, BufferAppend, BufferSetVisibility,
     BufferMakeDirectory, BufferDeleteDirectory, Buffer, At, Pcs
<1>2. store' \in [Paths -> SUBSET File]
  BY <1>1, FieldsTyped, RemoveTyped DEF BufferStep, BufferPut, ServicePutTimed, ServicePutStream,
     ServiceDeleteExpired, BufferDelete, BufferCopy, BufferMove, BufferPrepend, BufferAppend,
     BufferSetVisibility, BufferMakeDirectory, BufferDeleteDirectory
<1>3. exp' \in [Paths -> Expiries] /\ hasDir' \in BOOLEAN
  BY <1>1, FieldsTyped DEF BufferStep, BufferPut, ServicePutTimed, ServicePutStream,
     ServiceDeleteExpired, BufferDelete, BufferCopy, BufferMove, BufferPrepend, BufferAppend,
     BufferSetVisibility, BufferMakeDirectory, BufferDeleteDirectory
<1>4. Done(c) \/ Fail(c) \/ Swept(c) \/ \E pc \in Pcs : Goto(c, pc)
  BY DEF BufferStep, BufferPut, ServicePutTimed, ServicePutStream,
     ServiceDeleteExpired, BufferDelete, BufferCopy, BufferMove, BufferPrepend, BufferAppend,
     BufferSetVisibility, BufferMakeDirectory, BufferDeleteDirectory, Pcs
<1>5. QED
  BY <1>1, <1>2, <1>3, <1>4, StepTyped

LEMMA ReadOnlyTyped ==
    ASSUME Typed, NEW c \in Clients, ReadOnlyRefuses(c)
    PROVE  Typed'
<1>1. op[c] \in OpRecord
  BY BusyIsRecord DEF ReadOnlyRefuses, At, Pcs
<1>2. QED
  BY <1>1, FieldsTyped, StepTyped DEF ReadOnlyRefuses

LEMMA S3Typed ==
    ASSUME Typed, NEW c \in Clients, S3Step(c)
    PROVE  Typed'
<1>1. op[c] \in OpRecord
  BY BusyIsRecord DEF S3Step, S3Put, S3PutStream, S3PutTimed, S3SetVisibility, S3Delete, S3Copy, S3Move,
     S3MakeDirectory, S3Prepend, S3Append, S3ListDirectory, S3Sweep, S3DeleteExpired, S3End, S3Get,
     S3DeleteDirectory, S3Tags, S3, At, Pcs
<1>2. op[c].p \in Paths /\ op[c].q \in Paths /\ op[c].todo \in SUBSET Paths
  BY <1>1, FieldsTyped
<1>3. "none" \in Expiries /\ "fresh" \in Expiries
  BY DEF Expiries
<1>4. \A p \in Paths : exp[p] \in Expiries
  BY DEF Typed
<1>5. \A p \in Paths, e \in Expiries : exp' = [exp EXCEPT ![p] = e] => exp' \in [Paths -> Expiries]
  BY <1>1, FieldsTyped
<1>6. store' \in [Paths -> SUBSET File]
  BY <1>1, FieldsTyped, RemoveTyped DEF S3Step, S3Put, S3PutStream, S3PutTimed, S3SetVisibility, S3Delete, S3Copy,
     S3Move, S3MakeDirectory, S3Prepend, S3Append, S3ListDirectory, S3Sweep, S3DeleteExpired, S3End, S3Get,
     S3DeleteDirectory, S3Tags, PutObject, DeleteObject
<1>7. exp' \in [Paths -> Expiries] /\ hasDir' \in BOOLEAN
  BY <1>1, <1>2, <1>3, <1>4, <1>5, FieldsTyped DEF S3Step, S3Put, S3PutStream, S3PutTimed, S3SetVisibility, S3Delete,
     S3Copy, S3Move, S3MakeDirectory, S3Prepend, S3Append, S3ListDirectory, S3Sweep, S3DeleteExpired, S3End, S3Get,
     S3DeleteDirectory, S3Tags, PutObject, DeleteObject
<1>8. CASE \E fails \in BOOLEAN : S3Get(c, fails)
  <2>1. PICK fails \in BOOLEAN : S3Get(c, fails)
    BY <1>8
  <2>2. PICK b \in Bodies : b = IF fails THEN <<>> ELSE Content(op[c].p)
    <3>1. <<>> \in Bodies
      BY DEF Bodies
    <3>2. QED
      BY <1>2, <3>1, BodyOfFile
  <2>3. op' = [op EXCEPT ![c] = [op[c] EXCEPT !.pc = "put", !.read = b]]
    BY <2>1, <2>2 DEF S3Get
  <2>4. [op[c] EXCEPT !.pc = "put", !.read = b] \in OpRecord
    BY <1>1 DEF OpRecord, Pcs
  <2>5. op' \in [Clients -> {Idle} \cup OpRecord]
    BY <2>3, <2>4 DEF Typed
  <2>6. ghost' \in GhostType
    BY <2>1, UnsureTyped DEF S3Get, Typed, GhostType
  <2>7. QED
    BY <1>6, <1>7, <2>1, <2>5, <2>6 DEF S3Get, Typed, GhostType
<1>9. CASE S3DeleteExpired(c)
  <2>1. ghost' \in GhostType
    BY <1>2, <1>9, JudgeTyped DEF S3DeleteExpired
  <2>2. [op[c] EXCEPT !.pc = "tags"] \in OpRecord
    BY <1>1 DEF OpRecord, Pcs
  <2>3. op' \in [Clients -> {Idle} \cup OpRecord]
    BY <1>9, <2>2 DEF S3DeleteExpired, Typed
  <2>4. QED
    BY <1>6, <1>7, <1>9, <2>1, <2>3 DEF S3DeleteExpired, Typed, GhostType
<1>10. CASE \E page \in SUBSET Prefixed : S3ListDirectory(c, page)
  <2>1. PICK page \in SUBSET Prefixed : S3ListDirectory(c, page)
    BY <1>10
  <2>2. op' = [op EXCEPT ![c] = [op[c] EXCEPT !.pc = "delete", !.todo = page]]
    BY <2>1 DEF S3ListDirectory
  <2>3. [op[c] EXCEPT !.pc = "delete", !.todo = page] \in OpRecord
    BY <1>1, DiskAssumption DEF OpRecord, Pcs
  <2>4. QED
    BY <1>6, <1>7, <2>1, <2>2, <2>3, ChangedTyped DEF S3ListDirectory
<1>11. CASE /\ ~(\E fails \in BOOLEAN : S3Get(c, fails)) /\ ~S3DeleteExpired(c)
            /\ ~(\E page \in SUBSET Prefixed : S3ListDirectory(c, page))
  <2>1. S3Sweep(c) => \E o \in OpRecord : Keep(c, o)
    BY <1>1 DEF S3Sweep, S3Listed, OpRecord, Pcs
  <2>2. ASSUME NEW p \in Paths, S3DeleteDirectory(c, p) \/ S3Tags(c, p) PROVE \E o \in OpRecord : Keep(c, o)
    <3>1. CASE S3DeleteDirectory(c, p)
      BY <1>1, <3>1 DEF S3DeleteDirectory, OpRecord, Pcs
    <3>2. CASE S3Tags(c, p)
      BY <1>1, <3>2 DEF S3Tags, OpRecord, Pcs
    <3>3. QED
      BY <2>2, <3>1, <3>2
  <2>3. \/ Done(c) \/ Fail(c) \/ Swept(c)
        \/ \E pc \in Pcs : Goto(c, pc)
        \/ \E o \in OpRecord : Keep(c, o)
    BY <1>11, <2>1, <2>2 DEF S3Step, S3Put, S3PutStream, S3PutTimed, S3SetVisibility, S3Delete, S3Copy, S3Move,
       S3MakeDirectory, S3Prepend, S3Append, S3End, Pcs
  <2>4. QED
    BY <1>1, <1>6, <1>7, <2>3, StepTyped
<1>12. QED
  BY <1>8, <1>9, <1>10, <1>11

LEMMA DropboxTyped ==
    ASSUME Typed, NEW c \in Clients, DropboxStep(c)
    PROVE  Typed'
<1>1. op[c] \in OpRecord
  BY BusyIsRecord DEF DropboxStep, DropboxPut, DropboxPutStream, DropboxReadIndex, DropboxPutTimed, DropboxDelete,
     DropboxCopy, DropboxMove, DropboxMakeDirectory, DropboxDeleteDirectory, DropboxPrepend, DropboxAppend,
     DropboxNoVisibility, DropboxSweep, DropboxSweepEnd, DropboxGet, DropboxDeleteExpired, DropboxDeleteFails,
     DropboxTorn, Dropbox, At, Pcs
<1>2. op[c].p \in Paths /\ op[c].q \in Paths /\ op[c].todo \in SUBSET Paths /\ op[c].snap \in [Paths -> Expiries]
  BY <1>1, FieldsTyped
<1>3. Aged(op[c].snap) \in [Paths -> Expiries] /\ [Aged(op[c].snap) EXCEPT ![op[c].p] = "fresh"] \in [Paths -> Expiries]
  BY <1>2, AgedTyped DEF Expiries
<1>4. store' \in [Paths -> SUBSET File]
  BY <1>1, FieldsTyped, RemoveTyped DEF DropboxStep, DropboxPut, DropboxPutStream, DropboxReadIndex, DropboxPutTimed,
     DropboxDelete, DropboxCopy, DropboxMove, DropboxMakeDirectory, DropboxDeleteDirectory, DropboxPrepend,
     DropboxAppend, DropboxNoVisibility, DropboxSweep, DropboxSweepEnd, DropboxGet, DropboxDeleteExpired,
     DropboxDeleteFails, DropboxTorn, Torn
<1>5. exp' \in [Paths -> Expiries] /\ hasDir' \in BOOLEAN
  BY <1>1, <1>3, FieldsTyped, TornTyped DEF DropboxStep, DropboxPut, DropboxPutStream, DropboxReadIndex, DropboxPutTimed,
     DropboxDelete, DropboxCopy, DropboxMove, DropboxMakeDirectory, DropboxDeleteDirectory, DropboxPrepend,
     DropboxAppend, DropboxNoVisibility, DropboxSweep, DropboxSweepEnd, DropboxGet, DropboxDeleteExpired,
     DropboxDeleteFails, DropboxTorn, Torn
<1>6. CASE \E fails \in BOOLEAN : DropboxGet(c, fails)
  <2>1. PICK fails \in BOOLEAN : DropboxGet(c, fails)
    BY <1>6
  <2>2. PICK b \in Bodies : b = IF fails THEN <<>> ELSE Content(op[c].p)
    <3>1. <<>> \in Bodies
      BY DEF Bodies
    <3>2. QED
      BY <1>2, <3>1, BodyOfFile
  <2>3. op' = [op EXCEPT ![c] = [op[c] EXCEPT !.pc = "put", !.read = b]]
    BY <2>1, <2>2 DEF DropboxGet
  <2>4. [op[c] EXCEPT !.pc = "put", !.read = b] \in OpRecord
    BY <1>1 DEF OpRecord, Pcs
  <2>5. op' \in [Clients -> {Idle} \cup OpRecord]
    BY <2>3, <2>4 DEF Typed
  <2>6. ghost' \in GhostType
    BY <2>1, UnsureTyped DEF DropboxGet, Typed, GhostType
  <2>7. QED
    BY <1>4, <1>5, <2>1, <2>5, <2>6 DEF DropboxGet, Typed, GhostType
<1>7. CASE \E p \in Paths : DropboxDeleteExpired(c, p)
  <2>1. PICK p \in Paths : DropboxDeleteExpired(c, p)
    BY <1>7
  <2>2. ghost' \in GhostType
    BY <2>1, JudgeTyped DEF DropboxDeleteExpired
  <2>3. PICK snap \in [Paths -> Expiries] : snap = [op[c].snap EXCEPT ![p] = IF Has(p) THEN "none" ELSE @]
    BY <1>2 DEF Expiries
  <2>4. op' = [op EXCEPT ![c] = [op[c] EXCEPT !.todo = @ \ {p}, !.snap = snap]]
    BY <1>1, <2>1, <2>3 DEF DropboxDeleteExpired, OpRecord
  <2>5. [op[c] EXCEPT !.todo = @ \ {p}, !.snap = snap] \in OpRecord
    BY <1>1 DEF OpRecord
  <2>6. op' \in [Clients -> {Idle} \cup OpRecord]
    BY <2>4, <2>5 DEF Typed
  <2>7. QED
    BY <1>4, <1>5, <2>1, <2>2, <2>6 DEF DropboxDeleteExpired, Typed, GhostType
<1>8. CASE \E fails \in BOOLEAN : DropboxReadIndex(c, fails) \/ DropboxSweep(c, fails)
  <2>1. PICK fails \in BOOLEAN : DropboxReadIndex(c, fails) \/ DropboxSweep(c, fails)
    BY <1>8
  <2>2. PICK snap \in [Paths -> Expiries] : snap = IF fails THEN NoExpiry ELSE exp
    BY DEF NoExpiry, Expiries, Typed
  <2>3. CASE DropboxReadIndex(c, fails)
    <3>1. op' = [op EXCEPT ![c] = [op[c] EXCEPT !.pc = "write", !.snap = snap]]
      BY <2>2, <2>3 DEF DropboxReadIndex
    <3>2. [op[c] EXCEPT !.pc = "write", !.snap = snap] \in OpRecord
      BY <1>1 DEF OpRecord, Pcs
    <3>3. QED
      BY <1>4, <1>5, <2>3, <3>1, <3>2, ChangedTyped DEF DropboxReadIndex
  <2>4. CASE DropboxSweep(c, fails)
    <3>1. PICK todo \in SUBSET Paths : todo = IF fails THEN {} ELSE {p \in Paths : exp[p] = "expired"}
      OBVIOUS
    <3>2. op' = [op EXCEPT ![c] = [op[c] EXCEPT !.pc = "delete", !.snap = snap, !.todo = todo]]
      BY <2>2, <2>4, <3>1 DEF DropboxSweep
    <3>3. [op[c] EXCEPT !.pc = "delete", !.snap = snap, !.todo = todo] \in OpRecord
      BY <1>1 DEF OpRecord, Pcs
    <3>4. QED
      BY <1>4, <1>5, <2>4, <3>2, <3>3, ChangedTyped DEF DropboxSweep
  <2>5. QED
    BY <2>1, <2>3, <2>4
<1>9. CASE \E p \in Paths : DropboxDeleteFails(c, p)
  <2>1. PICK p \in Paths : DropboxDeleteFails(c, p)
    BY <1>9
  <2>2. op' = [op EXCEPT ![c] = [op[c] EXCEPT !.todo = @ \ {p}]]
    BY <2>1 DEF DropboxDeleteFails
  <2>3. [op[c] EXCEPT !.todo = @ \ {p}] \in OpRecord
    BY <1>1 DEF OpRecord
  <2>4. QED
    BY <1>4, <1>5, <2>1, <2>2, <2>3, ChangedTyped DEF DropboxDeleteFails
<1>10. CASE DropboxTorn(c)
  BY <1>4, <1>5, <1>10, ChangedTyped DEF DropboxTorn, Torn
<1>11. CASE \/ DropboxPut(c) \/ DropboxPutStream(c) \/ DropboxPutTimed(c) \/ DropboxDelete(c)
            \/ DropboxCopy(c) \/ DropboxMove(c) \/ DropboxMakeDirectory(c) \/ DropboxDeleteDirectory(c)
            \/ DropboxPrepend(c) \/ DropboxAppend(c) \/ DropboxNoVisibility(c) \/ DropboxSweepEnd(c)
  <2>1. Done(c) \/ Fail(c) \/ Swept(c) \/ \E pc \in Pcs : Goto(c, pc)
    BY <1>11 DEF DropboxPut, DropboxPutStream, DropboxPutTimed, DropboxDelete,
       DropboxCopy, DropboxMove, DropboxMakeDirectory, DropboxDeleteDirectory, DropboxPrepend, DropboxAppend,
       DropboxNoVisibility, DropboxSweepEnd, Pcs
  <2>2. QED
    BY <1>1, <1>4, <1>5, <2>1, StepTyped
<1>12. QED
  BY <1>6, <1>7, <1>8, <1>9, <1>10, <1>11 DEF DropboxStep

LEMMA DriveTyped ==
    ASSUME Typed, NEW c \in Clients, DriveStep(c)
    PROVE  Typed'
<1>1. op[c] \in OpRecord
  <2>1. ASSUME NEW id \in 0 .. MaxOps, DriveFind(c, id) \/ \E p \in Paths : DriveSweepFind(c, p, id)
        PROVE  op[c].pc \in Pcs
    BY <2>1 DEF DriveFind, DriveSweepFind, Drive, At, Pcs
  <2>2. op[c].pc \in Pcs
    BY <2>1 DEF DriveStep, DriveGet, DrivePut, DrivePutStream, DriveGetNothing, DriveDelete,
     DriveCopy, DriveMove, DriveMakeDirectory, DriveDeleteDirectory, DriveNoVisibility, DriveReadIndex, DrivePutTimed,
     DriveSweep, DriveDeleteExpired, DriveSweepEnd, DriveSweepFails, DriveTorn, Drive, At, Pcs
  <2>3. QED
    BY <2>2, BusyIsRecord
<1>2. /\ op[c].p \in Paths /\ op[c].q \in Paths /\ op[c].n \in Chunk /\ op[c].read \in Bodies
      /\ op[c].todo \in SUBSET Paths /\ op[c].snap \in [Paths -> Expiries]
  BY <1>1, FieldsTyped
<1>3. Name(c) \in Paths /\ (\A p \in Paths : Base[p] \in Paths)
  BY <1>2, DiskAssumption DEF Name
<1>4. Aged(op[c].snap) \in [Paths -> Expiries] /\ [Aged(op[c].snap) EXCEPT ![op[c].p] = "fresh"] \in [Paths -> Expiries]
  BY <1>2, AgedTyped DEF Expiries
<1>5. op[c].n \in Nat /\ op[c].id \in Nat
  BY <1>1, <1>2, DiskAssumption DEF Chunk, OpRecord
<1>6. \A name \in Paths, id \in Nat : FilesOf(name, id) \in SUBSET File
  BY DEF FilesOf, Typed
<1>7. DriveBody(op[c]) \in Bodies /\ <<op[c].n>> \in Bodies
  BY <1>1, <1>2, WholeIsBody, WrittenIsBody DEF DriveBody
<1>8. store' \in [Paths -> SUBSET File]
  <2>1. \A name \in Paths, fs \in SUBSET File : [store EXCEPT ![name] = fs] \in [Paths -> SUBSET File]
    BY DEF Typed
  <2>2. \A name \in Paths, b \in Bodies :
            (store[name] \ FilesOf(name, op[c].id))
               \cup {[id |-> IF op[c].id = NoId THEN op[c].n ELSE op[c].id, body |-> b]} \in SUBSET File
    BY <1>5 DEF Typed, File
  <2>3. \A name \in Paths : store[name] \ FilesOf(name, op[c].id) \in SUBSET File
    BY DEF Typed
  <2>4. CASE DrivePut(c)
    <3>1. PICK b \in Bodies : b = DriveBody(op[c])
      BY <1>7
    <3>2. (store[Name(c)] \ FilesOf(Name(c), op[c].id))
             \cup {[id |-> IF op[c].id = NoId THEN op[c].n ELSE op[c].id, body |-> b]} \in SUBSET File
      BY <1>3, <2>2
    <3>3. UNCHANGED store \/ store' = [store EXCEPT ![Name(c)] = (store[Name(c)] \ FilesOf(Name(c), op[c].id))
             \cup {[id |-> IF op[c].id = NoId THEN op[c].n ELSE op[c].id, body |-> b]}]
      BY <2>4, <3>1 DEF DrivePut
    <3>4. QED
      BY <1>3, <2>1, <3>2, <3>3 DEF Typed
  <2>5. CASE DrivePutStream(c)
    BY <1>3, <1>7, <2>1, <2>2, <2>5 DEF DrivePutStream, Typed
  <2>6. CASE DriveDelete(c)
    BY <1>3, <2>1, <2>3, <2>6 DEF DriveDelete
  <2>7. CASE DriveDeleteExpired(c)
    BY <1>2, <1>3, <2>1, <2>3, <2>7 DEF DriveDeleteExpired
  <2>8. CASE DriveCopy(c)
    <3>1. FilesOf(Name(c), op[c].id) \in SUBSET File
      BY <1>3, <1>5, <1>6
    <3>2. {[f EXCEPT !.id = op[c].n] : f \in FilesOf(Name(c), op[c].id)} \in SUBSET File
      BY <1>5, <3>1 DEF File
    <3>3. store[Base[op[c].q]] \cup {[f EXCEPT !.id = op[c].n] : f \in FilesOf(Name(c), op[c].id)} \in SUBSET File
      BY <1>2, <1>3, <3>2 DEF Typed
    <3>4. QED
      BY <1>2, <1>3, <2>1, <2>8, <3>3 DEF DriveCopy, Typed
  <2>9. CASE DriveMove(c)
    <3>1. FilesOf(Name(c), op[c].id) \in SUBSET File
      BY <1>3, <1>5, <1>6
    <3>2. QED
      BY <2>9, <3>1 DEF DriveMove, Typed
  <2>10. CASE UNCHANGED store
    BY <2>10 DEF Typed
  <2>11. QED
    BY <2>4, <2>5, <2>6, <2>7, <2>8, <2>9, <2>10 DEF DriveStep, DriveFind, DriveSweepFind, DriveGet, DriveGetNothing,
       DriveMakeDirectory, DriveDeleteDirectory, DriveNoVisibility, DriveReadIndex, DrivePutTimed, DriveSweep,
       DriveSweepEnd, DriveSweepFails, DriveTorn, Torn
<1>9. exp' \in [Paths -> Expiries] /\ hasDir' \in BOOLEAN
  BY <1>1, <1>4, FieldsTyped, TornTyped DEF DriveStep, DriveFind, DriveSweepFind, DriveGet, DrivePut, DrivePutStream,
     DriveGetNothing, DriveDelete, DriveCopy, DriveMove, DriveMakeDirectory, DriveDeleteDirectory, DriveNoVisibility,
     DriveReadIndex, DrivePutTimed, DriveSweep, DriveDeleteExpired, DriveSweepEnd, DriveSweepFails, DriveTorn, Torn
<1>10. CASE \E fails \in BOOLEAN : DriveGet(c, fails)
  <2>1. PICK fails \in BOOLEAN : DriveGet(c, fails)
    BY <1>10
  <2>2. PICK f \in store[Name(c)] :
            op' = [op EXCEPT ![c] = [op[c] EXCEPT !.pc = "find", !.read = IF fails THEN <<>> ELSE f.body]]
    BY <2>1 DEF DriveGet
  <2>3. f.body \in Bodies
    BY <1>3 DEF Typed, File
  <2>4. PICK b \in Bodies : b = IF fails THEN <<>> ELSE f.body
    <3>1. <<>> \in Bodies
      BY DEF Bodies
    <3>2. QED
      BY <2>3, <3>1
  <2>5. [op[c] EXCEPT !.pc = "find", !.read = b] \in OpRecord
    BY <1>1 DEF OpRecord, Pcs
  <2>6. op' \in [Clients -> {Idle} \cup OpRecord]
    BY <2>2, <2>4, <2>5 DEF Typed
  <2>7. ghost' \in GhostType
    BY <2>1, UnsureTyped DEF DriveGet, Typed, GhostType
  <2>8. QED
    BY <1>8, <1>9, <2>1, <2>6, <2>7 DEF DriveGet, Typed, GhostType
<1>11. CASE DriveDeleteExpired(c)
  <2>1. ghost' \in GhostType
    BY <1>2, <1>11, JudgeTyped DEF DriveDeleteExpired
  <2>2. PICK snap \in [Paths -> Expiries] : snap = [op[c].snap EXCEPT ![op[c].p] = "none"]
    BY <1>2 DEF Expiries
  <2>3. op' = [op EXCEPT ![c] = [op[c] EXCEPT !.pc = "look", !.snap = snap]]
    BY <1>1, <1>11, <2>2 DEF DriveDeleteExpired, OpRecord
  <2>4. [op[c] EXCEPT !.pc = "look", !.snap = snap] \in OpRecord
    BY <1>1 DEF OpRecord, Pcs
  <2>5. op' \in [Clients -> {Idle} \cup OpRecord]
    BY <2>3, <2>4 DEF Typed
  <2>6. QED
    BY <1>8, <1>9, <1>11, <2>1, <2>5 DEF DriveDeleteExpired, Typed, GhostType
<1>12. CASE \E fails \in BOOLEAN : DriveReadIndex(c, fails) \/ DriveSweep(c, fails)
  <2>1. PICK fails \in BOOLEAN : DriveReadIndex(c, fails) \/ DriveSweep(c, fails)
    BY <1>12
  <2>2. PICK snap \in [Paths -> Expiries] : snap = IF fails THEN NoExpiry ELSE exp
    BY DEF NoExpiry, Expiries, Typed
  <2>3. CASE DriveReadIndex(c, fails)
    <3>1. op' = [op EXCEPT ![c] = [op[c] EXCEPT !.pc = "write", !.snap = snap]]
      BY <2>2, <2>3 DEF DriveReadIndex
    <3>2. [op[c] EXCEPT !.pc = "write", !.snap = snap] \in OpRecord
      BY <1>1 DEF OpRecord, Pcs
    <3>3. QED
      BY <1>8, <1>9, <2>3, <3>1, <3>2, ChangedTyped DEF DriveReadIndex
  <2>4. CASE DriveSweep(c, fails)
    <3>1. PICK todo \in SUBSET Paths : todo = IF fails THEN {} ELSE {p \in Paths : exp[p] = "expired"}
      OBVIOUS
    <3>2. op' = [op EXCEPT ![c] = [op[c] EXCEPT !.pc = "look", !.snap = snap, !.todo = todo]]
      BY <2>2, <2>4, <3>1 DEF DriveSweep
    <3>3. [op[c] EXCEPT !.pc = "look", !.snap = snap, !.todo = todo] \in OpRecord
      BY <1>1 DEF OpRecord, Pcs
    <3>4. QED
      BY <1>8, <1>9, <2>4, <3>2, <3>3, ChangedTyped DEF DriveSweep
  <2>5. QED
    BY <2>1, <2>3, <2>4
<1>13. CASE \E p \in Paths : DriveSweepFails(c, p)
  <2>1. PICK p \in Paths : DriveSweepFails(c, p)
    BY <1>13
  <2>2. op' = [op EXCEPT ![c] = [op[c] EXCEPT !.pc = "look", !.todo = @ \ {p}]]
    BY <2>1 DEF DriveSweepFails
  <2>3. [op[c] EXCEPT !.pc = "look", !.todo = @ \ {p}] \in OpRecord
    BY <1>1 DEF OpRecord, Pcs
  <2>4. QED
    BY <1>8, <1>9, <2>1, <2>2, <2>3, ChangedTyped DEF DriveSweepFails
<1>14. CASE DriveTorn(c)
  BY <1>8, <1>9, <1>14, ChangedTyped DEF DriveTorn, Torn
<1>15. CASE /\ ~(\E fails \in BOOLEAN : DriveGet(c, fails) \/ DriveReadIndex(c, fails) \/ DriveSweep(c, fails))
            /\ ~DriveDeleteExpired(c) /\ ~(\E p \in Paths : DriveSweepFails(c, p)) /\ ~DriveTorn(c)
  <2>1. ASSUME NEW id \in 0 .. MaxOps, DriveFind(c, id) PROVE \E o \in OpRecord : Keep(c, o)
    <3>1. id \in Nat
      BY DiskAssumption
    <3>2. [op[c] EXCEPT !.pc = "found", !.id = id] \in OpRecord
      BY <1>1, <3>1 DEF OpRecord, Pcs
    <3>3. QED
      BY <2>1, <3>2 DEF DriveFind
  <2>2. ASSUME NEW id \in 0 .. MaxOps, NEW p \in Paths, DriveSweepFind(c, p, id) PROVE \E o \in OpRecord : Keep(c, o)
    <3>1. id \in Nat
      BY DiskAssumption
    <3>2. [op[c] EXCEPT !.pc = "delete", !.p = p, !.id = id, !.todo = @ \ {p}] \in OpRecord
      BY <1>1, <3>1 DEF OpRecord, Pcs
    <3>3. QED
      BY <2>2, <3>2 DEF DriveSweepFind
  <2>3. \/ Done(c) \/ Fail(c) \/ Swept(c)
        \/ \E pc \in Pcs : Goto(c, pc)
        \/ \E o \in OpRecord : Keep(c, o)
    BY <1>15, <2>1, <2>2 DEF DriveStep, DrivePut, DrivePutStream, DriveGetNothing, DriveDelete, DriveCopy,
       DriveMove, DriveMakeDirectory, DriveDeleteDirectory, DriveNoVisibility, DrivePutTimed, DriveSweepEnd, Pcs
  <2>4. QED
    BY <1>1, <1>8, <1>9, <2>3, StepTyped
<1>16. QED
  BY <1>10, <1>11, <1>12, <1>13, <1>14, <1>15

LEMMA StaysTyped == Typed /\ [Next]_diskVars => Typed'
<1> SUFFICES ASSUME Typed, [Next]_diskVars PROVE Typed'
  OBVIOUS
<1>1. ASSUME NEW c \in Clients, NEW k \in Kinds, NEW a \in Args(k), Call(c, k, a) PROVE Typed'
  <2>1. a[1] \in Paths /\ a[2] \in Paths
    BY ArgsArePaths
  <2>2. ops + 1 \in Chunk /\ ops + 1 \in 0 .. MaxOps
    BY <1>1, DiskAssumption DEF Call, Typed, Chunk
  <2>3. PICK n \in Chunk : n = ops + 1 /\ ops' = n
    BY <1>1, <2>2 DEF Call
  <2>4. PICK owed \in SUBSET Paths :
            owed = IF k = "deleteExpired" THEN {p \in Paths : ghost.due[p] = "expired"} ELSE {}
    OBVIOUS
  <2>5. NoExpiry \in [Paths -> Expiries] /\ <<>> \in Bodies
    BY DEF NoExpiry, Expiries, Bodies
  <2>6. [pc |-> "start", kind |-> k, p |-> a[1], q |-> a[2], n |-> n, read |-> <<>>, id |-> 0, todo |-> {},
         snap |-> NoExpiry, owed |-> owed] \in OpRecord
    BY <2>1, <2>3, <2>4, <2>5 DEF OpRecord, Pcs
  <2>7. op' = [op EXCEPT ![c] =
            [pc |-> "start", kind |-> k, p |-> a[1], q |-> a[2], n |-> n, read |-> <<>>, id |-> 0, todo |-> {},
             snap |-> NoExpiry, owed |-> owed]]
    BY <1>1, <2>3, <2>4 DEF Call
  <2>8. op' \in [Clients -> {Idle} \cup OpRecord]
    BY <2>6, <2>7 DEF Typed
  <2>9. ghost' \in GhostType
    BY <1>1, UnsureTyped DEF Call, Typed, GhostType
  <2>10. QED
    BY <1>1, <2>2, <2>8, <2>9 DEF Call, Typed, GhostType
<1>2. ASSUME NEW c \in Clients, Fault(c) PROVE Typed'
  <2>1. ghost' \in GhostType
    BY <1>2, UnsureTyped DEF Fault, Typed, GhostType
  <2>2. QED
    BY <1>2, <2>1 DEF Fault, Typed, GhostType
<1>3. ASSUME NEW p \in Paths, Expire(p) PROVE Typed'
  <2>1. ghost' \in GhostType
    BY <1>3 DEF Expire, Typed, GhostType, Dues, Expiries
  <2>2. exp' \in [Paths -> Expiries]
    BY <1>3 DEF Expire, Typed, Expiries
  <2>3. QED
    BY <1>3, <2>1, <2>2 DEF Expire, Typed, GhostType
<1>4. CASE UNCHANGED diskVars
  BY <1>4 DEF diskVars, Typed
<1>5. QED
  BY <1>1, <1>2, <1>3, <1>4, LocalTyped, BufferTyped, ReadOnlyTyped, S3Typed, DropboxTyped, DriveTyped DEF Next

\* Types: the variables of a disk keep their shape, whichever driver it has.
THEOREM TypeCorrect == Spec => []Typed
<1>1. DiskInit => Typed
  <2> SUFFICES ASSUME DiskInit PROVE Typed
    OBVIOUS
  <2>1. ghost \in GhostType
    BY DEF DiskInit, Ghost, Empty, NoExpiry, GhostType, Dues, Expiries
  <2>2. QED
    <3>1. NoExpiry \in [Paths -> Expiries] /\ 0 \in 0 .. MaxOps
      BY DiskAssumption DEF NoExpiry, Expiries
    <3>2. QED
      BY <2>1, <3>1 DEF DiskInit, Typed, GhostType
<1>2. QED
  BY <1>1, StaysTyped, PTL DEF Spec

-------------------------------------------------------------------------------
(* The contents, and what a request makes of them *)

LEMMA ContentsFacts ==
    ASSUME Typed
    PROVE  /\ Contents \in [Paths -> Bodies \cup {Missing}]
           /\ \A p \in Paths :
                 /\ Contents[p] = Missing <=> ~Has(p)
                 /\ Has(p) => Contents[p] = Body(p)
                 /\ Content(p) = IF Contents[p] = Missing THEN <<>> ELSE Contents[p]
<1>1. \A p \in Paths : Has(p) => Body(p) \in Bodies
  BY BodyOfFile
<1>2. QED
  BY <1>1, MissingIsNoBody DEF Contents, Content

LEMMA FileContents ==
    ASSUME Typed, NEW p \in Paths, NEW i, NEW b, store' = [store EXCEPT ![p] = {[id |-> i, body |-> b]}]
    PROVE  Contents' = [Contents EXCEPT ![p] = b]
<1>1. \A x \in Paths : store'[x] = IF x = p THEN {[id |-> i, body |-> b]} ELSE store[x]
  BY DEF Typed
<1>2. Has(p)' /\ Body(p)' = b
  <2>1. store'[p] = {[id |-> i, body |-> b]}
    BY <1>1
  <2>2. (CHOOSE f \in store'[p] : TRUE) = [id |-> i, body |-> b]
    BY <2>1
  <2>3. QED
    BY <2>1, <2>2 DEF Has, Body
<1>3. \A x \in Paths : x # p => (Has(x)' <=> Has(x)) /\ Body(x)' = Body(x)
  BY <1>1 DEF Has, Body
<1>4. QED
  BY <1>2, <1>3 DEF Contents

LEMMA StoreContents ==
    ASSUME Typed, NEW p \in Paths, NEW b, Store(p, b)
    PROVE  Contents' = [Contents EXCEPT ![p] = b]
  BY FileContents DEF Store

LEMMA RemoveContents ==
    ASSUME Typed, NEW ps, Remove(ps)
    PROVE  Contents' = [p \in Paths |-> IF p \in ps THEN Missing ELSE Contents[p]]
<1>1. \A x \in Paths : store'[x] = IF x \in ps THEN {} ELSE store[x]
  BY DEF Remove
<1>2. \A x \in Paths : x \in ps => ~Has(x)'
  BY <1>1 DEF Has
<1>3. \A x \in Paths : x \notin ps => (Has(x)' <=> Has(x)) /\ Body(x)' = Body(x)
  BY <1>1 DEF Has, Body
<1>4. QED
  BY <1>2, <1>3 DEF Contents

LEMMA MoveContents ==
    ASSUME Typed, NEW p \in Paths, NEW q \in Paths, store' = [store EXCEPT ![p] = {}, ![q] = store[p]]
    PROVE  Contents' = [Contents EXCEPT ![p] = Missing, ![q] = Contents[p]]
<1>1. \A x \in Paths : store'[x] = IF x = q THEN store[p] ELSE IF x = p THEN {} ELSE store[x]
  BY DEF Typed
<1>2. (Has(q)' <=> Has(p)) /\ Body(q)' = Body(p)
  BY <1>1 DEF Has, Body
<1>3. \A x \in Paths : x # q /\ x = p => ~Has(x)'
  BY <1>1 DEF Has
<1>4. \A x \in Paths : x # q /\ x # p => (Has(x)' <=> Has(x)) /\ Body(x)' = Body(x)
  BY <1>1 DEF Has, Body
<1>5. QED
  BY <1>2, <1>3, <1>4 DEF Contents

LEMMA SameContents ==
    ASSUME UNCHANGED store
    PROVE  UNCHANGED Contents /\ \A p \in Paths : Has(p)' <=> Has(p)
  BY DEF Contents, Has, Body

-------------------------------------------------------------------------------
(* Each step of a call is an operation of the abstract disk *)

\* The paths a deleteDirectory has listed are those of the directory's name.
ListedIsPrefixed ==
    \A c \in Clients : op[c] # Idle /\ op[c].kind = "deleteDirectory" /\ op[c].pc = "delete" => op[c].todo \subseteq Prefixed

\* The operations that the requests of a call make of the abstract disk.
LEMMA Operations ==
    ASSUME Typed, NEW c \in Clients, op[c] \in OpRecord
    PROVE  /\ op[c].kind \in {"put", "putStream", "putTimed"} /\ Store(op[c].p, <<op[c].n>>) => D!Next /\ Asked(op[c])
           /\ op[c].kind = "append" /\ Store(op[c].p, Append(Content(op[c].p), op[c].n)) => D!Next /\ Asked(op[c])
           /\ op[c].kind = "prepend" /\ Store(op[c].p, <<op[c].n>> \o Content(op[c].p)) => D!Next /\ Asked(op[c])
           /\ op[c].kind = "delete" /\ Remove({op[c].p}) => D!Next /\ Asked(op[c])
           /\ op[c].kind \in {"copy", "move"} /\ Has(op[c].p) /\ Store(op[c].q, Body(op[c].p)) => D!Next /\ Asked(op[c])
           /\ op[c].kind = "move" /\ Remove({op[c].p}) => D!Next /\ Asked(op[c])
           /\ op[c].kind = "move" /\ Has(op[c].p)
                 /\ store' = [store EXCEPT ![op[c].p] = {}, ![op[c].q] = store[op[c].p]] => D!Next /\ Asked(op[c])
           /\ \A ps \in SUBSET Prefixed : op[c].kind = "deleteDirectory" /\ Remove(ps) => D!Next /\ Asked(op[c])
           /\ \A p \in Paths : op[c].kind = "deleteExpired" /\ Remove({p}) => D!Next /\ Asked(op[c])
<1> DEFINE p == op[c].p  q == op[c].q  n == op[c].n
<1>1. p \in Paths /\ q \in Paths /\ n \in 1 .. MaxOps
  BY DEF OpRecord, Chunk
<1>2. /\ Contents[p] = Missing <=> ~Has(p)
      /\ Has(p) => Contents[p] = Body(p)
      /\ Content(p) = IF Contents[p] = Missing THEN <<>> ELSE Contents[p]
  BY <1>1, ContentsFacts
<1>3. D!Content(p) = Content(p) /\ (D!Present(p) <=> Has(p))
  BY <1>2 DEF D!Content, D!Present, D!Missing, Missing
<1>4. \A b : Store(p, b) => Contents' = [Contents EXCEPT ![p] = b]
  BY <1>1, StoreContents
<1>5. Has(p) /\ Store(q, Body(p)) => D!Copy(p, q)
  BY <1>1, <1>2, <1>3, StoreContents DEF D!Copy
<1>6. \A ps : Remove(ps) => D!Remove(ps)
  BY RemoveContents DEF D!Remove, D!Missing, Missing
<1>7. Has(p) /\ store' = [store EXCEPT ![p] = {}, ![q] = store[p]] => D!Move(p, q)
  BY <1>1, <1>3, MoveContents DEF D!Move, D!Missing, Missing
<1>8. /\ Store(p, <<n>>) => D!Put(p, n)
      /\ Store(p, Append(Content(p), n)) => D!AppendTo(p, n)
      /\ Store(p, <<n>> \o Content(p)) => D!PrependTo(p, n)
  BY <1>3, <1>4 DEF D!Put, D!AppendTo, D!PrependTo
<1>9. /\ D!Put(p, n) \/ D!AppendTo(p, n) \/ D!PrependTo(p, n) => D!Next
      /\ D!Copy(p, q) \/ D!Move(p, q) => D!Next
      /\ \A ps \in SUBSET Paths : D!Remove(ps) => D!Next
  BY <1>1 DEF D!Next
<1> HIDE DEF p, q, n
<1>10. /\ op[c].kind \in {"put", "putStream", "putTimed"} => (Asked(op[c]) <=> D!Put(p, n))
       /\ op[c].kind = "append" => (Asked(op[c]) <=> D!AppendTo(p, n))
       /\ op[c].kind = "prepend" => (Asked(op[c]) <=> D!PrependTo(p, n))
       /\ op[c].kind = "copy" => (D!Copy(p, q) => Asked(op[c]))
       /\ op[c].kind = "move" => (Asked(op[c]) <=> D!Move(p, q) \/ D!Copy(p, q) \/ D!Remove({p}))
       /\ op[c].kind = "delete" => (Asked(op[c]) <=> D!Remove({p}))
       /\ op[c].kind = "deleteDirectory" => (Asked(op[c]) <=> \E ps \in SUBSET Prefixed : D!Remove(ps))
       /\ op[c].kind = "deleteExpired" => (Asked(op[c]) <=> \E x \in Paths : D!Remove({x}))
  BY DEF Asked, p, q, n
<1>11. SUBSET Prefixed \subseteq SUBSET Paths
  BY DiskAssumption
<1>12. \A x \in Paths : {x} \in SUBSET Paths
  OBVIOUS
<1>13. /\ op[c].kind \in {"put", "putStream", "putTimed"} /\ Store(p, <<n>>) => D!Next /\ Asked(op[c])
       /\ op[c].kind = "append" /\ Store(p, Append(Content(p), n)) => D!Next /\ Asked(op[c])
       /\ op[c].kind = "prepend" /\ Store(p, <<n>> \o Content(p)) => D!Next /\ Asked(op[c])
       /\ op[c].kind = "delete" /\ Remove({p}) => D!Next /\ Asked(op[c])
       /\ op[c].kind \in {"copy", "move"} /\ Has(p) /\ Store(q, Body(p)) => D!Next /\ Asked(op[c])
       /\ op[c].kind = "move" /\ Remove({p}) => D!Next /\ Asked(op[c])
       /\ op[c].kind = "move" /\ Has(p) /\ store' = [store EXCEPT ![p] = {}, ![q] = store[p]] => D!Next /\ Asked(op[c])
  BY <1>1, <1>5, <1>6, <1>7, <1>8, <1>9, <1>10, <1>12
<1>14. \A ps \in SUBSET Prefixed : op[c].kind = "deleteDirectory" /\ Remove(ps) => D!Next /\ Asked(op[c])
  BY <1>6, <1>9, <1>10, <1>11
<1>15. \A x \in Paths : op[c].kind = "deleteExpired" /\ Remove({x}) => D!Next /\ Asked(op[c])
  BY <1>6, <1>9, <1>10, <1>12
<1>16. QED
  BY <1>13, <1>14, <1>15 DEF p, q, n

\* A call that ends or goes to another step has changed.
LEMMA CallMoves ==
    ASSUME Typed, NEW c \in Clients, op[c] \in OpRecord
    PROVE  /\ Done(c) => op'[c] = Idle /\ op'[c] # op[c]
           /\ \A pc : Goto(c, pc) /\ pc # op[c].pc => op'[c] # op[c]
<1>1. op[c] # Idle
  BY IdleIsNoRecord
<1>2. Done(c) => op'[c] = Idle
  BY DEF Done, Typed
<1>3. \A pc : Goto(c, pc) => op'[c] = [op[c] EXCEPT !.pc = pc]
  BY DEF Goto, Typed
<1>4. \A pc : [op[c] EXCEPT !.pc = pc].pc = pc
  BY DEF OpRecord
<1>5. QED
  BY <1>1, <1>2, <1>3, <1>4

Refines(c) ==
    \/ UNCHANGED Contents \/ Emptied
    \/ /\ op[c] # Idle /\ op'[c] # op[c]
       /\ \/ D!Next /\ Asked(op[c])
          \/ Begins(op[c])
          \/ \E x \in Paths : Raced(op[c], x) /\ Rewrites(op[c], x)

\* The write of a prepend or append, raced or not.
LEMMA RereadRefines ==
    ASSUME Typed, NEW c \in Clients, op[c] \in OpRecord, op'[c] # op[c],
           \/ op[c].kind = "prepend" /\ Contents' = [Contents EXCEPT ![op[c].p] = <<op[c].n>> \o Existing(op[c])]
           \/ /\ op[c].kind = "append" /\ driver # "local"
              /\ Contents' = [Contents EXCEPT ![op[c].p] = Append(Existing(op[c]), op[c].n)]
    PROVE  Refines(c)
<1> DEFINE o == op[c]
<1>1. o # Idle /\ o.p \in Paths /\ o.n \in 1 .. MaxOps
  BY IdleIsNoRecord DEF OpRecord, Chunk
<1>2. CASE Existing(o) # Contents[o.p]
  <2>1. Raced(o, o.p)
    BY <1>2 DEF Raced, Target
  <2>2. Whole(o) \in Written(o)
    BY DEF Written
  <2>3. Rewrites(o, o.p)
    BY <2>2 DEF Rewrites, Whole
  <2>4. QED
    BY <1>1, <2>1, <2>3 DEF Refines
<1>3. CASE Existing(o) = Contents[o.p]
  <2>1. D!Content(o.p) = Existing(o)
    BY <1>3, MissingIsNoBody, WholeIsBody DEF D!Content, D!Present, D!Missing, Missing
  <2>2. (o.kind = "prepend" => D!PrependTo(o.p, o.n)) /\ (o.kind = "append" => D!AppendTo(o.p, o.n))
    BY <2>1 DEF D!PrependTo, D!AppendTo
  <2>3. D!Next
    BY <1>1, <2>2 DEF D!Next
  <2>4. Asked(o)
    BY <2>2 DEF Asked
  <2>5. QED
    BY <1>1, <2>3, <2>4 DEF Refines
<1>4. QED
  BY <1>2, <1>3

\* On a local disk a path has one file, no other path has it, and a call that
\* has opened nothing has created nothing.
Numbered ==
    \A c \in Clients : op[c] # Idle =>
        op[c].n <= ops /\ \A d \in Clients : op[d] # Idle /\ op[d].n = op[c].n => d = c

Inodes ==
    driver = "local" =>
        /\ \A x \in Paths : \A f, g \in store[x] : f = g
        /\ \A x, y \in Paths : \A f \in store[x], g \in store[y] : f.id = g.id => x = y
        /\ \A x \in Paths : \A f \in store[x] :
              f.id <= ops /\ \A c \in Clients : op[c] # Idle /\ op[c].pc \in {"start", "open"} => f.id # op[c].n

\* What the write of a call makes of the content of the file it opened.
Filled(o, f, b) == IF o.kind = "append" THEN Append(f.body, o.n) ELSE b

LEMMA WriteContents ==
    ASSUME Typed, Inodes, driver = "local", NEW c \in Clients, op[c] \in OpRecord, NEW b,
           store' = [x \in Paths |->
               {IF f.id # op[c].id THEN f ELSE [f EXCEPT !.body = IF op[c].kind = "append" THEN Append(@, op[c].n) ELSE b]
                   : f \in store[x]}]
    PROVE  \/ (\A x \in Paths : \A f \in store[x] : f.id # op[c].id) /\ UNCHANGED store
           \/ \E x \in Paths : \E f \in store[x] :
                 /\ f.id = op[c].id /\ store[x] = {f} /\ Content(x) = f.body /\ Contents[x] = f.body
                 /\ store' = [store EXCEPT ![x] = {[id |-> f.id, body |-> Filled(op[c], f, b)]}]
                 /\ Contents' = [Contents EXCEPT ![x] = Filled(op[c], f, b)]
<1> DEFINE o == op[c]
           g(f) == IF f.id # o.id THEN f ELSE [f EXCEPT !.body = IF o.kind = "append" THEN Append(@, o.n) ELSE b]
<1>1. \A x \in Paths : store[x] \subseteq File /\ store'[x] = {g(f) : f \in store[x]}
  BY DEF Typed
<1>2. CASE \A x \in Paths : \A f \in store[x] : f.id # o.id
  <2>1. \A x \in Paths : store'[x] = store[x]
    BY <1>1, <1>2
  <2>2. store' = store
    BY <2>1 DEF Typed
  <2>3. QED
    BY <1>2, <2>2
<1>3. CASE \E x \in Paths : \E f \in store[x] : f.id = o.id
  <2>1. PICK x \in Paths : \E f \in store[x] : f.id = o.id
    BY <1>3
  <2>2. PICK f \in store[x] : f.id = o.id
    BY <2>1
  <2>3. store[x] = {f} /\ (\A y \in Paths : y # x => \A h \in store[y] : h.id # o.id)
    BY <2>2 DEF Inodes
  <2>4. (CHOOSE h \in store[x] : TRUE) = f /\ Has(x)
    BY <2>3 DEF Has
  <2>5. Content(x) = f.body /\ Contents[x] = f.body
    BY <2>4 DEF Content, Contents, Body
  <2>6. g(f) = [id |-> f.id, body |-> Filled(o, f, b)]
    <3>1. f \in File
      BY <1>1, <2>2
    <3>2. g(f) = [f EXCEPT !.body = Filled(o, f, b)]
      BY <2>2, <3>1 DEF Filled, File
    <3>3. QED
      BY <3>1, <3>2 DEF File
  <2> HIDE DEF g
  <2>7. store'[x] = {g(f)}
    BY <1>1, <2>3
  <2>8. \A y \in Paths : y # x => store'[y] = store[y]
    <3>1. ASSUME NEW y \in Paths, y # x PROVE {g(h) : h \in store[y]} = store[y]
      <4>1. \A h \in store[y] : g(h) = h
        BY <2>3, <3>1 DEF g
      <4>2. QED
        BY <4>1
    <3>2. QED
      BY <1>1, <3>1
  <2>9. store' = [store EXCEPT ![x] = {[id |-> f.id, body |-> Filled(o, f, b)]}]
    BY <2>6, <2>7, <2>8 DEF Typed
  <2>10. Contents' = [Contents EXCEPT ![x] = Filled(o, f, b)]
    BY <2>9, FileContents
  <2>11. QED
    BY <2>1, <2>2, <2>3, <2>5, <2>9, <2>10
<1>4. QED
  BY <1>2, <1>3

LEMMA LocalOpenRefines ==
    ASSUME Typed, NEW c \in Clients, op[c] \in OpRecord, NEW k \in 0 .. MaxOps, LocalOpen(c, k)
    PROVE  Refines(c)
<1> DEFINE o == op[c]
           t == Target(op[c])
<1>1. CASE ~DirThere(t) \/ ToItself(o)
  <2>1. UNCHANGED store
    BY <1>1 DEF LocalOpen
  <2>2. QED
    BY <2>1, SameContents DEF Refines
<1>2. CASE DirThere(t) /\ ~ToItself(o)
  <2>1. PICK b : b = IF o.kind = "append" THEN Content(t) ELSE SubSeq(Whole(o), 1, k)
    OBVIOUS
  <2>2. store' = [store EXCEPT ![t] = {[id |-> Opened(o), body |-> b]}] /\ t \in Paths
    BY <1>2, <2>1, WholeIsBody DEF LocalOpen
  <2>3. Contents' = [Contents EXCEPT ![t] = b]
    BY <2>2, FileContents
  <2>4. driver = "local" /\ o.pc \in {"start", "open"}
    BY DEF LocalOpen, Local, At
  <2>5. b \in {SubSeq(Whole(o), 1, i) : i \in 0 .. Len(Whole(o))} \cup {Content(t)}
    <3>1. k \in 0 .. Len(Whole(o)) \/ o.kind = "append"
      <4>1. Len(Whole(o)) \in Nat
        BY WholeIsBody DEF Bodies
      <4>2. QED
        BY <4>1 DEF LocalOpen
    <3>2. QED
      BY <2>1, <3>1
  <2>6. Begins(o)
    BY <2>3, <2>4, <2>5 DEF Begins
  <2>7. op'[c] # op[c]
    <3>1. Keep(c, [o EXCEPT !.pc = "fill", !.id = Opened(o)])
      BY <1>2 DEF LocalOpen
    <3>2. op'[c].pc = "fill"
      BY <3>1 DEF Keep, Typed, OpRecord
    <3>3. QED
      BY <2>4, <3>2
  <2>8. QED
    BY <2>6, <2>7, IdleIsNoRecord DEF Refines
<1>3. QED
  BY <1>1, <1>2

LEMMA LocalWriteRefines ==
    ASSUME Typed, Inodes, NEW c \in Clients, op[c] \in OpRecord, LocalWrite(c)
    PROVE  Refines(c)
<1> DEFINE o == op[c]
<1>1. driver = "local" /\ o.pc = "fill" /\ o.kind \in {"put", "putTimed", "putStream", "prepend", "copy", "append"}
  BY DEF LocalWrite, Local, At
<1>2. PICK b \in Written(o) : store' = [x \in Paths |->
               {IF f.id # o.id THEN f ELSE [f EXCEPT !.body = IF o.kind = "append" THEN Append(@, o.n) ELSE b] : f \in store[x]}]
  BY DEF LocalWrite
<1>3. op'[c] # op[c] /\ op[c] # Idle
  BY <1>1, CallMoves, IdleIsNoRecord DEF LocalWrite
<1>4. CASE UNCHANGED store
  BY <1>4, SameContents DEF Refines
<1>5. CASE ~UNCHANGED store
  <2> DEFINE Hit(x, f) ==
                 /\ f.id = op[c].id /\ store[x] = {f} /\ Content(x) = f.body /\ Contents[x] = f.body
                 /\ store' = [store EXCEPT ![x] = {[id |-> f.id, body |-> Filled(op[c], f, b)]}]
                 /\ Contents' = [Contents EXCEPT ![x] = Filled(op[c], f, b)]
  <2>0. \/ (\A x \in Paths : \A f \in store[x] : f.id # op[c].id) /\ UNCHANGED store
        \/ \E x \in Paths : \E f \in store[x] : Hit(x, f)
    BY <1>1, <1>2, WriteContents
  <2>1. PICK x \in Paths : \E f \in store[x] : Hit(x, f)
    BY <1>5, <2>0
  <2>2. Contents' = [Contents EXCEPT ![x] = IF o.kind = "append" THEN Append(Content(x), o.n) ELSE b] /\ Has(x)
    BY <2>1 DEF Filled, Has
  <2>3. Rewrites(o, x)
    BY <1>1, <2>2 DEF Rewrites
  <2>4. CASE x # Target(o)
    BY <1>1, <1>3, <2>3, <2>4 DEF Raced, Refines
  <2>5. CASE x = Target(o) /\ o.kind \in {"put", "putTimed", "putStream", "append"}
    <3>1. x = o.p /\ o.n \in 1 .. MaxOps
      BY <2>5 DEF Target, OpRecord, Chunk
    <3>2. o.kind = "append" => D!AppendTo(o.p, o.n)
      BY <2>2, <3>1, ContentsFacts DEF D!AppendTo, D!Content, D!Present, D!Missing, Missing
    <3>3. o.kind # "append" => D!Put(o.p, o.n)
      BY <1>2, <2>2, <2>5, <3>1 DEF D!Put, Written, Whole
    <3>4. D!Next /\ Asked(o)
      BY <2>5, <3>1, <3>2, <3>3 DEF D!Next, Asked
    <3>5. QED
      BY <1>3, <3>4 DEF Refines
  <2>6. CASE x = Target(o) /\ o.kind = "prepend"
    <3>1. Contents' = [Contents EXCEPT ![o.p] = <<o.n>> \o Existing(o)]
      BY <1>2, <2>2, <2>6 DEF Target, Written, Whole
    <3>2. QED
      BY <1>3, <2>6, <3>1, RereadRefines
  <2>7. CASE x = Target(o) /\ o.kind = "copy"
    <3>1. x = o.q /\ o.p \in Paths /\ o.q \in Paths /\ Existing(o) = o.read /\ Whole(o) = o.read
      BY <1>1, <2>7 DEF Target, OpRecord, Existing, Decodes, Whole
    <3>2. CASE o.read # Contents[o.p]
      BY <1>1, <1>3, <2>3, <2>7, <3>1, <3>2 DEF Raced, Refines
    <3>3. CASE o.read = Contents[o.p]
      <4>1. Contents[o.p] # Missing
        BY <3>3, MissingIsNoBody DEF OpRecord
      <4>2. b = Contents[o.p]
        <5>1. CASE b = o.read
          BY <3>3, <5>1
        <5>2. CASE b \in {f.body : f \in store[o.p]}
          <6>1. PICK f \in store[o.p] : b = f.body
            BY <5>2
          <6>2. (CHOOSE g \in store[o.p] : TRUE) = f /\ Has(o.p)
            BY <1>1, <3>1, <6>1 DEF Inodes, Has
          <6>3. QED
            BY <3>1, <6>1, <6>2 DEF Contents, Body
        <5>3. QED
          BY <1>2, <2>7, <3>1, <5>1, <5>2 DEF Written
      <4>3. D!Copy(o.p, o.q)
        BY <2>2, <2>7, <3>1, <4>1, <4>2 DEF D!Copy, D!Present, D!Missing, Missing
      <4>4. D!Next /\ Asked(o)
        BY <2>7, <3>1, <4>3 DEF D!Next, Asked
      <4>5. QED
        BY <1>3, <4>4 DEF Refines
    <3>4. QED
      BY <3>2, <3>3
  <2>8. QED
    BY <1>1, <2>4, <2>5, <2>6, <2>7
<1>6. QED
  BY <1>4, <1>5

LEMMA LocalRefines ==
    ASSUME Typed, ListedIsPrefixed, Inodes, NEW c \in Clients, LocalStep(c)
    PROVE  Refines(c)
<1>1. op[c] \in OpRecord /\ op[c] # Idle /\ op[c].p \in Paths /\ op[c].q \in Paths
  BY LocalBusy, FieldsTyped
<1>2. CASE UNCHANGED store
  BY <1>2, SameContents DEF Refines
<1>3. ASSUME NEW k \in 0 .. MaxOps, LocalOpen(c, k) PROVE Refines(c)
  BY <1>1, <1>3, LocalOpenRefines
<1>4. CASE LocalWrite(c)
  BY <1>1, <1>4, LocalWriteRefines
<1>5. CASE LocalDelete(c) \/ LocalMove(c)
  BY <1>1, <1>2, <1>5, Operations, CallMoves DEF LocalDelete, LocalMove, Local, At, Refines
<1>6. CASE LocalCopyFails(c)
  <2>1. op'[c] = Idle
    BY <1>6 DEF LocalCopyFails, Typed
  <2>2. D!Remove({op[c].q})
    BY <1>6, RemoveContents DEF LocalCopyFails, D!Remove, D!Missing, Missing
  <2>3. D!Next /\ Asked(op[c])
    BY <1>1, <1>6, <2>2 DEF D!Next, Asked, LocalCopyFails, Local, At
  <2>4. QED
    BY <1>1, <2>1, <2>3 DEF Refines
<1>7. ASSUME NEW p \in Paths, LocalUnlink(c, p) PROVE Refines(c)
  <2>1. op[c].kind = "deleteDirectory" /\ op[c].pc = "delete" /\ p \in op[c].todo /\ Remove({p})
    BY <1>7 DEF LocalUnlink, Local, At
  <2>2. {p} \in SUBSET Prefixed
    BY <1>1, <2>1 DEF ListedIsPrefixed
  <2>3. op'[c].todo = op[c].todo \ {p}
    BY <1>1, <1>7 DEF LocalUnlink, Keep, Typed, OpRecord
  <2>4. QED
    BY <1>1, <2>1, <2>2, <2>3, Operations DEF Refines
<1>8. CASE LocalDeleteExpired(c)
  <2>1. op'[c].pc # "delete"
    BY <1>1, <1>8 DEF LocalDeleteExpired, Typed, OpRecord
  <2>2. QED
    BY <1>1, <1>8, <2>1, Operations DEF LocalDeleteExpired, Local, At, Refines
<1>9. QED
  BY <1>2, <1>3, <1>4, <1>5, <1>6, <1>7, <1>8 DEF LocalStep, LocalPut, LocalPutStream, LocalCopy, LocalPutTimed,
     LocalTorn, Torn, LocalSetVisibility, LocalMakeDirectory, LocalListDirectory, LocalDeleteDirectory,
     LocalRead, LocalSweep, LocalCheck, LocalDeleteMeta, LocalSweepFails, LocalSweepEnd

LEMMA BufferRefines ==
    ASSUME Typed, NEW c \in Clients, BufferStep(c)
    PROVE  Refines(c)
<1>1. op[c] \in OpRecord /\ op[c] # Idle
  BY BusyIsRecord DEF BufferStep, BufferPut, ServicePutTimed, ServicePutStream, ServiceDeleteExpired,
     BufferDelete, BufferCopy, BufferMove, BufferPrepend, BufferAppend, BufferSetVisibility,
     BufferMakeDirectory, BufferDeleteDirectory, Buffer, At, Pcs
<1>2. CASE UNCHANGED store
  BY <1>2, SameContents DEF Refines
<1>3. Prefixed \in SUBSET Prefixed
  OBVIOUS
<1>4. CASE ~UNCHANGED store
  BY <1>1, <1>3, <1>4, Operations, CallMoves DEF BufferStep, BufferPut, ServicePutTimed, ServicePutStream,
     ServiceDeleteExpired, BufferDelete, BufferCopy, BufferMove, BufferPrepend, BufferAppend,
     BufferSetVisibility, BufferMakeDirectory, BufferDeleteDirectory, Buffer, At, Refines
<1>5. QED
  BY <1>2, <1>4

LEMMA S3Refines ==
    ASSUME Typed, ListedIsPrefixed, NEW c \in Clients, S3Step(c)
    PROVE  Refines(c)
<1>1. op[c] \in OpRecord /\ op[c] # Idle /\ op[c].todo \in SUBSET Paths /\ op[c].p \in Paths
  <2>1. op[c].pc \in Pcs
    BY DEF S3Step, S3Put, S3PutStream, S3PutTimed, S3SetVisibility, S3Delete, S3Copy, S3Move,
     S3MakeDirectory, S3Prepend, S3Append, S3ListDirectory, S3Sweep, S3DeleteExpired, S3End, S3Get,
     S3DeleteDirectory, S3Tags, S3, At, Pcs
  <2>2. QED
    BY <2>1, BusyIsRecord, FieldsTyped
<1>2. CASE UNCHANGED store
  BY <1>2, SameContents DEF Refines
<1>3. CASE ~UNCHANGED store /\ (S3Put(c) \/ S3PutStream(c) \/ S3Delete(c) \/ S3Copy(c) \/ S3Move(c))
  BY <1>1, <1>3, Operations, CallMoves DEF S3Put, S3PutStream, S3Delete, S3Copy, S3Move, PutObject, DeleteObject,
     S3, At, Refines
<1>4. CASE S3SetVisibility(c)
  BY <1>1, <1>4, CallMoves DEF S3SetVisibility, S3, At, Refines, Emptied
<1>5. CASE S3Prepend(c) \/ S3Append(c)
  <2>1. driver = "s3" /\ op[c].kind \in {"prepend", "append"} /\ op'[c] # op[c]
    BY <1>1, <1>5, CallMoves DEF S3Prepend, S3Append, S3, At
  <2>2. Existing(op[c]) = op[c].read
    BY <2>1 DEF Existing, Decodes
  <2>3. /\ S3Prepend(c) => op[c].kind = "prepend" /\ Store(op[c].p, <<op[c].n>> \o Existing(op[c]))
        /\ S3Append(c) => op[c].kind = "append" /\ Store(op[c].p, Append(Existing(op[c]), op[c].n))
    BY <2>2 DEF S3Prepend, S3Append, PutObject, S3, At
  <2>4. QED
    BY <1>1, <1>5, <2>1, <2>3, StoreContents, RereadRefines
<1>6. CASE S3DeleteExpired(c)
  <2>1. op'[c].pc # "expired"
    BY <1>1, <1>6 DEF S3DeleteExpired, Typed, OpRecord
  <2>2. QED
    BY <1>1, <1>6, <2>1, Operations DEF S3DeleteExpired, DeleteObject, S3, At, Refines
<1>7. CASE \E p \in Paths : S3DeleteDirectory(c, p)
  <2>1. PICK p \in Paths : S3DeleteDirectory(c, p)
    BY <1>7
  <2>2. p \in op[c].todo /\ {p} \in SUBSET Prefixed
    BY <1>1, <2>1 DEF S3DeleteDirectory, S3, At, ListedIsPrefixed
  <2>3. op'[c].todo = op[c].todo \ {p}
    BY <1>1, <2>1 DEF S3DeleteDirectory, Keep, Typed, OpRecord
  <2>4. QED
    BY <1>1, <2>1, <2>2, <2>3, Operations DEF S3DeleteDirectory, DeleteObject, S3, At, Refines
<1>8. QED
  BY <1>2, <1>3, <1>4, <1>5, <1>6, <1>7 DEF S3Step, S3PutTimed, S3MakeDirectory, S3Get, S3ListDirectory, S3Sweep,
     S3Tags, S3End

LEMMA DropboxRefines ==
    ASSUME Typed, NEW c \in Clients, DropboxStep(c)
    PROVE  Refines(c)
<1>1. op[c] \in OpRecord /\ op[c] # Idle /\ op[c].p \in Paths
  <2>1. op[c].pc \in Pcs
    BY DEF DropboxStep, DropboxPut, DropboxPutStream, DropboxReadIndex, DropboxPutTimed, DropboxDelete,
     DropboxCopy, DropboxMove, DropboxMakeDirectory, DropboxDeleteDirectory, DropboxPrepend, DropboxAppend,
     DropboxNoVisibility, DropboxSweep, DropboxSweepEnd, DropboxGet, DropboxDeleteExpired, DropboxDeleteFails,
     DropboxTorn, Dropbox, At, Pcs
  <2>2. QED
    BY <2>1, BusyIsRecord, FieldsTyped
<1>2. CASE UNCHANGED store
  BY <1>2, SameContents DEF Refines
<1>3. CASE ~UNCHANGED store /\ (DropboxPut(c) \/ DropboxPutStream(c) \/ DropboxDelete(c) \/ DropboxCopy(c) \/ DropboxMove(c))
  BY <1>1, <1>3, Operations, CallMoves DEF DropboxPut, DropboxPutStream, DropboxDelete, DropboxCopy, DropboxMove,
     Dropbox, At, Refines
<1>4. CASE DropboxDeleteDirectory(c)
  <2>1. Nested \in SUBSET Prefixed
    BY DiskAssumption
  <2>2. QED
    BY <1>1, <1>4, <2>1, Operations, CallMoves DEF DropboxDeleteDirectory, Dropbox, At, Refines
<1>5. CASE DropboxPrepend(c) \/ DropboxAppend(c)
  <2>1. driver = "dropbox" /\ op'[c] # op[c]
    BY <1>1, <1>5, CallMoves DEF DropboxPrepend, DropboxAppend, Dropbox, At
  <2>2. /\ DropboxPrepend(c) => op[c].kind = "prepend" /\ Store(op[c].p, <<op[c].n>> \o Existing(op[c]))
        /\ DropboxAppend(c) => op[c].kind = "append" /\ Store(op[c].p, Append(Existing(op[c]), op[c].n))
    BY DEF DropboxPrepend, DropboxAppend, Dropbox, At
  <2>3. QED
    BY <1>1, <1>5, <2>1, <2>2, StoreContents, RereadRefines
<1>6. CASE \E p \in Paths : DropboxDeleteExpired(c, p)
  <2>1. PICK p \in Paths : DropboxDeleteExpired(c, p)
    BY <1>6
  <2>2. op'[c].todo = op[c].todo \ {p} /\ p \in op[c].todo
    BY <1>1, <2>1 DEF DropboxDeleteExpired, Typed, OpRecord
  <2>3. QED
    BY <1>1, <2>1, <2>2, Operations DEF DropboxDeleteExpired, Dropbox, At, Refines
<1>7. QED
  BY <1>2, <1>3, <1>4, <1>5, <1>6 DEF DropboxStep, DropboxReadIndex, DropboxPutTimed, DropboxMakeDirectory,
     DropboxGet, DropboxNoVisibility, DropboxSweep, DropboxSweepEnd, DropboxDeleteFails, DropboxTorn, Torn

-------------------------------------------------------------------------------
(* What a step of a driver leaves of the calls *)

\* The other calls stay as they are; the call itself ends, or goes on with the
\* same arguments (a sweep takes up one path after the other).
Follows(c) ==
    /\ \A x \in Clients : x # c => op'[x] = op[x]
    /\ \/ op'[c] = Idle
       \/ /\ op'[c] \in OpRecord /\ op'[c].pc # "start"
          /\ op'[c].kind = op[c].kind /\ op'[c].q = op[c].q /\ op'[c].n = op[c].n /\ op'[c].owed = op[c].owed
          /\ op[c].kind # "deleteExpired" => op'[c].p = op[c].p
    /\ UNCHANGED <<driver, ops>>

LEMMA CallFollows ==
    ASSUME Typed, Typed', NEW c \in Clients, op[c] \in OpRecord
    PROVE  /\ Done(c) \/ Fail(c) \/ Swept(c) => Follows(c)
           /\ \A pc \in Pcs \ {"start"} : Goto(c, pc) => Follows(c)
           /\ \A o \in OpRecord : /\ Keep(c, o) /\ o.pc # "start" /\ o.kind = op[c].kind /\ o.q = op[c].q /\ o.n = op[c].n
                                  /\ o.owed = op[c].owed /\ (op[c].kind # "deleteExpired" => o.p = op[c].p)
                                  => Follows(c)
<1>1. Done(c) \/ Fail(c) \/ Swept(c) => Follows(c)
  BY DEF Done, Fail, Swept, Follows, Typed
<1>2. ASSUME NEW pc \in Pcs \ {"start"}, Goto(c, pc) PROVE Follows(c)
  <2>1. op' = [op EXCEPT ![c] = [op[c] EXCEPT !.pc = pc]]
    BY <1>2 DEF Goto
  <2>2. PICK o \in OpRecord : o = [op[c] EXCEPT !.pc = pc]
    BY <1>2 DEF OpRecord
  <2>3. o.pc = pc /\ o.kind = op[c].kind /\ o.q = op[c].q /\ o.n = op[c].n /\ o.owed = op[c].owed /\ o.p = op[c].p
    BY <2>2 DEF OpRecord
  <2>4. QED
    BY <1>2, <2>1, <2>2, <2>3 DEF Goto, Follows, Typed
<1>3. ASSUME NEW o \in OpRecord, Keep(c, o), o.pc # "start", o.kind = op[c].kind, o.q = op[c].q, o.n = op[c].n,
             o.owed = op[c].owed, op[c].kind # "deleteExpired" => o.p = op[c].p
      PROVE  Follows(c)
  BY <1>3 DEF Keep, Follows, Typed
<1>4. QED
  BY <1>1, <1>2, <1>3

LEMMA LocalFollows ==
    ASSUME Typed, Typed', NEW c \in Clients, LocalStep(c)
    PROVE  op[c] \in OpRecord /\ Follows(c)
<1>1. op[c] \in OpRecord
  BY LocalBusy
<1>2. op' \in [Clients -> {Idle} \cup OpRecord]
  BY DEF Typed
<1>3. ASSUME NEW fails \in BOOLEAN, LocalRead(c, fails) PROVE Follows(c)
  BY <1>1, <1>2, <1>3 DEF LocalRead, Follows, Typed, OpRecord
<1>4. CASE LocalSweep(c)
  BY <1>1, <1>2, <1>4 DEF LocalSweep, Keep, Follows, Typed, OpRecord
<1>5. ASSUME NEW p \in Paths, NEW fails \in BOOLEAN, LocalCheck(c, p, fails) PROVE Follows(c)
  BY <1>1, <1>2, <1>5 DEF LocalCheck, Local, At, Follows, Typed, OpRecord
<1>6. CASE LocalDeleteExpired(c) \/ LocalSweepFails(c)
  BY <1>1, <1>2, <1>6 DEF LocalDeleteExpired, LocalSweepFails, Follows, Typed, OpRecord
<1>7. CASE LocalCopy(c)
  <2>1. CASE Fail(c)
    BY <1>1, <2>1, CallFollows
  <2>2. CASE Keep(c, [op[c] EXCEPT !.pc = "open", !.read = Body(op[c].p), !.id = Inode(op[c].p)])
    <3>1. PICK b, i : b = Body(op[c].p) /\ i = Inode(op[c].p)
      OBVIOUS
    <3>2. op'[c] = [op[c] EXCEPT !.pc = "open", !.read = b, !.id = i]
      BY <1>1, <2>2, <3>1 DEF Keep, Typed
    <3>3. QED
      BY <1>1, <1>2, <2>2, <3>2, IdleIsNoRecord DEF Keep, Follows, Typed, OpRecord
  <2>3. QED
    BY <1>7, <2>1, <2>2 DEF LocalCopy
<1>8. ASSUME NEW k \in 0 .. MaxOps, LocalOpen(c, k) PROVE Follows(c)
  <2>1. CASE Fail(c) \/ Done(c)
    BY <1>1, <2>1, CallFollows
  <2>2. CASE Keep(c, [op[c] EXCEPT !.pc = "fill", !.id = Opened(op[c])])
    <3>1. PICK i : i = Opened(op[c])
      OBVIOUS
    <3>2. op'[c] = [op[c] EXCEPT !.pc = "fill", !.id = i]
      BY <1>1, <2>2, <3>1 DEF Keep, Typed
    <3>3. QED
      BY <1>1, <1>2, <2>2, <3>2, IdleIsNoRecord DEF Keep, Follows, Typed, OpRecord
  <2>3. QED
    BY <1>8, <2>1, <2>2 DEF LocalOpen
<1>9. CASE LocalListDirectory(c)
  BY <1>1, <1>2, <1>9 DEF LocalListDirectory, Keep, Follows, Typed, OpRecord
<1>10. ASSUME NEW p \in Paths, LocalUnlink(c, p) PROVE Follows(c)
  BY <1>1, <1>2, <1>10 DEF LocalUnlink, Local, At, Keep, Follows, Typed, OpRecord
<1>11. CASE LocalCopyFails(c) \/ LocalTorn(c)
  BY <1>1, <1>11 DEF LocalCopyFails, LocalTorn, Torn, Follows, Typed
<1>12. QED
  BY <1>1, <1>3, <1>4, <1>5, <1>6, <1>7, <1>8, <1>9, <1>10, <1>11, CallFollows DEF LocalStep, LocalPut, LocalPutStream,
     LocalWrite, LocalPutTimed, LocalSetVisibility, LocalDelete, LocalMove, LocalMakeDirectory, LocalDeleteDirectory,
     LocalDeleteMeta, LocalSweepEnd, Pcs

LEMMA BufferFollows ==
    ASSUME Typed, Typed', NEW c \in Clients, BufferStep(c)
    PROVE  op[c] \in OpRecord /\ Follows(c)
<1>1. op[c] \in OpRecord
  BY BusyIsRecord DEF BufferStep, BufferPut, ServicePutTimed, ServicePutStream, ServiceDeleteExpired,
     BufferDelete, BufferCopy, BufferMove, BufferPrepend, BufferAppend, BufferSetVisibility,
     BufferMakeDirectory, BufferDeleteDirectory, Buffer, At, Pcs
<1>2. QED
  BY <1>1, CallFollows DEF BufferStep, BufferPut, ServicePutTimed, ServicePutStream, ServiceDeleteExpired,
     BufferDelete, BufferCopy, BufferMove, BufferPrepend, BufferAppend, BufferSetVisibility,
     BufferMakeDirectory, BufferDeleteDirectory, Pcs

LEMMA S3Follows ==
    ASSUME Typed, Typed', NEW c \in Clients, S3Step(c)
    PROVE  op[c] \in OpRecord /\ Follows(c)
<1>1. op[c] \in OpRecord
  BY BusyIsRecord DEF S3Step, S3Put, S3PutStream, S3PutTimed, S3SetVisibility, S3Delete, S3Copy, S3Move,
     S3MakeDirectory, S3Prepend, S3Append, S3ListDirectory, S3Sweep, S3DeleteExpired, S3End, S3Get,
     S3DeleteDirectory, S3Tags, S3, At, Pcs
<1>2. op' \in [Clients -> {Idle} \cup OpRecord]
  BY DEF Typed
<1>3. ASSUME NEW page \in SUBSET Prefixed, S3ListDirectory(c, page) PROVE Follows(c)
  BY <1>1, <1>2, <1>3 DEF S3ListDirectory, Follows, Typed, OpRecord
<1>4. CASE S3Sweep(c)
  BY <1>1, <1>2, <1>4 DEF S3Sweep, Keep, Follows, Typed, OpRecord
<1>5. ASSUME NEW p \in Paths, S3DeleteDirectory(c, p) PROVE Follows(c)
  BY <1>1, <1>2, <1>5 DEF S3DeleteDirectory, S3, At, Keep, Follows, Typed, OpRecord
<1>6. ASSUME NEW p \in Paths, S3Tags(c, p) PROVE Follows(c)
  BY <1>1, <1>2, <1>6 DEF S3Tags, S3, At, Keep, Follows, Typed, OpRecord
<1>7. CASE S3DeleteExpired(c)
  BY <1>1, <1>2, <1>7 DEF S3DeleteExpired, Follows, Typed, OpRecord
<1>8. ASSUME NEW fails \in BOOLEAN, S3Get(c, fails) PROVE Follows(c)
  BY <1>1, <1>2, <1>8 DEF S3Get, Follows, Typed, OpRecord
<1>9. QED
  BY <1>1, <1>3, <1>4, <1>5, <1>6, <1>7, <1>8, CallFollows DEF S3Step, S3Put, S3PutStream, S3PutTimed, S3SetVisibility,
     S3Delete, S3Copy, S3Move, S3MakeDirectory, S3Prepend, S3Append, S3End, Pcs

LEMMA DropboxFollows ==
    ASSUME Typed, Typed', NEW c \in Clients, DropboxStep(c)
    PROVE  op[c] \in OpRecord /\ Follows(c)
<1>1. op[c] \in OpRecord
  BY BusyIsRecord DEF DropboxStep, DropboxPut, DropboxPutStream, DropboxReadIndex, DropboxPutTimed, DropboxDelete,
     DropboxCopy, DropboxMove, DropboxMakeDirectory, DropboxDeleteDirectory, DropboxPrepend, DropboxAppend,
     DropboxNoVisibility, DropboxSweep, DropboxSweepEnd, DropboxGet, DropboxDeleteExpired, DropboxDeleteFails,
     DropboxTorn, Dropbox, At, Pcs
<1>2. op' \in [Clients -> {Idle} \cup OpRecord]
  BY DEF Typed
<1>3. ASSUME NEW fails \in BOOLEAN, DropboxReadIndex(c, fails) \/ DropboxSweep(c, fails) PROVE Follows(c)
  <2>1. CASE DropboxReadIndex(c, fails)
    <3>1. PICK snap : op'[c] = [op[c] EXCEPT !.pc = "write", !.snap = snap]
      BY <1>1, <2>1 DEF DropboxReadIndex, Typed
    <3>2. QED
      BY <1>1, <1>2, <2>1, <3>1, IdleIsNoRecord DEF DropboxReadIndex, Follows, Typed, OpRecord
  <2>2. CASE DropboxSweep(c, fails)
    <3>1. PICK snap, todo : op'[c] = [op[c] EXCEPT !.pc = "delete", !.snap = snap, !.todo = todo]
      BY <1>1, <2>2 DEF DropboxSweep, Typed
    <3>2. QED
      BY <1>1, <1>2, <2>2, <3>1, IdleIsNoRecord DEF DropboxSweep, Follows, Typed, OpRecord
  <2>3. QED
    BY <1>3, <2>1, <2>2
<1>4. ASSUME NEW p \in Paths, DropboxDeleteExpired(c, p) \/ DropboxDeleteFails(c, p) PROVE Follows(c)
  BY <1>1, <1>2, <1>4 DEF DropboxDeleteExpired, DropboxDeleteFails, Dropbox, At, Follows, Typed, OpRecord
<1>5. ASSUME NEW fails \in BOOLEAN, DropboxGet(c, fails) PROVE Follows(c)
  BY <1>1, <1>2, <1>5 DEF DropboxGet, Follows, Typed, OpRecord
<1>7. CASE DropboxTorn(c)
  BY <1>1, <1>7 DEF DropboxTorn, Torn, Follows, Typed
<1>8. QED
  BY <1>1, <1>3, <1>4, <1>5, <1>7, CallFollows DEF DropboxStep, DropboxPut, DropboxPutStream, DropboxPutTimed,
     DropboxDelete, DropboxCopy, DropboxMove, DropboxMakeDirectory, DropboxDeleteDirectory, DropboxPrepend,
     DropboxAppend, DropboxNoVisibility, DropboxSweepEnd, Pcs

LEMMA DriveFollows ==
    ASSUME Typed, Typed', NEW c \in Clients, DriveStep(c)
    PROVE  op[c] \in OpRecord /\ Follows(c)
<1>1. op[c] \in OpRecord
  <2>1. op[c].pc \in Pcs
    BY DEF DriveStep, DriveFind, DriveSweepFind, DriveGet, DrivePut, DrivePutStream, DriveGetNothing, DriveDelete,
     DriveCopy, DriveMove, DriveMakeDirectory, DriveDeleteDirectory, DriveNoVisibility, DriveReadIndex, DrivePutTimed,
     DriveSweep, DriveDeleteExpired, DriveSweepEnd, DriveSweepFails, DriveTorn, Drive, At, Pcs
  <2>2. QED
    BY <2>1, BusyIsRecord
<1>2. op' \in [Clients -> {Idle} \cup OpRecord]
  BY DEF Typed
<1>3. ASSUME NEW fails \in BOOLEAN, DriveReadIndex(c, fails) \/ DriveSweep(c, fails) PROVE Follows(c)
  <2>1. CASE DriveReadIndex(c, fails)
    <3>1. PICK snap : op'[c] = [op[c] EXCEPT !.pc = "write", !.snap = snap]
      BY <1>1, <2>1 DEF DriveReadIndex, Typed
    <3>2. QED
      BY <1>1, <1>2, <2>1, <3>1, IdleIsNoRecord DEF DriveReadIndex, Follows, Typed, OpRecord
  <2>2. CASE DriveSweep(c, fails)
    <3>1. PICK snap, todo : op'[c] = [op[c] EXCEPT !.pc = "look", !.snap = snap, !.todo = todo]
      BY <1>1, <2>2 DEF DriveSweep, Typed
    <3>2. QED
      BY <1>1, <1>2, <2>2, <3>1, IdleIsNoRecord DEF DriveSweep, Follows, Typed, OpRecord
  <2>3. QED
    BY <1>3, <2>1, <2>2
<1>4. ASSUME NEW id \in 0 .. MaxOps, DriveFind(c, id) PROVE Follows(c)
  BY <1>1, <1>2, <1>4 DEF DriveFind, Keep, Follows, Typed, OpRecord
<1>5. ASSUME NEW id \in 0 .. MaxOps, NEW p \in Paths, DriveSweepFind(c, p, id) PROVE Follows(c)
  BY <1>1, <1>2, <1>5 DEF DriveSweepFind, Drive, At, Keep, Follows, Typed, OpRecord
<1>6. ASSUME NEW fails \in BOOLEAN, DriveGet(c, fails) PROVE Follows(c)
  <2>1. PICK b : op' = [op EXCEPT ![c] = [op[c] EXCEPT !.pc = "find", !.read = b]]
    BY <1>6 DEF DriveGet
  <2>2. op'[c] = [op[c] EXCEPT !.pc = "find", !.read = b]
    BY <1>1, <2>1 DEF Typed
  <2>3. QED
    BY <1>1, <1>2, <1>6, <2>1, <2>2 DEF DriveGet, Follows, Typed, OpRecord
<1>7. CASE DriveDeleteExpired(c)
  BY <1>1, <1>2, <1>7 DEF DriveDeleteExpired, Drive, At, Follows, Typed, OpRecord
<1>8. CASE DriveTorn(c)
  BY <1>1, <1>8 DEF DriveTorn, Torn, Follows, Typed
<1>9. ASSUME NEW p \in Paths, DriveSweepFails(c, p) PROVE Follows(c)
  BY <1>1, <1>2, <1>9 DEF DriveSweepFails, Drive, At, Follows, Typed, OpRecord
<1>10. QED
  BY <1>1, <1>3, <1>4, <1>5, <1>6, <1>7, <1>8, <1>9, CallFollows DEF DriveStep, DrivePut, DrivePutStream, DriveGetNothing,
     DriveDelete, DriveCopy, DriveMove, DriveMakeDirectory, DriveDeleteDirectory, DriveNoVisibility, DrivePutTimed,
     DriveSweepEnd, Pcs

LEMMA ReadOnlyFollows ==
    ASSUME Typed, Typed', NEW c \in Clients, ReadOnlyRefuses(c)
    PROVE  op[c] \in OpRecord /\ Follows(c)
<1>1. op[c] \in OpRecord
  BY BusyIsRecord DEF ReadOnlyRefuses, At, Pcs
<1>2. QED
  BY <1>1, CallFollows DEF ReadOnlyRefuses

LEMMA ListedStays ==
    ASSUME Typed, ListedIsPrefixed, [Next]_diskVars
    PROVE  ListedIsPrefixed'
<1>1. ASSUME NEW c \in Clients, op[c] \in OpRecord, Follows(c),
             op'[c] # Idle /\ op'[c].kind = "deleteDirectory" /\ op'[c].pc = "delete" => op'[c].todo \subseteq Prefixed
      PROVE  ListedIsPrefixed'
  BY <1>1 DEF ListedIsPrefixed, Follows
<1>2. Typed'
  BY StaysTyped
<1>3. ASSUME NEW c \in Clients, LocalStep(c) PROVE ListedIsPrefixed'
  <2>1. op[c] \in OpRecord /\ Follows(c)
    BY <1>2, <1>3, LocalFollows
  <2>2. CASE op'[c] = Idle \/ op[c].kind # "deleteDirectory"
    BY <1>1, <2>1, <2>2 DEF Follows
  <2>3. CASE LocalListDirectory(c)
    <3>1. op'[c].todo = {p \in Nested : Has(p)}
      BY <2>1, <2>3 DEF LocalListDirectory, Keep, Typed, OpRecord
    <3>2. QED
      BY <1>1, <2>1, <3>1, DiskAssumption
  <2>4. ASSUME NEW p \in Paths, LocalUnlink(c, p) PROVE ListedIsPrefixed'
    <3>1. op'[c].todo = op[c].todo \ {p}
      BY <2>1, <2>4 DEF LocalUnlink, Keep, Typed, OpRecord
    <3>2. op[c].todo \subseteq Prefixed
      BY <2>1, <2>4, IdleIsNoRecord DEF LocalUnlink, Local, At, ListedIsPrefixed
    <3>3. QED
      BY <1>1, <2>1, <3>1, <3>2
  <2>5. LocalCopyFails(c) \/ LocalTorn(c) => op'[c] = Idle
    BY DEF LocalCopyFails, LocalTorn, Torn, Typed
  <2>6. QED
    BY <1>3, <2>1, <2>2, <2>3, <2>4, <2>5, CallMoves DEF LocalStep, LocalPut, LocalPutStream, LocalWrite, LocalCopy,
       LocalPutTimed, LocalSetVisibility, LocalDelete, LocalMove, LocalMakeDirectory, LocalDeleteDirectory,
       LocalSweep, LocalDeleteExpired, LocalDeleteMeta, LocalSweepFails, LocalSweepEnd, LocalOpen, LocalRead,
       LocalCheck, Local, At
<1>4. ASSUME NEW c \in Clients, BufferStep(c) PROVE ListedIsPrefixed'
  <2>1. op[c] \in OpRecord /\ Follows(c)
    BY <1>2, <1>4, BufferFollows
  <2>2. op[c].kind = "deleteDirectory" => op'[c] = Idle
    BY <1>4, <2>1, CallMoves DEF BufferStep, BufferPut, ServicePutTimed, ServicePutStream, ServiceDeleteExpired,
       BufferDelete, BufferCopy, BufferMove, BufferPrepend, BufferAppend, BufferSetVisibility,
       BufferMakeDirectory, BufferDeleteDirectory, Buffer, At
  <2>3. QED
    BY <1>1, <2>1, <2>2 DEF Follows
<1>5. ASSUME NEW c \in Clients, DropboxStep(c) PROVE ListedIsPrefixed'
  <2>1. op[c] \in OpRecord /\ Follows(c)
    BY <1>2, <1>5, DropboxFollows
  <2>2. op[c].kind = "deleteDirectory" => op'[c] = Idle
    BY <1>5, <2>1, CallMoves DEF DropboxStep, DropboxPut, DropboxPutStream, DropboxReadIndex, DropboxPutTimed,
       DropboxDelete, DropboxCopy, DropboxMove, DropboxMakeDirectory, DropboxDeleteDirectory, DropboxPrepend,
       DropboxAppend, DropboxNoVisibility, DropboxSweep, DropboxSweepEnd, DropboxGet, DropboxDeleteExpired,
       DropboxDeleteFails, DropboxTorn, Dropbox, At
  <2>3. QED
    BY <1>1, <2>1, <2>2 DEF Follows
<1>6. ASSUME NEW c \in Clients, DriveStep(c) PROVE ListedIsPrefixed'
  <2>1. op[c] \in OpRecord /\ Follows(c)
    BY <1>2, <1>6, DriveFollows
  <2>2. ASSUME NEW id \in 0 .. MaxOps, DriveFind(c, id) PROVE op'[c].pc = "found"
    BY <2>1, <2>2 DEF DriveFind, Keep, Typed, OpRecord
  <2>3. op[c].kind = "deleteDirectory" => op'[c] = Idle \/ op'[c].pc # "delete"
    BY <1>6, <2>1, <2>2, CallMoves DEF DriveStep, DriveSweepFind, DriveGet, DrivePut, DrivePutStream,
       DriveGetNothing, DriveDelete, DriveCopy, DriveMove, DriveMakeDirectory, DriveDeleteDirectory,
       DriveNoVisibility, DriveReadIndex, DrivePutTimed, DriveSweep, DriveDeleteExpired, DriveSweepEnd,
       DriveSweepFails, DriveTorn, Drive, At
  <2>4. QED
    BY <1>1, <2>1, <2>3 DEF Follows
<1>7. ASSUME NEW c \in Clients, ReadOnlyRefuses(c) PROVE ListedIsPrefixed'
  <2>1. op[c] \in OpRecord /\ Follows(c)
    BY <1>2, <1>7, ReadOnlyFollows
  <2>2. op'[c] = Idle
    BY <1>7 DEF ReadOnlyRefuses, Fail, Typed
  <2>3. QED
    BY <1>1, <2>1, <2>2
<1>8. ASSUME NEW c \in Clients, S3Step(c) PROVE ListedIsPrefixed'
  <2>1. op[c] \in OpRecord /\ Follows(c)
    BY <1>2, <1>8, S3Follows
  <2>2. CASE op'[c] = Idle \/ op[c].kind # "deleteDirectory"
    BY <1>1, <2>1, <2>2 DEF Follows
  <2>3. ASSUME NEW page \in SUBSET Prefixed, S3ListDirectory(c, page) PROVE ListedIsPrefixed'
    <3>1. op'[c].todo = page
      BY <2>1, <2>3 DEF S3ListDirectory, Typed, OpRecord
    <3>2. QED
      BY <1>1, <2>1, <3>1
  <2>4. ASSUME NEW p \in Paths, S3DeleteDirectory(c, p) PROVE ListedIsPrefixed'
    <3>1. op'[c].todo = op[c].todo \ {p}
      BY <2>1, <2>4 DEF S3DeleteDirectory, Keep, Typed, OpRecord
    <3>2. op[c].todo \subseteq Prefixed
      BY <2>1, <2>4, IdleIsNoRecord DEF S3DeleteDirectory, S3, At, ListedIsPrefixed
    <3>3. QED
      BY <1>1, <2>1, <3>1, <3>2
  <2>5. QED
    BY <1>8, <2>1, <2>2, <2>3, <2>4, CallMoves DEF S3Step, S3Put, S3PutStream, S3PutTimed, S3SetVisibility,
       S3Delete, S3Copy, S3Move, S3MakeDirectory, S3Prepend, S3Append, S3Sweep, S3DeleteExpired, S3End, S3Get,
       S3Tags, S3, At, Swept, Typed
<1>9. ASSUME NEW c \in Clients, NEW k \in Kinds, NEW a \in Args(k), Call(c, k, a) PROVE ListedIsPrefixed'
  <2>1. op'[c].pc = "start" /\ \A x \in Clients : x # c => op'[x] = op[x]
    BY <1>9 DEF Call, Typed
  <2>2. QED
    BY <2>1 DEF ListedIsPrefixed
<1>10. ASSUME NEW c \in Clients, Fault(c) PROVE ListedIsPrefixed'
  BY <1>10 DEF Fault, Typed, ListedIsPrefixed
<1>11. CASE UNCHANGED op
  BY <1>11 DEF ListedIsPrefixed
<1>12. QED
  BY <1>3, <1>4, <1>5, <1>6, <1>7, <1>8, <1>9, <1>10, <1>11 DEF Next, Expire, diskVars

LEMMA NumberedStays ==
    ASSUME Typed, Numbered, [Next]_diskVars
    PROVE  Numbered'
<1>1. Typed'
  BY StaysTyped
<1>2. ASSUME NEW c \in Clients, op[c] \in OpRecord, Follows(c) PROVE Numbered'
  BY <1>2, IdleIsNoRecord DEF Numbered, Follows
<1>3. ASSUME NEW c \in Clients,
             LocalStep(c) \/ BufferStep(c) \/ S3Step(c) \/ DropboxStep(c) \/ DriveStep(c) \/ ReadOnlyRefuses(c)
      PROVE  Numbered'
  BY <1>1, <1>2, <1>3, LocalFollows, BufferFollows, S3Follows, DropboxFollows, DriveFollows, ReadOnlyFollows
<1>4. ASSUME NEW c \in Clients, Fault(c) PROVE Numbered'
  BY <1>4 DEF Fault, Numbered, Typed
<1>5. ASSUME NEW c \in Clients, NEW k \in Kinds, NEW a \in Args(k), Call(c, k, a) PROVE Numbered'
  <2>1. op'[c].n = ops + 1 /\ ops' = ops + 1 /\ (\A x \in Clients : x # c => op'[x] = op[x])
    BY <1>5 DEF Call, Typed
  <2>2. ops \in Nat
    BY DEF Typed
  <2>3. ASSUME NEW x \in Clients, op[x] # Idle PROVE op[x].n <= ops /\ op[x].n \in Nat
    <3>1. op[x] \in OpRecord
      BY <2>3 DEF Typed
    <3>2. QED
      BY <2>3, <3>1, DiskAssumption DEF Numbered, OpRecord, Chunk
  <2>4. QED
    BY <2>1, <2>2, <2>3 DEF Numbered
<1>6. CASE UNCHANGED <<op, ops>>
  BY <1>6 DEF Numbered
<1>7. QED
  BY <1>3, <1>4, <1>5, <1>6 DEF Next, Expire, diskVars

\* Nothing is created, and a call that opens a file opened none before.
LEMMA InodesKept ==
    ASSUME Typed, Inodes, NEW c \in Clients, op[c] \in OpRecord, Follows(c), driver = "local",
           op'[c] # Idle /\ op'[c].pc = "open" => op[c].pc = "start",
           \A x \in Paths : \A f \in store'[x] : \E g \in store[x] : g.id = f.id,
           \A x \in Paths : \A f, g \in store'[x] : f.id = g.id => f = g
    PROVE  Inodes'
<1>1. \A x \in Paths : \A f, g \in store'[x] : f = g
  BY DEF Inodes
<1>2. \A x, y \in Paths : \A f \in store'[x], g \in store'[y] : f.id = g.id => x = y
  BY DEF Inodes
<1>3. ASSUME NEW x \in Paths, NEW f \in store'[x]
      PROVE  f.id <= ops /\ \A d \in Clients : op'[d] # Idle /\ op'[d].pc \in {"start", "open"} => f.id # op'[d].n
  <2>1. PICK g \in store[x] : g.id = f.id
    OBVIOUS
  <2>2. g.id <= ops /\ \A d \in Clients : op[d] # Idle /\ op[d].pc \in {"start", "open"} => g.id # op[d].n
    BY DEF Inodes
  <2>3. ASSUME NEW d \in Clients, op'[d] # Idle /\ op'[d].pc \in {"start", "open"} PROVE f.id # op'[d].n
    <3>1. CASE d # c
      BY <2>1, <2>2, <2>3, <3>1 DEF Follows
    <3>2. CASE d = c
      BY <2>1, <2>2, <2>3, <3>2, IdleIsNoRecord DEF Follows
    <3>3. QED
      BY <3>1, <3>2
  <2>4. QED
    BY <2>1, <2>2, <2>3
<1>4. QED
  BY <1>1, <1>2, <1>3 DEF Inodes, Follows

LEMMA LocalOpenInodes ==
    ASSUME Typed, Typed', Inodes, Numbered, NEW c \in Clients, op[c] \in OpRecord, Follows(c), NEW k \in 0 .. MaxOps, LocalOpen(c, k)
    PROVE  Inodes'
<1> DEFINE o == op[c]
           t == Target(op[c])
<1>1. driver = "local" /\ o.pc \in {"start", "open"} /\ o # Idle
  BY IdleIsNoRecord DEF LocalOpen, Local, At
<1>2. CASE ~DirThere(t) \/ ToItself(o)
  <2>1. UNCHANGED store /\ op'[c] = Idle
    BY <1>2 DEF LocalOpen, Fail, Done, Typed
  <2>2. QED
    BY <1>1, <2>1, InodesKept DEF Inodes
<1>3. CASE DirThere(t) /\ ~ToItself(o)
  <2>1. PICK b : b = IF o.kind = "append" THEN Content(t) ELSE SubSeq(Whole(o), 1, k)
    OBVIOUS
  <2>2. store' = [store EXCEPT ![t] = {[id |-> Opened(o), body |-> b]}] /\ t \in Paths
    BY <1>3, <2>1, WholeIsBody DEF LocalOpen
  <2>3. Keep(c, [o EXCEPT !.pc = "fill", !.id = Opened(o)])
    BY <1>3 DEF LocalOpen
  <2>4. op'[c].pc = "fill"
    BY <2>3 DEF Keep, Typed, OpRecord
  <2>5. \A x \in Paths : store'[x] = IF x = t THEN {[id |-> Opened(o), body |-> b]} ELSE store[x]
    BY <2>2 DEF Typed
  <2>6. CASE Has(t)
    <3>1. PICK g \in store[t] : g.id = Opened(o)
      BY <2>2, <2>6, InodeTyped DEF Opened, Inode
    <3>2. QED
      BY <1>1, <2>4, <2>5, <3>1, InodesKept DEF Inodes
  <2>7. CASE ~Has(t)
    <3>1. Opened(o) = o.n
      BY <2>7 DEF Opened
    <3>2. \A x \in Paths : \A f \in store[x] : f.id # o.n /\ f.id <= ops
      BY <1>1 DEF Inodes
    <3>3. \A x \in Paths : \A f, g \in store'[x] : f = g
      BY <1>1, <2>5 DEF Inodes
    <3>4. \A x, y \in Paths : \A f \in store'[x], g \in store'[y] : f.id = g.id => x = y
      BY <1>1, <2>5, <3>1, <3>2 DEF Inodes
    <3>5. o.n <= ops /\ \A d \in Clients : op[d] # Idle /\ op[d].n = o.n => d = c
      BY <1>1 DEF Numbered
    <3>6. ASSUME NEW x \in Paths, NEW f \in store'[x], NEW d \in Clients, op'[d] # Idle, op'[d].pc \in {"start", "open"}
          PROVE  f.id # op'[d].n
      <4>1. d # c /\ op'[d] = op[d]
        BY <2>4, <3>6 DEF Follows
      <4>2. QED
        BY <1>1, <2>5, <3>1, <3>5, <3>6, <4>1 DEF Inodes
    <3>7. \A x \in Paths : \A f \in store'[x] : f.id <= ops
      BY <2>5, <3>1, <3>2, <3>5
    <3>8. QED
      BY <3>3, <3>4, <3>6, <3>7 DEF Inodes, Follows
  <2>8. QED
    BY <2>6, <2>7
<1>4. QED
  BY <1>2, <1>3

LEMMA LocalInodes ==
    ASSUME Typed, Typed', Inodes, Numbered, NEW c \in Clients, LocalStep(c)
    PROVE  Inodes'
<1>1. op[c] \in OpRecord /\ driver = "local" /\ Follows(c)
  BY LocalBusy, LocalFollows
<1>2. op'[c] # Idle /\ op'[c].pc = "open" => op[c].pc = "start" \/ \E k \in 0 .. MaxOps : LocalOpen(c, k)
  <2>1. ASSUME NEW p \in Paths, NEW fails \in BOOLEAN, LocalCheck(c, p, fails) PROVE op'[c].pc \in {"check", "delete"}
    BY <1>1, <2>1 DEF LocalCheck, Typed, OpRecord
  <2>2. ASSUME NEW p \in Paths, LocalUnlink(c, p) PROVE op'[c].pc = "delete"
    BY <1>1, <2>2 DEF LocalUnlink, Local, At, Keep, Typed, OpRecord
  <2>3. LocalCopyFails(c) \/ LocalTorn(c) \/ LocalSweepEnd(c) => op'[c] = Idle
    BY DEF LocalCopyFails, LocalTorn, Torn, LocalSweepEnd, Swept, Typed
  <2>4. LocalWrite(c) => op'[c] = Idle \/ op'[c].pc = "meta"
    BY <1>1 DEF LocalWrite, Done, Goto, Typed, OpRecord
  <2>5. LocalPutTimed(c) => op'[c] = Idle
    BY DEF LocalPutTimed, Done, Fail, Typed
  <2>6. ASSUME LocalListDirectory(c) PROVE op'[c].pc = "delete"
    <3>1. PICK todo : op'[c] = [op[c] EXCEPT !.pc = "delete", !.todo = todo]
      BY <1>1, <2>6 DEF LocalListDirectory, Keep, Typed
    <3>2. QED
      BY <1>1, <3>1 DEF OpRecord
  <2>7. LocalDeleteDirectory(c) => op'[c] = Idle
    BY DEF LocalDeleteDirectory, Done, Typed
  <2>8. LocalDeleteExpired(c) \/ LocalDeleteMeta(c) \/ LocalSweepFails(c) => op'[c].pc \in {"unmeta", "check"}
    BY <1>1 DEF LocalDeleteExpired, LocalDeleteMeta, LocalSweepFails, Goto, Typed, OpRecord
  <2>9. QED
    BY <2>1, <2>2, <2>3, <2>4, <2>5, <2>6, <2>7, <2>8 DEF LocalStep, LocalPut, LocalPutStream, LocalCopy,
       LocalSetVisibility, LocalDelete, LocalMove, LocalMakeDirectory, LocalSweep, LocalRead, Local, At
<1>3. ASSUME NEW k \in 0 .. MaxOps, LocalOpen(c, k) PROVE Inodes'
  BY <1>1, <1>3, LocalOpenInodes
<1>4. CASE ~\E k \in 0 .. MaxOps : LocalOpen(c, k)
  <2>1. op'[c] # Idle /\ op'[c].pc = "open" => op[c].pc = "start"
    BY <1>2, <1>4
  <2>2. ASSUME \A x \in Paths : store'[x] \in {store[x], {}} PROVE Inodes'
    BY <1>1, <2>1, <2>2, InodesKept DEF Inodes
  <2>3. CASE UNCHANGED store
    BY <2>2, <2>3
  <2>4. CASE \E ps : Remove(ps)
    BY <2>2, <2>4 DEF Remove
  <2>5. CASE LocalWrite(c)
    <3>1. PICK b \in Written(op[c]) : store' = [x \in Paths |->
               {IF f.id # op[c].id THEN f ELSE [f EXCEPT !.body = IF op[c].kind = "append" THEN Append(@, op[c].n) ELSE b]
                   : f \in store[x]}]
      BY <2>5 DEF LocalWrite
    <3> DEFINE Hit(x, f) ==
                 /\ f.id = op[c].id /\ store[x] = {f} /\ Content(x) = f.body /\ Contents[x] = f.body
                 /\ store' = [store EXCEPT ![x] = {[id |-> f.id, body |-> Filled(op[c], f, b)]}]
                 /\ Contents' = [Contents EXCEPT ![x] = Filled(op[c], f, b)]
    <3>2. \/ (\A x \in Paths : \A f \in store[x] : f.id # op[c].id) /\ UNCHANGED store
          \/ \E x \in Paths : \E f \in store[x] : Hit(x, f)
      BY <1>1, <3>1, WriteContents
    <3>3. CASE UNCHANGED store
      BY <2>3, <3>3
    <3>4. ASSUME NEW x \in Paths, NEW f \in store[x], Hit(x, f) PROVE Inodes'
      <4>1. \A y \in Paths : store'[y] = IF y = x THEN {[id |-> f.id, body |-> Filled(op[c], f, b)]} ELSE store[y]
        BY <3>4 DEF Typed
      <4>2. \A y \in Paths : \A g \in store'[y] : \E h \in store[y] : h.id = g.id
        BY <4>1
      <4>3. \A y \in Paths : \A g, h \in store'[y] : g = h
        BY <1>1, <4>1 DEF Inodes
      <4>4. QED
        BY <1>1, <2>1, <4>2, <4>3, InodesKept
    <3>5. QED
      BY <3>2, <3>3, <3>4
  <2>6. CASE LocalMove(c) /\ ~UNCHANGED store
    <3>1. PICK p \in Paths, q \in Paths : p = op[c].p /\ q = op[c].q
      BY <1>1 DEF OpRecord
    <3>2. \A x \in Paths : store'[x] = IF x = q THEN store[p] ELSE IF x = p THEN {} ELSE store[x]
      BY <2>6, <3>1 DEF LocalMove, Typed
    <3>3. op'[c] = Idle
      BY <2>6 DEF LocalMove, Done, Fail, Typed
    <3>4. \A x \in Paths : \A f, g \in store'[x] : f = g
      BY <1>1, <3>2 DEF Inodes
    <3>5. \A x, y \in Paths : \A f \in store'[x], g \in store'[y] : f.id = g.id => x = y
      BY <1>1, <3>2 DEF Inodes
    <3>6. \A d \in Clients : op'[d] # Idle => op'[d] = op[d]
      BY <1>1, <3>3 DEF Follows
    <3>7. \A x \in Paths : \A f \in store'[x] :
              f.id <= ops /\ \A d \in Clients : op'[d] # Idle /\ op'[d].pc \in {"start", "open"} => f.id # op'[d].n
      BY <1>1, <3>2, <3>6 DEF Inodes
    <3>8. QED
      BY <1>1, <3>4, <3>5, <3>7 DEF Inodes, Follows
  <2>7. QED
    BY <1>4, <2>3, <2>4, <2>5, <2>6 DEF LocalStep, LocalPut, LocalPutStream, LocalCopy, LocalCopyFails, LocalPutTimed,
       LocalTorn, Torn, LocalSetVisibility, LocalDelete, LocalMakeDirectory, LocalListDirectory, LocalDeleteDirectory,
       LocalRead, LocalSweep, LocalCheck, LocalUnlink, LocalDeleteExpired, LocalDeleteMeta, LocalSweepFails,
       LocalSweepEnd
<1>5. QED
  BY <1>3, <1>4

LEMMA DriverOfStep ==
    ASSUME NEW c \in Clients
    PROVE  /\ LocalStep(c) => driver = "local"
           /\ BufferStep(c) => driver = "buffer"
           /\ S3Step(c) => driver = "s3"
           /\ DropboxStep(c) => driver = "dropbox"
           /\ DriveStep(c) => driver = "gdrive"
           /\ ReadOnlyRefuses(c) => driver = "readonly"
<1>1. LocalStep(c) => driver = "local"
  <2>1. ASSUME NEW p \in Paths, LocalUnlink(c, p) \/ \E fails \in BOOLEAN : LocalCheck(c, p, fails) PROVE driver = "local"
    BY <2>1 DEF LocalUnlink, LocalCheck, Local, At
  <2>2. QED
    BY <2>1 DEF LocalStep, LocalPut, LocalPutStream, LocalWrite, LocalCopy, LocalCopyFails, LocalPutTimed,
       LocalTorn, LocalSetVisibility, LocalDelete, LocalMove, LocalMakeDirectory, LocalListDirectory,
       LocalDeleteDirectory, LocalSweep, LocalDeleteExpired, LocalDeleteMeta, LocalSweepFails, LocalSweepEnd,
       LocalOpen, LocalRead, Local, At
<1>2. BufferStep(c) => driver = "buffer"
  BY DEF BufferStep, BufferPut, ServicePutTimed, ServicePutStream, ServiceDeleteExpired,
     BufferDelete, BufferCopy, BufferMove, BufferPrepend, BufferAppend, BufferSetVisibility,
     BufferMakeDirectory, BufferDeleteDirectory, Buffer, At
<1>3. S3Step(c) => driver = "s3"
  BY DEF S3Step, S3Put, S3PutStream, S3PutTimed, S3SetVisibility, S3Delete, S3Copy, S3Move,
     S3MakeDirectory, S3Prepend, S3Append, S3ListDirectory, S3Sweep, S3DeleteExpired, S3End, S3Get,
     S3DeleteDirectory, S3Tags, S3, At
<1>4. DropboxStep(c) => driver = "dropbox"
  BY DEF DropboxStep, DropboxPut, DropboxPutStream, DropboxReadIndex, DropboxPutTimed, DropboxDelete,
     DropboxCopy, DropboxMove, DropboxMakeDirectory, DropboxDeleteDirectory, DropboxPrepend, DropboxAppend,
     DropboxNoVisibility, DropboxSweep, DropboxSweepEnd, DropboxGet, DropboxDeleteExpired, DropboxDeleteFails,
     DropboxTorn, Dropbox, At
<1>5. DriveStep(c) => driver = "gdrive"
  <2>1. ASSUME NEW id \in 0 .. MaxOps, DriveFind(c, id) \/ \E p \in Paths : DriveSweepFind(c, p, id)
        PROVE  driver = "gdrive"
    BY <2>1 DEF DriveFind, DriveSweepFind, Drive, At
  <2>2. QED
    BY <2>1 DEF DriveStep, DriveGet, DrivePut, DrivePutStream, DriveGetNothing, DriveDelete,
     DriveCopy, DriveMove, DriveMakeDirectory, DriveDeleteDirectory, DriveNoVisibility, DriveReadIndex, DrivePutTimed,
     DriveSweep, DriveDeleteExpired, DriveSweepEnd, DriveSweepFails, DriveTorn, Drive, At
<1>6. QED
  BY <1>1, <1>2, <1>3, <1>4, <1>5 DEF ReadOnlyRefuses, At

LEMMA InodesStay ==
    ASSUME Typed, Inodes, Numbered, [Next]_diskVars
    PROVE  Inodes'
<1>1. Typed'
  BY StaysTyped
<1>2. ASSUME NEW c \in Clients, LocalStep(c) PROVE Inodes'
  BY <1>1, <1>2, LocalInodes
<1>3. ASSUME driver # "local", UNCHANGED driver PROVE Inodes'
  BY <1>3 DEF Inodes
<1>4. ASSUME NEW c \in Clients, BufferStep(c) \/ S3Step(c) \/ DropboxStep(c) \/ DriveStep(c) \/ ReadOnlyRefuses(c)
      PROVE  Inodes'
  <2>1. driver # "local"
    BY <1>4, DriverOfStep
  <2>2. UNCHANGED driver
    BY <1>1, <1>4, BufferFollows, S3Follows, DropboxFollows, DriveFollows, ReadOnlyFollows DEF Follows
  <2>3. QED
    BY <1>3, <2>1, <2>2
<1>5. ASSUME NEW c \in Clients, Fault(c) PROVE Inodes'
  <2>1. UNCHANGED <<driver, store, ops>> /\ \A d \in Clients : op'[d] # Idle => op'[d] = op[d]
    BY <1>5 DEF Fault, Typed
  <2>2. QED
    BY <2>1 DEF Inodes
<1>6. ASSUME NEW c \in Clients, NEW k \in Kinds, NEW a \in Args(k), Call(c, k, a) PROVE Inodes'
  <2>1. /\ op'[c].n = ops + 1 /\ ops' = ops + 1 /\ (\A x \in Clients : x # c => op'[x] = op[x])
        /\ UNCHANGED <<driver, store>>
    BY <1>6 DEF Call, Typed
  <2>2. ops \in Nat /\ \A x \in Paths : \A f \in store[x] : f.id \in Nat
    BY DEF Typed, File
  <2>3. CASE driver = "local"
    <3>1. \A x \in Paths : \A f \in store[x] : f.id <= ops + 1 /\ f.id # ops + 1
      BY <2>2, <2>3 DEF Inodes
    <3>2. \A x \in Paths : \A f \in store[x] :
              \A d \in Clients : op'[d] # Idle /\ op'[d].pc \in {"start", "open"} => f.id # op'[d].n
      BY <2>1, <2>3, <3>1 DEF Inodes
    <3>3. QED
      BY <2>1, <2>3, <3>1, <3>2 DEF Inodes
  <2>4. QED
    BY <1>3, <2>1, <2>3
<1>7. CASE UNCHANGED <<driver, store, op, ops>>
  BY <1>7 DEF Inodes
<1>8. QED
  BY <1>2, <1>4, <1>5, <1>6, <1>7 DEF Next, Expire, diskVars

LEMMA ImplementInv == Spec => [](ListedIsPrefixed /\ Numbered /\ Inodes)
<1>1. DiskInit => ListedIsPrefixed /\ Numbered /\ Inodes
  BY DEF DiskInit, ListedIsPrefixed, Numbered, Inodes
<1>2. Typed /\ ListedIsPrefixed /\ Numbered /\ Inodes /\ [Next]_diskVars => (ListedIsPrefixed /\ Numbered /\ Inodes)'
  BY ListedStays, NumberedStays, InodesStay
<1>3. QED
  BY <1>1, <1>2, TypeCorrect, PTL DEF Spec

\* On every disk but Google Drive a step is an operation of the abstract disk
\* that its caller asked for, whatever overlaps, fails or stops half-way, but
\* for S3's setVisibility, the opening of a local file that is going to be
\* written, and the writes that raced: those put the chunk of the call and
\* what it read, and nothing else.
THEOREM DriversImplementDisk == Spec => ImplementsDisk
<1>1. DiskInit => D!Init
  BY DEF DiskInit, Contents, Has, D!Init, D!Missing, Missing
<1>2. Typed /\ ListedIsPrefixed /\ Inodes /\ [Next]_diskVars =>
         [\/ driver = "gdrive" \/ Emptied
          \/ \E c \in Clients :
                 /\ op[c] # Idle /\ op'[c] # op[c]
                 /\ \/ D!Next /\ Asked(op[c])
                    \/ Begins(op[c])
                    \/ \E x \in Paths : Raced(op[c], x) /\ Rewrites(op[c], x)]_Contents
  <2> SUFFICES ASSUME Typed, ListedIsPrefixed, Inodes, [Next]_diskVars
               PROVE  \/ UNCHANGED Contents
                      \/ driver = "gdrive" \/ Emptied
                      \/ \E c \in Clients :
                             /\ op[c] # Idle /\ op'[c] # op[c]
                             /\ \/ D!Next /\ Asked(op[c])
                                \/ Begins(op[c])
                                \/ \E x \in Paths : Raced(op[c], x) /\ Rewrites(op[c], x)
    OBVIOUS
  <2>1. ASSUME NEW c \in Clients, LocalStep(c) \/ BufferStep(c) \/ S3Step(c) \/ DropboxStep(c) PROVE Refines(c)
    BY <2>1, LocalRefines, BufferRefines, S3Refines, DropboxRefines
  <2>2. ASSUME NEW c \in Clients, DriveStep(c) PROVE driver = "gdrive"
    BY <2>2, DriverOfStep
  <2>3. ASSUME UNCHANGED store PROVE UNCHANGED Contents
    BY <2>3, SameContents
  <2>4. QED
    BY <2>1, <2>2, <2>3 DEF Next, Call, ReadOnlyRefuses, Fault, Expire, diskVars, Refines
<1>3. QED
  BY <1>1, <1>2, ImplementInv, TypeCorrect, PTL DEF Spec, ImplementsDisk

-------------------------------------------------------------------------------
(* While nothing overlaps and nothing fails: the contents                  *)

\* At most one call is in progress.
Alone == ghost.serial => \A c, x \in Clients : op[c] # Idle /\ op[x] # Idle => c = x

\* Google Drive looks the path up under another name: the call ends in doubt.
Misnamed(o) == driver = "gdrive" /\ Base[o.p] # o.p

\* What a reader expects to be in a file before a call, for a call that has
\* begun to write it.
Old(p) == IF ghost.shadow[p] = Missing THEN <<>> ELSE ghost.shadow[p]

\* A local file is open to be written: the other files are as they were.
Half(o) ==
    /\ \E f : store[Target(o)] = {f} /\ f.id = o.id /\ (o.kind = "append" => f.body = Old(o.p))
    /\ \A x \in Paths : x # Target(o) => Contents[x] = ghost.shadow[x]

\* What the deletion of a directory lists.
Listing == IF driver = "local" THEN Nested ELSE Prefixed

\* What the contents are while a call is at its step.
Shown(o) ==
    CASE o.pc = "fill" /\ o.kind # "deleteExpired" -> Half(o)
      [] o.kind = "putTimed" /\ o.pc \in {"meta", "tag", "index", "write"} ->
            Misnamed(o) \/ Contents = [ghost.shadow EXCEPT ![o.p] = <<o.n>>]
      [] o.kind = "move" /\ o.pc = "copied" -> Contents = [ghost.shadow EXCEPT ![o.q] = ghost.shadow[o.p]]
      [] o.kind = "deleteDirectory" /\ o.pc = "delete" ->
            \A x \in Paths : IF x \in Listing THEN Has(x) => x \in o.todo ELSE Contents[x] = ghost.shadow[x]
      [] o.kind = "deleteExpired" /\ o.pc # "start" -> \A x \in Paths : Has(x) => Contents[x] = ghost.shadow[x]
      [] OTHER -> Contents = ghost.shadow

\* What a call has found out is still so.
Noted(o) ==
    /\ o.pc = "start" => o.read = <<>>
    /\ driver # "local" /\ o.kind \in {"prepend", "append"} /\ o.pc # "start" => Misnamed(o) \/ o.read = Content(o.p)
    /\ driver = "local" =>
          /\ o.kind = "prepend" /\ o.pc # "start" => o.read = Old(o.p)
          /\ o.kind = "copy" /\ o.pc \in {"open", "fill"} => o.read = ghost.shadow[o.p]
          /\ o.kind = "copy" /\ o.pc = "open" => Has(o.p) /\ o.id = Inode(o.p)
          /\ o.kind = "copy" /\ o.pc = "fill" => o.p # o.q
          /\ o.pc \in {"fill", "meta"} => DirThere(Target(o))
          /\ o.kind = "deleteDirectory" /\ o.pc = "delete" => o.todo \subseteq Nested
    /\ driver = "s3" =>
          /\ o.pc = "copied" => o.p # o.q
          /\ o.pc = "delete" => o.kind = "deleteDirectory"
          /\ o.pc = "tags" => o.kind = "deleteExpired"
    /\ driver = "gdrive" =>
          /\ o.pc = "find" => o.kind \in {"prepend", "append"}
          /\ o.pc \in {"found", "delete"} => FilesOf(Base[o.p], o.id) = store[Base[o.p]]

\* Google Drive keeps one file of a name.
Unique == driver = "gdrive" => \A p \in Paths : \E f : store[p] \subseteq {f}

ContentsSound ==
    ghost.serial =>
        /\ (\A c \in Clients : op[c] = Idle) => Contents = ghost.shadow
        /\ \A c \in Clients : op[c] # Idle => Shown(op[c]) /\ Noted(op[c])
        /\ Unique

LEMMA UnsureIsUnsure ==
    ASSUME Typed, ghost' = Unsure(ghost), ghost'.serial
    PROVE  FALSE
  BY DEF Unsure, Typed

LEMMA SerialBefore ==
    ASSUME Typed, NEW c \in Clients, ghost'.serial,
           \/ Done(c) \/ Fail(c) \/ Swept(c)
           \/ UNCHANGED ghost \/ ghost' = Unsure(ghost)
           \/ \E p : Judge(p)
    PROVE  ghost.serial
<1>1. Settle(op[c], ghost).serial => ghost.serial
  <2>1. ~ghost.serial => Settle(op[c], ghost) = ghost
    BY DEF Settle
  <2>2. QED
    BY <2>1
<1>2. Swept(c) => (ghost'.serial <=> Settle(op[c], ghost).serial)
  <2>1. PICK g, left : g = Settle(op[c], ghost) /\ left = {p \in op[c].owed : ghost.serial /\ Has(p)}
    OBVIOUS
  <2>2. CASE op[c] \in OpRecord
    BY <2>1, <2>2, SettleTyped DEF Swept, Typed, GhostType
  <2>3. CASE ~ghost.serial
    BY <2>3 DEF Swept, Settle, Typed
  <2>4. CASE ghost.serial
    BY <2>4 DEF Swept, Settle, Typed, Unsure
  <2>5. QED
    BY <2>3, <2>4
<1>3. ghost' = Unsure(ghost) => ~ghost'.serial
  BY DEF Unsure, Typed
<1>4. QED
  BY <1>1, <1>2, <1>3 DEF Done, Fail, Judge, Typed

\* What a call that ends leaves a reader to expect.
LEMMA SettledIs ==
    ASSUME Typed, NEW o \in OpRecord, ghost.serial, Settle(o, ghost).serial
    PROVE  /\ ~Diverges(o)
           /\ Settle(o, ghost).shadow = Expected(o, ghost.shadow)
           /\ Settle(o, ghost).due = Due(o, ghost.due)
           /\ Settle(o, ghost).missed = ghost.missed
           /\ Settle(o, ghost).wronged = ghost.wronged
<1>1. ~Unsure(ghost).serial
  BY DEF Unsure, Typed
<1>2. ~Diverges(o)
  BY <1>1 DEF Settle
<1>3. PICK s, d : s = Expected(o, ghost.shadow) /\ d = Due(o, ghost.due)
  OBVIOUS
<1>4. Settle(o, ghost) = [ghost EXCEPT !.shadow = s, !.due = d]
  BY <1>2, <1>3 DEF Settle, Typed
<1>5. QED
  BY <1>2, <1>3, <1>4 DEF Typed

LEMMA DoneIs ==
    ASSUME Typed, NEW c \in Clients, op[c] \in OpRecord, Done(c) \/ Swept(c), ghost'.serial
    PROVE  /\ ghost.serial /\ ~Diverges(op[c]) /\ op'[c] = Idle
           /\ ghost'.shadow = Expected(op[c], ghost.shadow)
           /\ ghost'.due = Due(op[c], ghost.due)
           /\ ghost'.wronged = ghost.wronged
           /\ Done(c) => ghost'.missed = ghost.missed
           /\ Swept(c) => ghost'.missed = ghost.missed \cup {p \in op[c].owed : Has(p)}
<1>1. ghost.serial
  BY SerialBefore
<1>2. op'[c] = Idle
  BY DEF Done, Swept, Typed
<1>3. PICK g \in GhostType : g = Settle(op[c], ghost)
  BY SettleTyped DEF Typed, GhostType
<1>4. PICK left : left = {p \in op[c].owed : Has(p)}
  OBVIOUS
<1>5. Swept(c) => ghost' = [g EXCEPT !.missed = @ \cup left]
  BY <1>1, <1>3, <1>4 DEF Swept
<1>6. Done(c) => ghost' = g
  BY <1>3 DEF Done
<1>7. g.serial
  BY <1>5, <1>6 DEF GhostType
<1>8. /\ ~Diverges(op[c])
      /\ g.shadow = Expected(op[c], ghost.shadow)
      /\ g.due = Due(op[c], ghost.due)
      /\ g.missed = ghost.missed
      /\ g.wronged = ghost.wronged
  BY <1>1, <1>3, <1>7, SettledIs
<1>9. QED
  BY <1>1, <1>2, <1>4, <1>5, <1>6, <1>8 DEF GhostType

LEMMA ExpectedIs ==
    ASSUME NEW o \in OpRecord, NEW s
    PROVE  /\ o.kind \in {"put", "putStream", "putTimed"} => Expected(o, s) = [s EXCEPT ![o.p] = <<o.n>>]
           /\ o.kind = "append" => Expected(o, s) = [s EXCEPT ![o.p] = Append(IF s[o.p] = Missing THEN <<>> ELSE s[o.p], o.n)]
           /\ o.kind = "prepend" => Expected(o, s) = [s EXCEPT ![o.p] = <<o.n>> \o (IF s[o.p] = Missing THEN <<>> ELSE s[o.p])]
           /\ o.kind = "delete" => Expected(o, s) = [s EXCEPT ![o.p] = Missing]
           /\ o.kind = "copy" => Expected(o, s) = [s EXCEPT ![o.q] = s[o.p]]
           /\ o.kind = "move" => Expected(o, s) = [s EXCEPT ![o.p] = Missing, ![o.q] = s[o.p]]
           /\ o.kind = "deleteDirectory" => Expected(o, s) = [p \in Paths |-> IF p \in Nested THEN Missing ELSE s[p]]
           /\ o.kind = "deleteExpired" => Expected(o, s) = [p \in Paths |-> IF store[p] = {} THEN Missing ELSE s[p]]
           /\ o.kind \in {"setVisibility", "makeDirectory"} => Expected(o, s) = s
  BY DEF Expected

\* A call that does in its last step what it was asked to, from the contents
\* a reader expects, leaves those a reader expects.
LEMMA Meets ==
    ASSUME Typed, NEW c \in Clients, op[c] \in OpRecord, Done(c), ghost'.serial, Contents = ghost.shadow
    PROVE  /\ op[c].kind \in {"put", "putStream", "putTimed"} /\ Store(op[c].p, <<op[c].n>>) => Contents' = ghost'.shadow
           /\ op[c].kind = "append" /\ Store(op[c].p, Append(Content(op[c].p), op[c].n)) => Contents' = ghost'.shadow
           /\ op[c].kind = "prepend" /\ Store(op[c].p, <<op[c].n>> \o Content(op[c].p)) => Contents' = ghost'.shadow
           /\ op[c].kind = "delete" /\ Remove({op[c].p}) => Contents' = ghost'.shadow
           /\ op[c].kind = "copy" /\ Has(op[c].p) /\ Store(op[c].q, Body(op[c].p)) => Contents' = ghost'.shadow
           /\ op[c].kind = "move" /\ store' = [store EXCEPT ![op[c].p] = {}, ![op[c].q] = store[op[c].p]]
                 => Contents' = ghost'.shadow
           /\ op[c].kind = "deleteDirectory" /\ Remove(Nested) => Contents' = ghost'.shadow
           /\ op[c].kind \in {"setVisibility", "makeDirectory"} /\ UNCHANGED store => Contents' = ghost'.shadow
<1> DEFINE p == op[c].p  q == op[c].q  n == op[c].n  k == op[c].kind
<1>1. p \in Paths /\ q \in Paths
  BY DEF OpRecord
<1>2. ghost'.shadow = Expected(op[c], Contents)
  BY DoneIs
<1>3. /\ Has(p) => Contents[p] = Body(p)
      /\ Content(p) = IF Contents[p] = Missing THEN <<>> ELSE Contents[p]
  BY <1>1, ContentsFacts
<1>4. Contents \in [Paths -> Bodies \cup {Missing}]
  BY ContentsFacts
<1>5. \A b : Store(p, b) => Contents' = [Contents EXCEPT ![p] = b]
  BY <1>1, StoreContents
<1>6. \A b : Store(q, b) => Contents' = [Contents EXCEPT ![q] = b]
  BY <1>1, StoreContents
<1>7. Remove({p}) => Contents' = [Contents EXCEPT ![p] = Missing]
  BY <1>1, <1>4, RemoveContents
<1>8. Remove(Nested) => Contents' = [x \in Paths |-> IF x \in Nested THEN Missing ELSE Contents[x]]
  BY RemoveContents
<1>9. store' = [store EXCEPT ![p] = {}, ![q] = store[p]] => Contents' = [Contents EXCEPT ![p] = Missing, ![q] = Contents[p]]
  BY <1>1, MoveContents
<1>10. UNCHANGED store => Contents' = Contents
  BY SameContents
<1>11. /\ k \in {"put", "putStream", "putTimed"} => ghost'.shadow = [Contents EXCEPT ![p] = <<n>>]
       /\ k = "delete" => ghost'.shadow = [Contents EXCEPT ![p] = Missing]
       /\ k = "copy" => ghost'.shadow = [Contents EXCEPT ![q] = Contents[p]]
       /\ k = "move" => ghost'.shadow = [Contents EXCEPT ![p] = Missing, ![q] = Contents[p]]
       /\ k = "deleteDirectory" => ghost'.shadow = [x \in Paths |-> IF x \in Nested THEN Missing ELSE Contents[x]]
       /\ k \in {"setVisibility", "makeDirectory"} => ghost'.shadow = Contents
  <2>1. /\ k \in {"put", "putStream", "putTimed"} => Expected(op[c], Contents) = [Contents EXCEPT ![p] = <<n>>]
        /\ k = "delete" => Expected(op[c], Contents) = [Contents EXCEPT ![p] = Missing]
        /\ k = "copy" => Expected(op[c], Contents) = [Contents EXCEPT ![q] = Contents[p]]
        /\ k = "move" => Expected(op[c], Contents) = [Contents EXCEPT ![p] = Missing, ![q] = Contents[p]]
    BY ExpectedIs, Zenon
  <2>2. k = "deleteDirectory" =>
            Expected(op[c], Contents) = [x \in Paths |-> IF x \in Nested THEN Missing ELSE Contents[x]]
    BY DEF Expected
  <2>3. k \in {"setVisibility", "makeDirectory"} => Expected(op[c], Contents) = Contents
    BY DEF Expected
  <2>4. QED
    BY <1>2, <2>1, <2>2, <2>3
<1>14. k = "append" => ghost'.shadow = [Contents EXCEPT ![p] = Append(Content(p), n)]
  <2>1. k = "append" => Expected(op[c], Contents) =
            [Contents EXCEPT ![p] = Append(IF Contents[p] = Missing THEN <<>> ELSE Contents[p], n)]
    BY ExpectedIs, Zenon
  <2>2. QED
    BY <1>2, <1>3, <2>1
<1>15. k = "prepend" => ghost'.shadow = [Contents EXCEPT ![p] = <<n>> \o Content(p)]
  <2>1. k = "prepend" => Expected(op[c], Contents) =
            [Contents EXCEPT ![p] = <<n>> \o (IF Contents[p] = Missing THEN <<>> ELSE Contents[p])]
    BY ExpectedIs, Zenon
  <2>2. QED
    BY <1>2, <1>3, <2>1
<1> HIDE DEF p, q, n, k
<1>12. /\ k \in {"put", "putStream", "putTimed"} /\ Store(p, <<n>>) => Contents' = ghost'.shadow
       /\ k = "append" /\ Store(p, Append(Content(p), n)) => Contents' = ghost'.shadow
       /\ k = "prepend" /\ Store(p, <<n>> \o Content(p)) => Contents' = ghost'.shadow
       /\ k = "delete" /\ Remove({p}) => Contents' = ghost'.shadow
       /\ k = "copy" /\ Has(p) /\ Store(q, Body(p)) => Contents' = ghost'.shadow
       /\ k = "move" /\ store' = [store EXCEPT ![p] = {}, ![q] = store[p]] => Contents' = ghost'.shadow
       /\ k = "deleteDirectory" /\ Remove(Nested) => Contents' = ghost'.shadow
       /\ k \in {"setVisibility", "makeDirectory"} /\ UNCHANGED store => Contents' = ghost'.shadow
  <2>1. k \in {"put", "putStream", "putTimed"} /\ Store(p, <<n>>) => Contents' = ghost'.shadow
    BY <1>5, <1>11
  <2>2. k = "append" /\ Store(p, Append(Content(p), n)) => Contents' = ghost'.shadow
    BY <1>5, <1>14
  <2>3. k = "prepend" /\ Store(p, <<n>> \o Content(p)) => Contents' = ghost'.shadow
    BY <1>5, <1>15
  <2>4. k = "copy" /\ Has(p) /\ Store(q, Body(p)) => Contents' = ghost'.shadow
    BY <1>3, <1>6, <1>11
  <2>5. QED
    BY <1>7, <1>8, <1>9, <1>10, <1>11, <2>1, <2>2, <2>3, <2>4
<1>13. QED
  BY <1>12 DEF p, q, n, k

\* What a call that goes to another step takes along.
LEMMA GotoFields ==
    ASSUME Typed, NEW c \in Clients, op[c] \in OpRecord, NEW pc, pc # "idle", Goto(c, pc)
    PROVE  /\ op'[c] # Idle /\ op'[c].pc = pc
           /\ op'[c].kind = op[c].kind /\ op'[c].p = op[c].p /\ op'[c].q = op[c].q /\ op'[c].n = op[c].n
           /\ op'[c].read = op[c].read /\ op'[c].id = op[c].id /\ op'[c].todo = op[c].todo
           /\ op'[c].snap = op[c].snap /\ op'[c].owed = op[c].owed
<1>1. op'[c] = [op[c] EXCEPT !.pc = pc]
  BY DEF Goto, Typed
<1>2. op'[c].pc = pc
  BY <1>1 DEF OpRecord
<1>3. QED
  BY <1>1, <1>2 DEF OpRecord, Idle

\* What is so of the contents while a client is idle, or at a step of a call.
Sound(c) ==
    IF op[c] = Idle THEN Contents = ghost.shadow ELSE Shown(op[c]) /\ Noted(op[c])

\* Before its first step, and in calls of one step, a call finds the contents
\* that a reader expects.
LEMMA AtRest ==
    ASSUME NEW o \in OpRecord, Shown(o),
           o.pc \in {"start", "found", "put", "find", "open"}
    PROVE  o.kind # "deleteExpired" \/ o.pc = "start" => Contents = ghost.shadow
  BY DEF Shown

\* A sweep that ends leaves the contents a reader expects.
LEMMA SweptMeets ==
    ASSUME Typed, NEW c \in Clients, op[c] \in OpRecord, Swept(c), ghost'.serial, UNCHANGED store,
           op[c].kind = "deleteExpired", \A x \in Paths : Has(x) => Contents[x] = ghost.shadow[x]
    PROVE  Contents' = ghost'.shadow
<1>1. ghost'.shadow = [p \in Paths |-> IF store[p] = {} THEN Missing ELSE ghost.shadow[p]]
  <2>1. ghost'.shadow = Expected(op[c], ghost.shadow)
    BY DoneIs
  <2>2. QED
    BY <2>1 DEF Expected
<1>2. Contents = [p \in Paths |-> IF store[p] = {} THEN Missing ELSE ghost.shadow[p]]
  BY DEF Contents, Has
<1>3. QED
  BY <1>1, <1>2, SameContents

\* Files that are not removed keep their contents.
LEMMA RemoveSpares ==
    ASSUME Typed, NEW ps, Remove(ps)
    PROVE  \A x \in Paths : Has(x)' => x \notin ps /\ Has(x) /\ Contents'[x] = Contents[x]
<1>1. \A x \in Paths : store'[x] = IF x \in ps THEN {} ELSE store[x]
  BY DEF Remove
<1>2. QED
  BY <1>1, RemoveContents DEF Has

\* A call that fails in its first step leaves what a reader expects.
LEMMA FailSound ==
    ASSUME Typed, NEW c \in Clients, Fail(c), UNCHANGED store, Contents = ghost.shadow
    PROVE  Sound(c)'
  BY SameContents DEF Fail, Sound, Typed

\* A step of a call that goes on, with the same arguments.
LEMMA KeptFields ==
    ASSUME Typed, NEW c \in Clients, NEW o \in OpRecord, op' = [op EXCEPT ![c] = o]
    PROVE  op'[c] = o /\ op'[c] # Idle
  BY IdleIsNoRecord DEF Typed

\* What an old content is while the contents are those a reader expects.
LEMMA OldIs ==
    ASSUME Typed, Contents = ghost.shadow, NEW p \in Paths
    PROVE  Old(p) = Content(p)
  BY ContentsFacts DEF Old

\* A copy of a file to itself is one whose source and destination are the same.
LEMMA ItselfIs ==
    ASSUME Typed, Inodes, driver = "local", NEW c \in Clients, op[c] \in OpRecord, op[c].kind = "copy", op[c].pc = "open",
           Has(op[c].p), op[c].id = Inode(op[c].p)
    PROVE  ToItself(op[c]) <=> op[c].p = op[c].q
<1> DEFINE o == op[c]
<1>1. o.p \in Paths /\ o.q \in Paths /\ o # Idle /\ Target(o) = o.q
  BY IdleIsNoRecord DEF OpRecord, Target
<1>2. PICK f \in store[o.p] : f.id = o.id
  BY <1>1, InodeTyped DEF Inode
<1>3. CASE Has(o.q)
  <2>1. PICK g \in store[o.q] : g.id = Opened(o)
    BY <1>1, <1>3, InodeTyped DEF Inode, Opened
  <2>2. f.id = g.id => o.p = o.q
    BY <1>1, <1>2, <2>1 DEF Inodes
  <2>3. o.p = o.q => Opened(o) = o.id
    BY <1>1, <1>3 DEF Opened
  <2>4. QED
    BY <1>2, <2>1, <2>2, <2>3 DEF ToItself
<1>4. CASE ~Has(o.q)
  <2>1. Opened(o) = o.n
    BY <1>1, <1>4 DEF Opened
  <2>2. f.id # o.n
    BY <1>1, <1>2 DEF Inodes
  <2>3. QED
    BY <1>2, <1>4, <2>1, <2>2 DEF ToItself
<1>5. QED
  BY <1>3, <1>4

LEMMA LocalOpenSound ==
    ASSUME Typed, Inodes, ghost'.serial, NEW c \in Clients, op[c] \in OpRecord, Sound(c), NEW k \in 0 .. MaxOps, LocalOpen(c, k)
    PROVE  Sound(c)'
<1> DEFINE o == op[c]
           t == Target(op[c])
<1>1. Shown(o) /\ Noted(o) /\ driver = "local"
  BY IdleIsNoRecord DEF Sound, LocalOpen, Local, At
<1>2. o.p \in Paths /\ o.q \in Paths /\ o.n \in Chunk /\ t \in Paths
  BY WholeIsBody DEF OpRecord
<1>3. \/ o.pc = "open" /\ o.kind \in {"put", "putTimed", "putStream", "prepend", "copy"}
      \/ o.pc = "start" /\ o.kind = "append"
  BY DEF LocalOpen, Local, At
<1>4. Contents = ghost.shadow
  BY <1>1, <1>3, AtRest
<1>5. o.kind = "copy" => o.pc = "open" /\ Has(o.p) /\ o.id = Inode(o.p) /\ o.read = ghost.shadow[o.p] /\ t = o.q
  BY <1>1, <1>3 DEF Noted, Target
<1>6. o.kind = "copy" => (ToItself(o) <=> o.p = o.q)
  BY <1>1, <1>5, ItselfIs
<1>7. CASE ~DirThere(t)
  <2>1. Fail(c) /\ UNCHANGED store
    BY <1>7 DEF LocalOpen
  <2>2. QED
    BY <1>4, <2>1, FailSound
<1>8. CASE DirThere(t) /\ ToItself(o)
  <2>1. Done(c) /\ UNCHANGED store /\ o.kind = "copy" /\ o.p = o.q
    BY <1>6, <1>8 DEF LocalOpen, ToItself
  <2>2. ghost'.shadow = [ghost.shadow EXCEPT ![o.q] = ghost.shadow[o.p]] /\ op'[c] = Idle
    BY <2>1, DoneIs, ExpectedIs
  <2>3. ghost'.shadow = ghost.shadow
    BY <2>1, <2>2 DEF Typed
  <2>4. QED
    BY <1>4, <2>1, <2>2, <2>3, SameContents DEF Sound
<1>9. CASE DirThere(t) /\ ~ToItself(o)
  <2>1. PICK b : b = IF o.kind = "append" THEN Content(t) ELSE SubSeq(Whole(o), 1, k)
    OBVIOUS
  <2>2. store' = [store EXCEPT ![t] = {[id |-> Opened(o), body |-> b]}]
    BY <1>9, <2>1 DEF LocalOpen
  <2>3. Keep(c, [o EXCEPT !.pc = "fill", !.id = Opened(o)]) /\ UNCHANGED hasDir
    BY <1>9 DEF LocalOpen
  <2>4. PICK i \in Nat : i = Opened(o)
    BY OpenedTyped
  <2>5. PICK r \in OpRecord : r = [o EXCEPT !.pc = "fill", !.id = i]
    BY DEF OpRecord, Pcs
  <2>6. /\ r.pc = "fill" /\ r.id = i /\ r.kind = o.kind /\ r.p = o.p /\ r.q = o.q /\ r.n = o.n /\ r.read = o.read
    BY <2>5 DEF OpRecord
  <2>7. op'[c] = r /\ op'[c] # Idle /\ UNCHANGED <<ghost, driver>>
    BY <2>3, <2>4, <2>5, KeptFields DEF Keep
  <2>8. Contents' = [Contents EXCEPT ![t] = b]
    BY <1>2, <2>2, FileContents
  <2>9. Target(r) = t
    BY <2>6 DEF Target
  <2>10. \A x \in Paths : Old(x)' = Old(x)
    BY <2>7 DEF Old
  <2>11. o.kind = "append" => b = Old(o.p)
    BY <1>2, <1>4, <2>1, OldIs DEF Target
  <2>12. store'[t] = {[id |-> i, body |-> b]}
    BY <1>2, <2>2, <2>4 DEF Typed
  <2>13. \A x \in Paths : x # t => Contents'[x] = ghost'.shadow[x]
    BY <1>4, <2>7, <2>8
  <2>14. Half(op[c])'
    <3>1. \E f : store'[t] = {f} /\ f.id = i /\ (o.kind = "append" => f.body = Old(o.p))
      <4>1. PICK f : f = [id |-> i, body |-> b]
        OBVIOUS
      <4>2. f.id = i /\ f.body = b
        BY <4>1
      <4>3. QED
        BY <2>11, <2>12, <4>1, <4>2
    <3>2. QED
      BY <1>2, <2>6, <2>7, <2>9, <2>10, <2>13, <3>1 DEF Half, Target
  <2>15. Shown(op[c])'
    BY <1>3, <2>6, <2>7, <2>14 DEF Shown
  <2>16. o.kind = "prepend" => o.read = Old(o.p)
    BY <1>1, <1>3 DEF Noted
  <2>17. t \in Nested => hasDir'
    BY <1>9, <2>3 DEF DirThere
  <2>18. Noted(op[c])'
    BY <1>1, <1>2, <1>3, <1>5, <1>6, <1>9, <2>6, <2>7, <2>9, <2>10, <2>16, <2>17 DEF Noted, Target, DirThere
  <2>19. QED
    BY <2>7, <2>15, <2>18 DEF Sound
<1>10. QED
  BY <1>7, <1>8, <1>9

LEMMA LocalWriteSound ==
    ASSUME Typed, Inodes, ghost'.serial, NEW c \in Clients, op[c] \in OpRecord, Sound(c), LocalWrite(c)
    PROVE  Sound(c)'
<1> DEFINE o == op[c]
           t == Target(op[c])
<1>1. /\ Shown(o) /\ Noted(o) /\ driver = "local" /\ o.pc = "fill"
      /\ o.kind \in {"put", "putTimed", "putStream", "prepend", "copy", "append"}
  BY IdleIsNoRecord DEF Sound, LocalWrite, Local, At
<1>2. o.p \in Paths /\ o.q \in Paths /\ o.n \in Chunk /\ t \in Paths /\ o.read \in Bodies
  BY WholeIsBody DEF OpRecord
<1>3. Half(o)
  BY <1>1 DEF Shown
<1>4. PICK g : store[t] = {g} /\ g.id = o.id /\ (o.kind = "append" => g.body = Old(o.p))
  BY <1>3 DEF Half
<1>5. \A x \in Paths : x # t => Contents[x] = ghost.shadow[x]
  BY <1>3 DEF Half
<1>6. PICK b \in Written(o) :
          store' = [x \in Paths |->
              {IF f.id # o.id THEN f ELSE [f EXCEPT !.body = IF o.kind = "append" THEN Append(@, o.n) ELSE b] : f \in store[x]}]
  BY DEF LocalWrite
<1>7. Contents' = [Contents EXCEPT ![t] = Filled(o, g, b)]
  <2>1. ~ \A x \in Paths : \A f \in store[x] : f.id # o.id
    BY <1>2, <1>4
  <2>2. PICK x \in Paths : \E f \in store[x] :
            /\ f.id = o.id /\ store[x] = {f} /\ Content(x) = f.body /\ Contents[x] = f.body
            /\ store' = [store EXCEPT ![x] = {[id |-> f.id, body |-> Filled(o, f, b)]}]
            /\ Contents' = [Contents EXCEPT ![x] = Filled(o, f, b)]
    BY <1>1, <1>6, <2>1, WriteContents
  <2>3. PICK f \in store[x] : f.id = o.id /\ Contents' = [Contents EXCEPT ![x] = Filled(o, f, b)]
    BY <2>2
  <2>4. x = t
    BY <1>1, <1>2, <1>4, <2>3 DEF Inodes
  <2>5. f = g
    BY <1>4, <2>3, <2>4
  <2>6. QED
    BY <2>3, <2>4, <2>5
<1>8. o.kind # "append" => Filled(o, g, b) = Whole(o)
  <2>1. o.kind # "append" => Filled(o, g, b) = b
    BY DEF Filled
  <2>2. o.kind # "copy" => b = Whole(o)
    BY <1>6 DEF Written
  <2>3. ASSUME o.kind = "copy" PROVE b = Whole(o)
    <3>1. o.p # o.q /\ o.read = ghost.shadow[o.p] /\ t = o.q
      BY <1>1, <2>3 DEF Noted, Target
    <3>2. Contents[o.p] = o.read /\ o.read # Missing
      BY <1>2, <1>5, <3>1, MissingIsNoBody
    <3>3. Has(o.p) /\ Body(o.p) = o.read
      BY <1>2, <3>2, ContentsFacts
    <3>4. \A f \in store[o.p] : f.body = o.read
      <4>1. (CHOOSE f \in store[o.p] : TRUE) \in store[o.p]
        BY <1>2, <3>3, InodeTyped
      <4>2. \A f \in store[o.p] : f = (CHOOSE h \in store[o.p] : TRUE)
        BY <1>1, <1>2, <4>1 DEF Inodes
      <4>3. QED
        BY <3>3, <4>2 DEF Body
    <3>5. Whole(o) = o.read
      BY <2>3 DEF Whole
    <3>6. QED
      BY <1>6, <3>4, <3>5 DEF Written
  <2>4. QED
    BY <2>1, <2>2, <2>3
<1>9. PICK v : v = Filled(o, g, b)
  OBVIOUS
<1>10. Contents' = [ghost.shadow EXCEPT ![t] = v]
  <2>1. Contents \in [Paths -> Bodies \cup {Missing}] /\ ghost.shadow \in [Paths -> Bodies \cup {Missing}]
    BY ContentsFacts DEF Typed
  <2>2. QED
    BY <1>2, <1>5, <1>7, <1>9, <2>1
<1>11. /\ o.kind \in {"put", "putTimed", "putStream"} => v = <<o.n>> /\ t = o.p
       /\ o.kind = "append" => v = Append(Old(o.p), o.n) /\ t = o.p
       /\ o.kind = "prepend" => v = <<o.n>> \o Existing(o) /\ t = o.p /\ o.read = Old(o.p)
       /\ o.kind = "copy" => v = o.read /\ t = o.q /\ o.read = ghost.shadow[o.p]
  <2>1. o.kind \in {"put", "putTimed", "putStream"} => v = <<o.n>> /\ t = o.p
    BY <1>8, <1>9 DEF Whole, Target
  <2>2. o.kind = "append" => v = Append(Old(o.p), o.n) /\ t = o.p
    BY <1>4, <1>9 DEF Filled, Target
  <2>3. o.kind = "prepend" => v = <<o.n>> \o Existing(o) /\ t = o.p /\ o.read = Old(o.p)
    <3>1. o.kind = "prepend" => v = <<o.n>> \o Existing(o) /\ t = o.p
      BY <1>8, <1>9 DEF Whole, Target
    <3>2. o.kind = "prepend" => o.read = Old(o.p)
      BY <1>1 DEF Noted
    <3>3. QED
      BY <3>1, <3>2
  <2>4. o.kind = "copy" => v = o.read /\ t = o.q /\ o.read = ghost.shadow[o.p]
    BY <1>1, <1>8, <1>9 DEF Whole, Target, Noted
  <2>5. QED
    BY <2>1, <2>2, <2>3, <2>4
<1>12. CASE o.kind = "putTimed"
  <2>1. Goto(c, "meta") /\ UNCHANGED hasDir
    BY <1>12 DEF LocalWrite
  <2>2. op'[c] # Idle /\ op'[c].pc = "meta" /\ op'[c].kind = "putTimed" /\ op'[c].p = o.p /\ op'[c].n = o.n
    BY <1>12, <2>1, GotoFields
  <2>3. UNCHANGED <<ghost, driver>>
    BY <2>1 DEF Goto
  <2>4. Shown(op[c])'
    BY <1>10, <1>11, <1>12, <2>2, <2>3 DEF Shown
  <2>5. o.p \in Nested => hasDir'
    BY <1>1, <1>12, <2>1 DEF Noted, Target, DirThere
  <2>6. Noted(op[c])'
    BY <1>1, <2>2, <2>3, <2>5 DEF Noted, Target, DirThere
  <2>7. QED
    BY <2>2, <2>4, <2>6 DEF Sound
<1>13. CASE o.kind # "putTimed"
  <2>1. Done(c)
    BY <1>13 DEF LocalWrite
  <2>2. op'[c] = Idle /\ ~Diverges(o) /\ ghost'.shadow = Expected(o, ghost.shadow)
    BY <2>1, DoneIs
  <2>3. Existing(o) = o.read
    BY <2>2 DEF Diverges
  <2>4. Expected(o, ghost.shadow) = [ghost.shadow EXCEPT ![t] = v]
    <3>1. CASE o.kind \in {"put", "putStream"}
      <4>1. Expected(o, ghost.shadow) = [ghost.shadow EXCEPT ![o.p] = <<o.n>>]
        BY <3>1, ExpectedIs, Zenon
      <4>2. QED
        BY <1>11, <3>1, <4>1
    <3>2. CASE o.kind = "append"
      <4>1. Expected(o, ghost.shadow) = [ghost.shadow EXCEPT ![o.p] = Append(Old(o.p), o.n)]
        BY <3>2, ExpectedIs, Zenon DEF Old
      <4>2. QED
        BY <1>11, <3>2, <4>1
    <3>3. CASE o.kind = "prepend"
      <4>1. Expected(o, ghost.shadow) = [ghost.shadow EXCEPT ![o.p] = <<o.n>> \o Old(o.p)]
        BY <3>3, ExpectedIs, Zenon DEF Old
      <4>2. v = <<o.n>> \o Old(o.p) /\ t = o.p
        BY <1>11, <2>3, <3>3
      <4>3. QED
        BY <4>1, <4>2
    <3>4. CASE o.kind = "copy"
      <4>1. Expected(o, ghost.shadow) = [ghost.shadow EXCEPT ![o.q] = ghost.shadow[o.p]]
        BY <3>4, ExpectedIs, Zenon
      <4>2. QED
        BY <1>11, <3>4, <4>1
    <3>5. QED
      BY <1>1, <1>13, <3>1, <3>2, <3>3, <3>4
  <2>5. QED
    BY <1>10, <2>2, <2>4 DEF Sound
<1>14. QED
  BY <1>12, <1>13

LEMMA LocalSound ==
    ASSUME Typed, Typed', Inodes, ghost'.serial, NEW c \in Clients, op[c] \in OpRecord, Sound(c), LocalStep(c)
    PROVE  Sound(c)'
<1> DEFINE o == op[c]
<1>1. Shown(o) /\ Noted(o) /\ o # Idle /\ driver = "local"
  BY IdleIsNoRecord, LocalBusy DEF Sound
<1>2. o.p \in Paths /\ o.q \in Paths /\ o.n \in Chunk
  BY DEF OpRecord
<1>3. ASSUME LocalPut(c) \/ LocalPutStream(c) PROVE Sound(c)'
  <2>1. Contents = ghost.shadow
    BY <1>1, <1>3, AtRest DEF LocalPut, LocalPutStream, Local, At
  <2>2. Goto(c, "open") /\ UNCHANGED store /\ o.kind \in {"put", "putTimed", "putStream"}
    BY <1>3 DEF LocalPut, LocalPutStream, Local, At
  <2>3. op'[c] # Idle /\ op'[c].pc = "open" /\ op'[c].kind = o.kind /\ op'[c].p = o.p
    BY <2>2, GotoFields
  <2>4. UNCHANGED <<ghost, driver>>
    BY <2>2 DEF Goto
  <2>5. QED
    BY <1>1, <2>1, <2>2, <2>3, <2>4, SameContents DEF Sound, Shown, Noted
<1>4. ASSUME LocalRead(c, TRUE) \/ LocalRead(c, FALSE) PROVE Sound(c)'
  <2>1. Contents = ghost.shadow
    BY <1>1, <1>4, AtRest DEF LocalRead, Local, At
  <2>2. UNCHANGED <<store, ghost, driver>> /\ (LocalRead(c, TRUE) => ~Has(o.p)) /\ o.kind = "prepend"
    BY <1>4, UnsureIsUnsure DEF LocalRead, Local, At
  <2>3. op' = [op EXCEPT ![c] = [op[c] EXCEPT !.pc = "open", !.read = Content(o.p)]]
    BY <1>4, <2>2 DEF LocalRead, Content
  <2>4. op'[c] # Idle /\ op'[c].pc = "open" /\ op'[c].kind = o.kind /\ op'[c].p = o.p /\ op'[c].read = Content(o.p)
    BY <2>3 DEF Typed, OpRecord, Idle
  <2>5. Old(o.p)' = Content(o.p)
    BY <1>2, <2>1, <2>2, <2>4, OldIs DEF Old
  <2>6. Shown(op[c])'
    BY <2>1, <2>2, <2>4, SameContents DEF Shown
  <2>7. Noted(op[c])'
    BY <1>1, <2>2, <2>4, <2>5 DEF Noted, Old
  <2>8. QED
    BY <2>4, <2>6, <2>7 DEF Sound
<1>5. ASSUME LocalCopy(c) PROVE Sound(c)'
  <2>1. Contents = ghost.shadow /\ UNCHANGED store
    BY <1>1, <1>5, AtRest DEF LocalCopy, Local, At
  <2>2. CASE ~Has(o.p)
    BY <1>5, <2>1, <2>2, FailSound DEF LocalCopy
  <2>3. CASE Has(o.p)
    <3>1. Keep(c, [o EXCEPT !.pc = "open", !.read = Body(o.p), !.id = Inode(o.p)]) /\ o.kind = "copy"
      BY <1>5, <2>3 DEF LocalCopy, Local, At
    <3>2. PICK b \in Bodies, i \in Nat : b = Body(o.p) /\ i = Inode(o.p)
      BY <1>2, <2>3, InodeTyped
    <3>3. PICK r \in OpRecord : r = [o EXCEPT !.pc = "open", !.read = b, !.id = i]
      BY DEF OpRecord, Pcs
    <3>4. r.pc = "open" /\ r.read = b /\ r.id = i /\ r.kind = o.kind /\ r.p = o.p /\ r.q = o.q
      BY <3>3 DEF OpRecord
    <3>5. op'[c] = r /\ op'[c] # Idle /\ UNCHANGED <<ghost, driver>>
      BY <3>1, <3>2, <3>3, KeptFields DEF Keep
    <3>6. ghost.shadow[o.p] = b
      BY <1>2, <2>1, <2>3, <3>2, ContentsFacts
    <3>7. Inode(o.p)' = i /\ Has(o.p)'
      BY <2>1, <2>3, <3>2, <3>4, <3>5 DEF Inode, Has
    <3>8. Shown(op[c])'
      BY <2>1, <3>1, <3>4, <3>5, SameContents DEF Shown
    <3>9. Noted(op[c])'
      BY <1>1, <2>1, <2>3, <3>1, <3>2, <3>4, <3>5, <3>6, <3>7 DEF Noted, Inode, Has
    <3>10. QED
      BY <3>5, <3>8, <3>9 DEF Sound
  <2>4. QED
    BY <2>2, <2>3
<1>6. ASSUME NEW k \in 0 .. MaxOps, LocalOpen(c, k) PROVE Sound(c)'
  BY <1>6, LocalOpenSound
<1>7. ASSUME LocalWrite(c) PROVE Sound(c)'
  BY <1>7, LocalWriteSound
<1>8. ASSUME LocalCopyFails(c) \/ LocalTorn(c) \/ LocalSweepFails(c) PROVE FALSE
  BY <1>8, UnsureIsUnsure DEF LocalCopyFails, LocalTorn, LocalSweepFails, Torn
<1>9. ASSUME LocalPutTimed(c) PROVE Sound(c)'
  <2>1. DirThere(o.p) /\ ~Misnamed(o)
    BY <1>1, <1>9 DEF LocalPutTimed, Local, At, Noted, Misnamed, Target
  <2>2. Contents = [ghost.shadow EXCEPT ![o.p] = <<o.n>>]
    BY <1>1, <1>9, <2>1 DEF Shown, LocalPutTimed, Local, At
  <2>3. Done(c) /\ UNCHANGED store
    BY <1>9, <2>1 DEF LocalPutTimed
  <2>4. ghost'.shadow = [ghost.shadow EXCEPT ![o.p] = <<o.n>>] /\ op'[c] = Idle
    BY <1>9, <2>3, DoneIs, ExpectedIs DEF LocalPutTimed, Local, At
  <2>5. QED
    BY <2>2, <2>3, <2>4, SameContents DEF Sound
<1>10. ASSUME LocalSetVisibility(c) \/ LocalDelete(c) \/ LocalMove(c) \/ LocalMakeDirectory(c) PROVE Sound(c)'
  <2>1. Contents = ghost.shadow
    BY <1>1, <1>10, AtRest DEF LocalSetVisibility, LocalDelete, LocalMove, LocalMakeDirectory, Local, At
  <2>2. CASE Fail(c) /\ UNCHANGED store
    BY <2>1, <2>2, FailSound
  <2>3. CASE ~(Fail(c) /\ UNCHANGED store)
    <3>1. Done(c)
      BY <1>10, <2>3 DEF LocalSetVisibility, LocalDelete, LocalMove, LocalMakeDirectory
    <3>2. Contents' = ghost'.shadow
      BY <1>10, <2>1, <2>3, <3>1, Meets DEF LocalSetVisibility, LocalDelete, LocalMove, LocalMakeDirectory, Local, At
    <3>3. QED
      BY <3>1, <3>2, DoneIs DEF Sound
  <2>4. QED
    BY <2>2, <2>3
<1>11. ASSUME LocalListDirectory(c) PROVE Sound(c)'
  <2>1. o.kind = "deleteDirectory" /\ o.pc \in {"start", "delete"} /\ UNCHANGED <<store, ghost, driver>>
    BY <1>11 DEF LocalListDirectory, Local, At, Keep
  <2>2. \A x \in Paths : x \notin Nested => Contents[x] = ghost.shadow[x]
    BY <1>1, <2>1 DEF Shown, Listing
  <2>3. PICK todo \in SUBSET Paths : todo = {p \in Nested : Has(p)}
    BY DiskAssumption
  <2>4. op' = [op EXCEPT ![c] = [o EXCEPT !.pc = "delete", !.todo = todo]]
    BY <1>11, <2>3 DEF LocalListDirectory, Keep
  <2>5. op'[c] # Idle /\ op'[c].pc = "delete" /\ op'[c].kind = "deleteDirectory" /\ op'[c].todo = todo
    BY <2>1, <2>4 DEF Typed, OpRecord, Idle
  <2>6. UNCHANGED Contents /\ \A x \in Paths : Has(x)' <=> Has(x)
    BY <2>1, SameContents
  <2>7. Shown(op[c])'
    BY <1>1, <2>1, <2>2, <2>3, <2>5, <2>6 DEF Shown, Listing
  <2>8. Noted(op[c])'
    BY <1>1, <2>1, <2>3, <2>5 DEF Noted
  <2>9. QED
    BY <2>5, <2>7, <2>8 DEF Sound
<1>12. ASSUME NEW p \in Paths, LocalUnlink(c, p) PROVE Sound(c)'
  <2>1. /\ o.kind = "deleteDirectory" /\ o.pc = "delete" /\ p \in o.todo /\ Remove({p}) /\ UNCHANGED <<ghost, driver>>
    BY <1>12 DEF LocalUnlink, Local, At, Keep
  <2>2. p \in Nested /\ o.todo \subseteq Nested
    BY <1>1, <2>1 DEF Noted
  <2>3. \A x \in Paths : IF x \in Nested THEN Has(x) => x \in o.todo ELSE Contents[x] = ghost.shadow[x]
    BY <1>1, <2>1 DEF Shown, Listing
  <2>4. op'[c] # Idle /\ op'[c].pc = "delete" /\ op'[c].kind = "deleteDirectory" /\ op'[c].todo = o.todo \ {p}
    BY <1>12, <2>1 DEF LocalUnlink, Keep, Typed, OpRecord, Idle
  <2>5. \A x \in Paths : Has(x)' => x # p /\ Has(x)
    BY <2>1, RemoveSpares
  <2>6. \A x \in Paths : x # p => Contents'[x] = Contents[x]
    BY <2>1, RemoveContents
  <2>7. Shown(op[c])'
    BY <1>1, <2>1, <2>2, <2>3, <2>4, <2>5, <2>6 DEF Shown, Listing
  <2>8. Noted(op[c])'
    BY <1>1, <2>1, <2>2, <2>4 DEF Noted
  <2>9. QED
    BY <2>4, <2>7, <2>8 DEF Sound
<1>13. ASSUME LocalDeleteDirectory(c) PROVE Sound(c)'
  <2>1. o.kind = "deleteDirectory" /\ o.pc = "delete" /\ (\A p \in Nested : ~Has(p)) /\ Done(c) /\ UNCHANGED store
    BY <1>13 DEF LocalDeleteDirectory, Local, At
  <2>2. \A x \in Paths : x \notin Nested => Contents[x] = ghost.shadow[x]
    BY <1>1, <2>1 DEF Shown, Listing
  <2>3. op'[c] = Idle /\ ghost'.shadow = [x \in Paths |-> IF x \in Nested THEN Missing ELSE ghost.shadow[x]]
    <3>1. op'[c] = Idle /\ ghost'.shadow = Expected(o, ghost.shadow)
      BY <2>1, DoneIs
    <3>2. QED
      BY <2>1, <3>1 DEF Expected
  <2>4. Contents = ghost'.shadow
    BY <2>1, <2>2, <2>3, ContentsFacts
  <2>5. QED
    BY <2>1, <2>3, <2>4, SameContents DEF Sound
<1>14. ASSUME LocalSweep(c) PROVE Sound(c)'
  <2>1. Contents = ghost.shadow
    BY <1>1, <1>14, AtRest DEF LocalSweep, Local, At
  <2>2. op'[c] # Idle /\ op'[c].pc = "check" /\ op'[c].kind = "deleteExpired"
    BY <1>14 DEF LocalSweep, Local, At, Keep, Typed, OpRecord, Idle
  <2>3. UNCHANGED <<store, ghost, driver>>
    BY <1>14 DEF LocalSweep, Keep
  <2>4. QED
    BY <1>1, <2>1, <2>2, <2>3, SameContents DEF Sound, Shown, Noted
<1>15. ASSUME NEW p \in Paths, NEW fails \in BOOLEAN, LocalCheck(c, p, fails) PROVE Sound(c)'
  <2>1. \A x \in Paths : Has(x) => Contents[x] = ghost.shadow[x]
    BY <1>1, <1>15 DEF Shown, LocalCheck, Local, At
  <2>2. PICK r \in OpRecord : r.pc \in {"check", "delete"} /\ r.kind = o.kind /\ op' = [op EXCEPT ![c] = r]
    <3>1. PICK pc : pc = (IF exp[p] = "expired" /\ ~fails THEN "delete" ELSE "check")
      OBVIOUS
    <3>2. op' = [op EXCEPT ![c] = [op[c] EXCEPT !.pc = pc, !.p = p, !.todo = @ \ {p}]]
      BY <1>15, <3>1 DEF LocalCheck
    <3>3. PICK r \in OpRecord : r = [op[c] EXCEPT !.pc = pc, !.p = p, !.todo = @ \ {p}]
      BY <3>1 DEF OpRecord, Pcs
    <3>4. r.pc = pc /\ r.kind = o.kind
      BY <3>3 DEF OpRecord
    <3>5. QED
      BY <3>1, <3>2, <3>3, <3>4
  <2>3. op'[c] # Idle /\ op'[c].pc \in {"check", "delete"} /\ op'[c].kind = "deleteExpired"
    <3>1. o.kind = "deleteExpired"
      BY <1>15 DEF LocalCheck, Local, At
    <3>2. op'[c] = r /\ op'[c] # Idle
      BY <2>2, KeptFields
    <3>3. QED
      BY <2>2, <3>1, <3>2
  <2>4. UNCHANGED <<store, ghost, driver>>
    BY <1>15, UnsureIsUnsure DEF LocalCheck
  <2>5. QED
    BY <1>1, <2>1, <2>3, <2>4, SameContents DEF Sound, Shown, Noted
<1>16. ASSUME LocalDeleteExpired(c) PROVE Sound(c)'
  <2>1. \A x \in Paths : Has(x) => Contents[x] = ghost.shadow[x]
    BY <1>1, <1>16 DEF Shown, LocalDeleteExpired, Local, At
  <2>2. op'[c] # Idle /\ op'[c].pc \in {"check", "unmeta"} /\ op'[c].kind = "deleteExpired"
    BY <1>16 DEF LocalDeleteExpired, Local, At, Typed, OpRecord, Idle
  <2>3. driver' = "local" /\ ghost'.shadow = ghost.shadow
    BY <1>1, <1>16 DEF LocalDeleteExpired, Judge, Typed
  <2>4. \A x \in Paths : Has(x)' => Contents'[x] = ghost.shadow[x]
    BY <1>16, <2>1, RemoveSpares DEF LocalDeleteExpired
  <2>5. QED
    BY <2>2, <2>3, <2>4 DEF Sound, Shown, Noted
<1>17. ASSUME LocalDeleteMeta(c) PROVE Sound(c)'
  <2>1. \A x \in Paths : Has(x) => Contents[x] = ghost.shadow[x]
    BY <1>1, <1>17 DEF Shown, LocalDeleteMeta, Local, At
  <2>2. op'[c] # Idle /\ op'[c].pc = "check" /\ op'[c].kind = "deleteExpired"
    BY <1>17, GotoFields DEF LocalDeleteMeta, Local, At
  <2>3. UNCHANGED <<store, ghost, driver>>
    BY <1>17 DEF LocalDeleteMeta, Goto
  <2>4. QED
    BY <1>1, <2>1, <2>2, <2>3, SameContents DEF Sound, Shown, Noted
<1>18. ASSUME LocalSweepEnd(c) PROVE Sound(c)'
  <2>1. \A x \in Paths : Has(x) => Contents[x] = ghost.shadow[x]
    BY <1>1, <1>18 DEF Shown, LocalSweepEnd, Local, At
  <2>2. Contents' = ghost'.shadow
    BY <1>18, <2>1, SweptMeets DEF LocalSweepEnd, Local, At
  <2>3. QED
    BY <1>18, <2>2, DoneIs DEF LocalSweepEnd, Sound
<1>19. QED
  BY <1>3, <1>4, <1>5, <1>6, <1>7, <1>8, <1>9, <1>10, <1>11, <1>12, <1>13, <1>14, <1>15, <1>16, <1>17, <1>18 DEF LocalStep

\* A reading step of a sweep, or one that removes an expired file.
LEMMA SweepSound ==
    ASSUME Typed, NEW c \in Clients, op[c] \in OpRecord, op[c].kind = "deleteExpired",
           Contents = ghost.shadow \/ \A x \in Paths : Has(x) => Contents[x] = ghost.shadow[x],
           op'[c] # Idle, op'[c].kind = op[c].kind, op'[c].pc # "start", Noted(op[c])',
           ghost'.shadow = ghost.shadow,
           UNCHANGED store \/ \E ps : Remove(ps)
    PROVE  Sound(c)'
<1>1. \A x \in Paths : Has(x)' => Has(x) /\ Contents'[x] = Contents[x]
  BY SameContents, RemoveSpares
<1>2. \A x \in Paths : Has(x)' => Contents'[x] = ghost'.shadow[x]
  BY <1>1
<1>3. QED
  BY <1>2 DEF Sound, Shown

LEMMA BufferSound ==
    ASSUME Typed, Typed', ghost'.serial, NEW c \in Clients, op[c] \in OpRecord, Sound(c), BufferStep(c)
    PROVE  Sound(c)'
<1> DEFINE o == op[c]
<1>1. Shown(o) /\ Noted(o) /\ o # Idle
  BY IdleIsNoRecord DEF Sound
<1>2. o.p \in Paths /\ o.q \in Paths /\ o.n \in Chunk
  BY DEF OpRecord
<1>3. ASSUME ~BufferMove(c) PROVE Contents = ghost.shadow
  BY <1>1, <1>3, AtRest DEF BufferStep, BufferPut, ServicePutTimed, ServicePutStream, ServiceDeleteExpired,
     BufferDelete, BufferCopy, BufferPrepend, BufferAppend, BufferSetVisibility,
     BufferMakeDirectory, BufferDeleteDirectory, Buffer, At
<1>4. ASSUME BufferCopy(c), o.kind = "move" PROVE Sound(c)'
  <2>1. CASE Fail(c) /\ UNCHANGED store
    BY <1>3, <1>4, <2>1, FailSound DEF BufferCopy, BufferMove, Buffer, At
  <2>2. CASE Goto(c, "copied") /\ Has(o.p) /\ Store(o.q, Body(o.p))
    <3>1. Contents = ghost.shadow
      BY <1>3, <1>4 DEF BufferCopy, BufferMove, Buffer, At
    <3>2. Contents' = [Contents EXCEPT ![o.q] = Contents[o.p]]
      BY <1>2, <2>2, StoreContents, ContentsFacts
    <3>3. op'[c] # Idle /\ op'[c].pc = "copied" /\ op'[c].kind = "move" /\ op'[c].p = o.p /\ op'[c].q = o.q
      BY <1>4, <2>2, GotoFields
    <3>4. UNCHANGED <<ghost, driver>> /\ driver = "buffer"
      BY <1>4, <2>2 DEF Goto, BufferCopy, Buffer, At
    <3>5. QED
      BY <3>1, <3>2, <3>3, <3>4 DEF Sound, Shown, Noted
  <2>3. QED
    BY <1>4, <2>1, <2>2 DEF BufferCopy
<1>5. ASSUME BufferMove(c) PROVE Sound(c)'
  <2>1. Contents = [ghost.shadow EXCEPT ![o.q] = ghost.shadow[o.p]]
    BY <1>1, <1>5 DEF Shown, BufferMove, Buffer, At
  <2>2. op'[c] = Idle /\ o.p # o.q /\ ghost'.shadow = [ghost.shadow EXCEPT ![o.p] = Missing, ![o.q] = ghost.shadow[o.p]]
    BY <1>5, DoneIs, ExpectedIs DEF BufferMove, Buffer, At, Diverges
  <2>3. Contents' = [x \in Paths |-> IF x \in {o.p} THEN Missing ELSE Contents[x]]
    BY <1>5, RemoveContents DEF BufferMove
  <2>4. ghost.shadow \in [Paths -> Bodies \cup {Missing}]
    BY DEF Typed
  <2>5. Contents' = ghost'.shadow
    BY <1>2, <2>1, <2>2, <2>3, <2>4
  <2>6. QED
    BY <2>2, <2>5 DEF Sound
<1>6. ASSUME ServiceDeleteExpired(c) PROVE Sound(c)'
  <2>1. Contents = ghost.shadow
    BY <1>3, <1>6 DEF ServiceDeleteExpired, BufferMove, Buffer, At
  <2>2. Contents' = ghost'.shadow
    BY <1>6, <2>1, SweptMeets DEF ServiceDeleteExpired, Buffer, At
  <2>3. QED
    BY <1>6, <2>2, DoneIs DEF ServiceDeleteExpired, Sound
<1>7. ASSUME BufferDeleteDirectory(c) PROVE Sound(c)'
  <2>1. Contents = ghost.shadow
    BY <1>3, <1>7 DEF BufferDeleteDirectory, BufferMove, Buffer, At
  <2>2. Nested = Prefixed
    BY <1>7, DoneIs DEF BufferDeleteDirectory, Buffer, At, Diverges
  <2>3. QED
    BY <1>7, <2>1, <2>2, Meets, DoneIs DEF BufferDeleteDirectory, Buffer, At, Sound
<1>8. ASSUME BufferPut(c) \/ ServicePutTimed(c) \/ ServicePutStream(c) \/ BufferDelete(c)
             \/ (BufferCopy(c) /\ o.kind # "move") \/ BufferPrepend(c) \/ BufferAppend(c) \/ BufferSetVisibility(c)
             \/ BufferMakeDirectory(c)
      PROVE Sound(c)'
  <2>1. Contents = ghost.shadow
    BY <1>3, <1>8 DEF BufferPut, ServicePutTimed, ServicePutStream, BufferDelete, BufferCopy, BufferPrepend,
       BufferAppend, BufferSetVisibility, BufferMakeDirectory, BufferMove, Buffer, At
  <2>2. CASE Fail(c) /\ UNCHANGED store
    BY <2>1, <2>2, FailSound
  <2>3. CASE ~(Fail(c) /\ UNCHANGED store)
    <3>1. Done(c)
      BY <1>8, <2>3 DEF BufferPut, ServicePutTimed, ServicePutStream, BufferDelete, BufferCopy, BufferPrepend,
         BufferAppend, BufferSetVisibility, BufferMakeDirectory, Buffer, At
    <3>2. Contents' = ghost'.shadow
      BY <1>8, <2>1, <2>3, <3>1, Meets DEF BufferPut, ServicePutTimed, ServicePutStream, BufferDelete, BufferCopy,
         BufferPrepend, BufferAppend, BufferSetVisibility, BufferMakeDirectory, Buffer, At
    <3>3. QED
      BY <3>1, <3>2, DoneIs DEF Sound
  <2>4. QED
    BY <2>2, <2>3
<1>9. QED
  BY <1>4, <1>5, <1>6, <1>7, <1>8 DEF BufferStep

LEMMA S3Sound ==
    ASSUME Typed, Typed', ListedIsPrefixed, ghost'.serial, NEW c \in Clients, op[c] \in OpRecord, Sound(c), S3Step(c)
    PROVE  Sound(c)'
<1> DEFINE o == op[c]
<1>1. Shown(o) /\ Noted(o) /\ o # Idle
  BY IdleIsNoRecord DEF Sound
<1>2. o.p \in Paths /\ o.q \in Paths /\ o.n \in Chunk
  BY DEF OpRecord
<1>3. ASSUME S3Put(c), o.kind = "putTimed" PROVE Sound(c)'
  <2>1. Contents = ghost.shadow
    BY <1>1, <1>3, AtRest DEF S3Put, S3, At
  <2>2. Contents' = [Contents EXCEPT ![o.p] = <<o.n>>]
    BY <1>2, <1>3, StoreContents DEF S3Put, PutObject
  <2>3. Goto(c, "tag") /\ driver = "s3"
    BY <1>3 DEF S3Put, S3, At
  <2>4. op'[c] # Idle /\ op'[c].pc = "tag" /\ op'[c].kind = "putTimed" /\ op'[c].p = o.p /\ op'[c].n = o.n
    BY <1>3, <2>3, GotoFields
  <2>5. UNCHANGED <<ghost, driver>>
    BY <2>3 DEF Goto
  <2>6. QED
    BY <2>1, <2>2, <2>3, <2>4, <2>5 DEF Sound, Shown, Noted
<1>4. ASSUME S3PutTimed(c) PROVE Sound(c)'
  <2>1. Contents = [ghost.shadow EXCEPT ![o.p] = <<o.n>>]
    BY <1>1, <1>4 DEF Shown, S3PutTimed, S3, At, Misnamed
  <2>2. Has(o.p)
    <3>1. Contents[o.p] = <<o.n>> /\ <<o.n>> # Missing
      <4>1. ghost.shadow \in [Paths -> Bodies \cup {Missing}]
        BY DEF Typed
      <4>2. <<o.n>> \in Bodies
        BY <1>2, DiskAssumption DEF Chunk, Bodies
      <4>3. QED
        BY <1>2, <2>1, <4>1, <4>2, MissingIsNoBody
    <3>2. QED
      BY <1>2, <3>1, ContentsFacts
  <2>3. Done(c) /\ UNCHANGED store
    BY <1>4, <2>2 DEF S3PutTimed
  <2>4. ghost'.shadow = [ghost.shadow EXCEPT ![o.p] = <<o.n>>] /\ op'[c] = Idle
    BY <1>4, <2>3, DoneIs, ExpectedIs DEF S3PutTimed, S3, At
  <2>5. QED
    BY <2>1, <2>3, <2>4, SameContents DEF Sound
<1>5. ASSUME S3SetVisibility(c) PROVE FALSE
  BY <1>5, DoneIs DEF S3SetVisibility, S3, At, Diverges
<1>6. ASSUME (S3Put(c) /\ o.kind # "putTimed") \/ S3PutStream(c) \/ S3Delete(c) \/ (S3Copy(c) /\ o.kind # "move")
             \/ S3MakeDirectory(c)
      PROVE Sound(c)'
  <2>1. Contents = ghost.shadow
    BY <1>1, <1>6, AtRest DEF S3Put, S3PutStream, S3Delete, S3Copy, S3MakeDirectory, S3, At
  <2>2. CASE Fail(c) /\ UNCHANGED store
    BY <2>1, <2>2, FailSound
  <2>3. CASE ~(Fail(c) /\ UNCHANGED store)
    <3>1. Done(c)
      BY <1>6, <2>3 DEF S3Put, S3PutStream, S3Delete, S3Copy, S3MakeDirectory, S3, At
    <3>2. Contents' = ghost'.shadow
      BY <1>6, <2>1, <2>3, <3>1, Meets DEF S3Put, S3PutStream, S3Delete, S3Copy, S3MakeDirectory, S3, At,
         PutObject, DeleteObject
    <3>3. QED
      BY <3>1, <3>2, DoneIs DEF Sound
  <2>4. QED
    BY <2>2, <2>3
<1>7. ASSUME S3Copy(c), o.kind = "move" PROVE Sound(c)'
  <2>1. Contents = ghost.shadow
    BY <1>1, <1>7, AtRest DEF S3Copy, S3, At
  <2>2. CASE Fail(c) /\ UNCHANGED store
    BY <2>1, <2>2, FailSound
  <2>3. CASE ~(Fail(c) /\ UNCHANGED store)
    <3>1. Goto(c, "copied") /\ Has(o.p) /\ o.p # o.q /\ Store(o.q, Body(o.p)) /\ driver = "s3"
      BY <1>7, <2>3 DEF S3Copy, S3, At
    <3>2. Contents' = [Contents EXCEPT ![o.q] = Contents[o.p]]
      BY <1>2, <3>1, StoreContents, ContentsFacts
    <3>3. op'[c] # Idle /\ op'[c].pc = "copied" /\ op'[c].kind = "move" /\ op'[c].p = o.p /\ op'[c].q = o.q
      BY <1>7, <3>1, GotoFields
    <3>4. UNCHANGED <<ghost, driver>>
      BY <3>1 DEF Goto
    <3>5. QED
      BY <2>1, <3>1, <3>2, <3>3, <3>4 DEF Sound, Shown, Noted
  <2>4. QED
    BY <2>2, <2>3
<1>8. ASSUME S3Move(c) PROVE Sound(c)'
  <2>1. Contents = [ghost.shadow EXCEPT ![o.q] = ghost.shadow[o.p]]
    BY <1>1, <1>8 DEF Shown, S3Move, S3, At
  <2>2. o.p # o.q
    BY <1>1, <1>8 DEF Noted, S3Move, S3, At
  <2>3. op'[c] = Idle /\ ghost'.shadow = [ghost.shadow EXCEPT ![o.p] = Missing, ![o.q] = ghost.shadow[o.p]]
    BY <1>8, DoneIs, ExpectedIs DEF S3Move, S3, At
  <2>4. Contents' = [x \in Paths |-> IF x \in {o.p} THEN Missing ELSE Contents[x]]
    BY <1>8, RemoveContents DEF S3Move, DeleteObject
  <2>5. ghost.shadow \in [Paths -> Bodies \cup {Missing}]
    BY DEF Typed
  <2>6. Contents' = ghost'.shadow
    BY <1>2, <2>1, <2>2, <2>3, <2>4, <2>5
  <2>7. QED
    BY <2>3, <2>6 DEF Sound
<1>9. ASSUME NEW fails \in BOOLEAN, S3Get(c, fails) PROVE Sound(c)'
  <2>1. Contents = ghost.shadow
    BY <1>1, <1>9, AtRest DEF S3Get, S3, At
  <2>2. UNCHANGED <<store, ghost, driver>> /\ driver = "s3" /\ (fails => ~Has(o.p))
    BY <1>9 DEF S3Get, S3, At, Unsure, Typed
  <2>3. op' = [op EXCEPT ![c] = [op[c] EXCEPT !.pc = "put", !.read = Content(o.p)]]
    BY <1>9, <2>2 DEF S3Get, Content
  <2>4. op'[c] # Idle /\ op'[c].pc = "put" /\ op'[c].kind = o.kind /\ op'[c].p = o.p /\ op'[c].read = Content(o.p)
    BY <2>3 DEF Typed, OpRecord, Idle
  <2>5. o.kind \in {"prepend", "append"}
    BY <1>9 DEF S3Get, S3, At
  <2>6. Content(o.p)' = Content(o.p)
    BY <2>2, <2>4 DEF Content, Has, Body
  <2>7. Shown(op[c])'
    BY <2>1, <2>2, <2>4, <2>5, SameContents DEF Shown
  <2>8. Noted(op[c])'
    BY <2>2, <2>4, <2>6 DEF Noted, Content, Has, Body
  <2>9. QED
    BY <2>4, <2>7, <2>8 DEF Sound
<1>10. ASSUME S3Prepend(c) \/ S3Append(c) PROVE Sound(c)'
  <2>1. Contents = ghost.shadow
    BY <1>1, <1>10, AtRest DEF S3Prepend, S3Append, S3, At
  <2>2. o.read = Content(o.p)
    BY <1>1, <1>10 DEF S3Prepend, S3Append, S3, At, Noted, Misnamed
  <2>3. Done(c)
    BY <1>10 DEF S3Prepend, S3Append
  <2>4. Contents' = ghost'.shadow
    BY <1>10, <2>1, <2>2, <2>3, Meets DEF S3Prepend, S3Append, S3, At, PutObject
  <2>5. QED
    BY <2>3, <2>4, DoneIs DEF Sound
<1>11. ASSUME NEW page \in SUBSET Prefixed, S3ListDirectory(c, page) PROVE Sound(c)'
  <2>1. Contents = ghost.shadow
    BY <1>1, <1>11, AtRest DEF S3ListDirectory, S3, At
  <2>2. UNCHANGED <<store, ghost, driver>> /\ driver = "s3" /\ page = S3Listed(Prefixed)
    BY <1>11, UnsureIsUnsure DEF S3ListDirectory, S3, At
  <2>3. op' = [op EXCEPT ![c] = [op[c] EXCEPT !.pc = "delete", !.todo = page]] /\ o.kind = "deleteDirectory"
    BY <1>11 DEF S3ListDirectory, S3, At
  <2>4. PICK r \in OpRecord : r = [op[c] EXCEPT !.pc = "delete", !.todo = page]
    BY DiskAssumption DEF OpRecord, Pcs
  <2>5. op'[c] = r /\ op'[c] # Idle
    BY <2>3, <2>4, KeptFields
  <2>6. op'[c].pc = "delete" /\ op'[c].kind = "deleteDirectory" /\ op'[c].todo = page
    BY <2>3, <2>4, <2>5 DEF OpRecord
  <2>7. UNCHANGED Contents /\ \A x \in Paths : Has(x)' <=> Has(x)
    BY <2>2, SameContents
  <2>8. Shown(op[c])'
    BY <2>1, <2>2, <2>6, <2>7 DEF Shown, Listing, S3Listed
  <2>9. Noted(op[c])'
    BY <2>2, <2>6 DEF Noted
  <2>10. QED
    BY <2>5, <2>8, <2>9 DEF Sound
<1>12. ASSUME NEW p \in Paths, S3DeleteDirectory(c, p) PROVE Sound(c)'
  <2>1. \A x \in Paths : IF x \in Prefixed THEN Has(x) => x \in o.todo ELSE Contents[x] = ghost.shadow[x]
    BY <1>1, <1>12 DEF Shown, Listing, S3DeleteDirectory, S3, At
  <2>2. op'[c] # Idle /\ op'[c].pc = "delete" /\ op'[c].kind = "deleteDirectory" /\ op'[c].todo = o.todo \ {p}
    BY <1>12 DEF S3DeleteDirectory, S3, At, Keep, Typed, OpRecord, Idle
  <2>3. UNCHANGED <<ghost, driver>> /\ driver = "s3"
    BY <1>12 DEF S3DeleteDirectory, Keep, S3, At
  <2>4. Remove({p}) /\ p \in o.todo /\ o.kind = "deleteDirectory" /\ o.pc = "delete"
    BY <1>12 DEF S3DeleteDirectory, DeleteObject, S3, At
  <2>5. p \in Prefixed
    BY <1>1, <2>4 DEF ListedIsPrefixed
  <2>6. \A x \in Paths : Has(x)' => x # p /\ Has(x)
    BY <2>4, RemoveSpares
  <2>7. \A x \in Paths : x # p => Contents'[x] = Contents[x]
    BY <2>4, RemoveContents
  <2>8. QED
    BY <2>1, <2>2, <2>3, <2>5, <2>6, <2>7 DEF Sound, Shown, Listing, Noted
<1>13. ASSUME S3Sweep(c) \/ (\E p \in Paths : S3Tags(c, p)) \/ S3DeleteExpired(c) PROVE Sound(c)'
  <2>1. o.kind = "deleteExpired" /\ driver = "s3"
    BY <1>13 DEF S3Sweep, S3Tags, S3DeleteExpired, S3, At
  <2>2. Contents = ghost.shadow \/ \A x \in Paths : Has(x) => Contents[x] = ghost.shadow[x]
    BY <1>1, <2>1 DEF Shown
  <2>3. op'[c] # Idle /\ op'[c].kind = o.kind /\ op'[c].pc \in {"tags", "expired"}
    <3>1. CASE S3Sweep(c)
      BY <3>1 DEF S3Sweep, Keep, Typed, OpRecord, Idle
    <3>2. CASE \E p \in Paths : S3Tags(c, p)
      <4>1. PICK p \in Paths : S3Tags(c, p)
        BY <3>2
      <4>2. QED
        BY <4>1 DEF S3Tags, Keep, Typed, OpRecord, Idle
    <3>3. CASE S3DeleteExpired(c)
      BY <3>3 DEF S3DeleteExpired, Typed, OpRecord, Idle
    <3>4. QED
      BY <1>13, <3>1, <3>2, <3>3
  <2>4. ghost'.shadow = ghost.shadow /\ driver' = driver /\ (UNCHANGED store \/ \E ps : Remove(ps))
    BY <1>13 DEF S3Sweep, S3Tags, S3DeleteExpired, DeleteObject, Keep, Judge, Typed
  <2>5. Noted(op[c])'
    BY <2>1, <2>3, <2>4 DEF Noted
  <2>6. QED
    BY <2>1, <2>2, <2>3, <2>4, <2>5, SweepSound
<1>14. ASSUME S3End(c) PROVE Sound(c)'
  <2>1. Swept(c) /\ UNCHANGED store /\ o.todo = {} /\ driver = "s3"
    BY <1>14 DEF S3End
  <2>2. CASE o.pc = "tags"
    <3>1. o.kind = "deleteExpired"
      BY <1>1, <2>1, <2>2 DEF Noted
    <3>2. \A x \in Paths : Has(x) => Contents[x] = ghost.shadow[x]
      BY <1>1, <2>2, <3>1 DEF Shown
    <3>3. QED
      BY <2>1, <3>1, <3>2, SweptMeets, DoneIs DEF Sound
  <2>3. CASE o.pc = "delete"
    <3>1. o.kind = "deleteDirectory"
      BY <1>1, <2>1, <2>3 DEF Noted
    <3>2. \A x \in Paths : IF x \in Prefixed THEN ~Has(x) ELSE Contents[x] = ghost.shadow[x]
      BY <1>1, <2>1, <2>3, <3>1 DEF Shown, Listing
    <3>3. op'[c] = Idle /\ Nested = Prefixed /\ ghost'.shadow = Expected(o, ghost.shadow)
      BY <2>1, <3>1, DoneIs DEF Diverges
    <3>4. ghost'.shadow = [x \in Paths |-> IF x \in Nested THEN Missing ELSE ghost.shadow[x]]
      BY <3>1, <3>3 DEF Expected
    <3>5. \A x \in Paths : Contents[x] = IF x \in Nested THEN Missing ELSE ghost.shadow[x]
      BY <3>2, <3>3, ContentsFacts
    <3>6. Contents \in [Paths -> Bodies \cup {Missing}]
      BY ContentsFacts
    <3>7. Contents = ghost'.shadow
      BY <3>4, <3>5, <3>6
    <3>8. QED
      BY <2>1, <3>3, <3>7, SameContents DEF Sound
  <2>4. QED
    BY <1>14, <2>2, <2>3 DEF S3End
<1>15. QED
  BY <1>3, <1>4, <1>5, <1>6, <1>7, <1>8, <1>9, <1>10, <1>11, <1>12, <1>13, <1>14 DEF S3Step, S3Put

LEMMA DropboxDeleteFields ==
    ASSUME Typed, NEW c \in Clients, op[c] \in OpRecord, NEW p \in Paths, DropboxDeleteExpired(c, p)
    PROVE  /\ op'[c] # Idle /\ op'[c].pc = "delete" /\ op'[c].kind = "deleteExpired" /\ op'[c].p = op[c].p
           /\ op'[c].owed = op[c].owed /\ op'[c].todo = op[c].todo \ {p}
           /\ op'[c].snap = [op[c].snap EXCEPT ![p] = IF Has(p) THEN "none" ELSE op[c].snap[p]]
<1>1. PICK snap : snap = [op[c].snap EXCEPT ![p] = IF Has(p) THEN "none" ELSE op[c].snap[p]]
  OBVIOUS
<1>2. op' = [op EXCEPT ![c] = [op[c] EXCEPT !.todo = op[c].todo \ {p}, !.snap = snap]]
  BY <1>1 DEF DropboxDeleteExpired, OpRecord
<1>3. op'[c] = [op[c] EXCEPT !.todo = op[c].todo \ {p}, !.snap = snap]
  BY <1>2 DEF Typed
<1>4. op[c].pc = "delete" /\ op[c].kind = "deleteExpired"
  BY DEF DropboxDeleteExpired, Dropbox, At
<1>5. QED
  BY <1>1, <1>3, <1>4 DEF OpRecord, Idle

LEMMA DropboxSound ==
    ASSUME Typed, Typed', ghost'.serial, NEW c \in Clients, op[c] \in OpRecord, Sound(c), DropboxStep(c)
    PROVE  Sound(c)'
<1> DEFINE o == op[c]
<1>1. Shown(o) /\ Noted(o) /\ o # Idle
  BY IdleIsNoRecord DEF Sound
<1>2. o.p \in Paths /\ o.q \in Paths /\ o.n \in Chunk
  BY DEF OpRecord
<1>3. ASSUME DropboxPut(c), o.kind = "putTimed" PROVE Sound(c)'
  <2>1. Contents = ghost.shadow
    BY <1>1, <1>3, AtRest DEF DropboxPut, Dropbox, At
  <2>2. Contents' = [Contents EXCEPT ![o.p] = <<o.n>>]
    BY <1>2, <1>3, StoreContents DEF DropboxPut
  <2>3. Goto(c, "index") /\ driver = "dropbox"
    BY <1>3 DEF DropboxPut, Dropbox, At
  <2>4. op'[c] # Idle /\ op'[c].pc = "index" /\ op'[c].kind = "putTimed" /\ op'[c].p = o.p /\ op'[c].n = o.n
    BY <1>3, <2>3, GotoFields
  <2>5. UNCHANGED <<ghost, driver>>
    BY <2>3 DEF Goto
  <2>6. QED
    BY <2>1, <2>2, <2>3, <2>4, <2>5 DEF Sound, Shown, Noted
<1>4. ASSUME NEW fails \in BOOLEAN, DropboxReadIndex(c, fails) PROVE Sound(c)'
  <2>1. Contents = [ghost.shadow EXCEPT ![o.p] = <<o.n>>]
    BY <1>1, <1>4 DEF Shown, DropboxReadIndex, Dropbox, At, Misnamed
  <2>2. op'[c] = [op[c] EXCEPT !.pc = "write", !.snap = exp]
    <3>1. ~fails
      BY <1>4, UnsureIsUnsure DEF DropboxReadIndex
    <3>2. op' = [op EXCEPT ![c] = [op[c] EXCEPT !.pc = "write", !.snap = exp]]
      BY <1>4, <3>1 DEF DropboxReadIndex
    <3>3. QED
      BY <3>2 DEF Typed
  <2>3. op'[c] # Idle /\ op'[c].pc = "write" /\ op'[c].kind = "putTimed" /\ op'[c].p = o.p /\ op'[c].n = o.n
    <3>1. o.kind = "putTimed"
      BY <1>4 DEF DropboxReadIndex, Dropbox, At
    <3>2. QED
      BY <2>2, <3>1 DEF OpRecord, Idle
  <2>4. UNCHANGED <<store, ghost, driver>> /\ driver = "dropbox"
    BY <1>4, UnsureIsUnsure DEF DropboxReadIndex, Dropbox, At
  <2>5. QED
    BY <2>1, <2>3, <2>4, SameContents DEF Sound, Shown, Noted
<1>5. ASSUME DropboxPutTimed(c) PROVE Sound(c)'
  <2>1. Contents = [ghost.shadow EXCEPT ![o.p] = <<o.n>>]
    BY <1>1, <1>5 DEF Shown, DropboxPutTimed, Dropbox, At, Misnamed
  <2>2. Done(c) /\ UNCHANGED store
    BY <1>5 DEF DropboxPutTimed
  <2>3. ghost'.shadow = [ghost.shadow EXCEPT ![o.p] = <<o.n>>] /\ op'[c] = Idle
    BY <1>5, <2>2, DoneIs, ExpectedIs DEF DropboxPutTimed, Dropbox, At
  <2>4. QED
    BY <2>1, <2>2, <2>3, SameContents DEF Sound
<1>6. ASSUME (DropboxPut(c) /\ o.kind # "putTimed") \/ DropboxPutStream(c) \/ DropboxDelete(c) \/ DropboxCopy(c)
             \/ DropboxMove(c) \/ DropboxMakeDirectory(c) \/ DropboxDeleteDirectory(c) \/ DropboxNoVisibility(c)
      PROVE Sound(c)'
  <2>1. Contents = ghost.shadow
    BY <1>1, <1>6, AtRest DEF DropboxPut, DropboxPutStream, DropboxDelete, DropboxCopy, DropboxMove,
       DropboxMakeDirectory, DropboxDeleteDirectory, DropboxNoVisibility, Dropbox, At
  <2>2. CASE Fail(c) /\ UNCHANGED store
    BY <2>1, <2>2, FailSound
  <2>3. CASE ~(Fail(c) /\ UNCHANGED store)
    <3>1. Done(c)
      BY <1>6, <2>3 DEF DropboxPut, DropboxPutStream, DropboxDelete, DropboxCopy, DropboxMove,
         DropboxMakeDirectory, DropboxDeleteDirectory, DropboxNoVisibility, Dropbox, At
    <3>2. Contents' = ghost'.shadow
      BY <1>6, <2>1, <2>3, <3>1, Meets DEF DropboxPut, DropboxPutStream, DropboxDelete, DropboxCopy, DropboxMove,
         DropboxMakeDirectory, DropboxDeleteDirectory, DropboxNoVisibility, Dropbox, At
    <3>3. QED
      BY <3>1, <3>2, DoneIs DEF Sound
  <2>4. QED
    BY <2>2, <2>3
<1>7. ASSUME NEW fails \in BOOLEAN, DropboxGet(c, fails) PROVE Sound(c)'
  <2>1. Contents = ghost.shadow
    BY <1>1, <1>7, AtRest DEF DropboxGet, Dropbox, At
  <2>2. UNCHANGED <<store, ghost, driver>> /\ driver = "dropbox" /\ (fails => ~Has(o.p))
    BY <1>7 DEF DropboxGet, Dropbox, At, Unsure, Typed
  <2>3. op' = [op EXCEPT ![c] = [op[c] EXCEPT !.pc = "put", !.read = Content(o.p)]]
    BY <1>7, <2>2 DEF DropboxGet, Content
  <2>4. op'[c] # Idle /\ op'[c].pc = "put" /\ op'[c].kind = o.kind /\ op'[c].p = o.p /\ op'[c].read = Content(o.p)
    BY <2>3 DEF Typed, OpRecord, Idle
  <2>5. o.kind \in {"prepend", "append"}
    BY <1>7 DEF DropboxGet, Dropbox, At
  <2>6. Content(o.p)' = Content(o.p)
    BY <2>2, <2>4 DEF Content, Has, Body
  <2>7. Shown(op[c])'
    BY <2>1, <2>2, <2>4, <2>5, SameContents DEF Shown
  <2>8. Noted(op[c])'
    BY <2>2, <2>4, <2>6 DEF Noted, Content, Has, Body
  <2>9. QED
    BY <2>4, <2>7, <2>8 DEF Sound
<1>8. ASSUME DropboxPrepend(c) \/ DropboxAppend(c) PROVE Sound(c)'
  <2>1. Contents = ghost.shadow
    BY <1>1, <1>8, AtRest DEF DropboxPrepend, DropboxAppend, Dropbox, At
  <2>2. o.read = Content(o.p)
    BY <1>1, <1>8 DEF DropboxPrepend, DropboxAppend, Dropbox, At, Noted, Misnamed
  <2>3. Done(c)
    BY <1>8 DEF DropboxPrepend, DropboxAppend
  <2>4. Existing(o) = Content(o.p)
    BY <2>2, <2>3, DoneIs DEF Diverges
  <2>5. Contents' = ghost'.shadow
    BY <1>8, <2>1, <2>3, <2>4, Meets DEF DropboxPrepend, DropboxAppend, Dropbox, At
  <2>6. QED
    BY <2>3, <2>5, DoneIs DEF Sound
<1>9. ASSUME NEW fails \in BOOLEAN, DropboxSweep(c, fails)
       PROVE  /\ UNCHANGED <<store, ghost, driver>>
              /\ op'[c] = [op[c] EXCEPT !.pc = "delete", !.snap = exp, !.todo = {p \in Paths : exp[p] = "expired"}]
  <2>1. ~fails
    BY <1>9, UnsureIsUnsure DEF DropboxSweep
  <2>2. PICK todo : todo = {p \in Paths : exp[p] = "expired"}
    OBVIOUS
  <2>3. op' = [op EXCEPT ![c] = [op[c] EXCEPT !.pc = "delete", !.snap = exp, !.todo = todo]]
    BY <1>9, <2>1, <2>2 DEF DropboxSweep
  <2>4. QED
    BY <1>9, <2>1, <2>2, <2>3 DEF DropboxSweep, Typed
<1>10. ASSUME (\E fails \in BOOLEAN : DropboxSweep(c, fails)) \/ \E p \in Paths : DropboxDeleteExpired(c, p)
      PROVE  Sound(c)'
  <2>1. o.kind = "deleteExpired" /\ driver = "dropbox"
    BY <1>10 DEF DropboxSweep, DropboxDeleteExpired, Dropbox, At
  <2>2. Contents = ghost.shadow \/ \A x \in Paths : Has(x) => Contents[x] = ghost.shadow[x]
    BY <1>1, <2>1 DEF Shown
  <2>3. op'[c] # Idle /\ op'[c].kind = o.kind /\ op'[c].pc = "delete"
    <3>1. CASE \E fails \in BOOLEAN : DropboxSweep(c, fails)
      <4>1. op'[c] = [op[c] EXCEPT !.pc = "delete", !.snap = exp, !.todo = {p \in Paths : exp[p] = "expired"}]
        BY <1>9, <3>1
      <4>2. QED
        BY <4>1 DEF OpRecord, Idle
    <3>2. CASE \E p \in Paths : DropboxDeleteExpired(c, p)
      <4>1. PICK p \in Paths : DropboxDeleteExpired(c, p)
        BY <3>2
      <4>2. QED
        BY <2>1, <4>1, DropboxDeleteFields
    <3>3. QED
      BY <1>10, <3>1, <3>2
  <2>4. ghost'.shadow = ghost.shadow /\ driver' = driver /\ (UNCHANGED store \/ \E ps : Remove(ps))
    BY <1>10, <1>9 DEF DropboxDeleteExpired, Judge, Typed
  <2>5. Noted(op[c])'
    BY <2>1, <2>3, <2>4 DEF Noted
  <2>6. QED
    BY <2>1, <2>2, <2>3, <2>4, <2>5, SweepSound
<1>11. ASSUME DropboxSweepEnd(c) PROVE Sound(c)'
  <2>1. \A x \in Paths : Has(x) => Contents[x] = ghost.shadow[x]
    BY <1>1, <1>11 DEF Shown, DropboxSweepEnd, Dropbox, At
  <2>2. Contents' = ghost'.shadow
    BY <1>11, <2>1, SweptMeets DEF DropboxSweepEnd, Dropbox, At
  <2>3. QED
    BY <1>11, <2>2, DoneIs DEF DropboxSweepEnd, Sound
<1>12. ASSUME DropboxTorn(c) \/ \E p \in Paths : DropboxDeleteFails(c, p) PROVE FALSE
  BY <1>12, UnsureIsUnsure DEF DropboxTorn, DropboxDeleteFails, Torn
<1>13. QED
  BY <1>3, <1>4, <1>5, <1>6, <1>7, <1>8, <1>10, <1>11, <1>12 DEF DropboxStep, DropboxPut

\* Google Drive: a write to the file that was found, or to a new one if none was.
LEMMA DriveStoreContents ==
    ASSUME Typed, Unique, driver = "gdrive", NEW name \in Paths, NEW id \in Nat, NEW i, NEW b,
           FilesOf(name, id) = store[name],
           store' = [store EXCEPT ![name] = (@ \ FilesOf(name, id)) \cup {[id |-> i, body |-> b]}]
    PROVE  Contents' = [Contents EXCEPT ![name] = b] /\ \A p \in Paths : \E f : store'[p] \subseteq {f}
<1>1. \A x \in Paths : store'[x] = IF x = name THEN {[id |-> i, body |-> b]} ELSE store[x]
  BY DEF Typed
<1>2. Has(name)' /\ Body(name)' = b
  <2>1. store'[name] = {[id |-> i, body |-> b]}
    BY <1>1
  <2>2. (CHOOSE f \in store'[name] : TRUE) = [id |-> i, body |-> b]
    BY <2>1
  <2>3. QED
    BY <2>1, <2>2 DEF Has, Body
<1>3. \A x \in Paths : x # name => (Has(x)' <=> Has(x)) /\ Body(x)' = Body(x)
  BY <1>1 DEF Has, Body
<1>4. \A p \in Paths : \E f : store'[p] \subseteq {f}
  <2>1. TAKE p \in Paths
  <2>2. CASE p = name
    BY <1>1, <2>2
  <2>3. CASE p # name
    BY <1>1, <2>3 DEF Unique
  <2>4. QED
    BY <2>2, <2>3
<1>5. QED
  BY <1>2, <1>3, <1>4 DEF Contents

\* Google Drive: the deletion of the file that was found.
LEMMA DriveDeleteContents ==
    ASSUME Typed, Unique, driver = "gdrive", NEW name \in Paths, NEW id \in Nat,
           FilesOf(name, id) = store[name],
           store' = [store EXCEPT ![name] = @ \ FilesOf(name, id)]
    PROVE  Remove({name}) /\ \A p \in Paths : \E f : store'[p] \subseteq {f}
<1>1. Remove({name})
  BY DEF Remove, Typed
<1>2. QED
  BY <1>1 DEF Remove, Unique

\* What was found under a name is all there is.
LEMMA FoundIsAll ==
    ASSUME Typed, Unique, driver = "gdrive", NEW name \in Paths, NEW id \in FindFileId(name)
    PROVE  FilesOf(name, id) = store[name]
<1>1. CASE store[name] = {}
  BY <1>1 DEF FilesOf
<1>2. CASE store[name] # {}
  <2>1. PICK f \in store[name] : id = f.id
    BY <1>2 DEF FindFileId
  <2>2. store[name] = {f}
    BY <2>1 DEF Unique
  <2>3. QED
    BY <2>1, <2>2 DEF FilesOf
<1>3. QED
  BY <1>1, <1>2

\* The one file of a name is what reading it gives.
LEMMA OnlyFile ==
    ASSUME Unique, driver = "gdrive", NEW p \in Paths, NEW f \in store[p]
    PROVE  Has(p) /\ Content(p) = f.body
<1>1. store[p] = {f}
  BY DEF Unique
<1>2. (CHOOSE g \in store[p] : TRUE) = f
  BY <1>1
<1>3. QED
  BY <1>1, <1>2 DEF Content, Has, Body

LEMMA DriveSound ==
    ASSUME Typed, Typed', Unique, ghost'.serial, NEW c \in Clients, op[c] \in OpRecord, Sound(c), DriveStep(c)
    PROVE  Sound(c)' /\ Unique'
<1> DEFINE o == op[c]
<1>1. Shown(o) /\ Noted(o) /\ o # Idle
  BY IdleIsNoRecord DEF Sound
<1>2. o.p \in Paths /\ o.q \in Paths /\ o.n \in Chunk /\ o.id \in Nat
  BY DEF OpRecord
<1>3. driver = "gdrive" /\ driver' = "gdrive"
  <2>1. driver = "gdrive"
    BY DriverOfStep
  <2>2. QED
    BY <2>1, DriveFollows DEF Follows
<1>4. Base[o.p] \in Paths /\ Name(c) = Base[o.p]
  BY <1>2, DiskAssumption DEF Name
<1>5. UNCHANGED store => Unique'
  BY <1>3 DEF Unique
<1>6. ASSUME NEW id \in 0 .. MaxOps, DriveFind(c, id) PROVE Sound(c)' /\ Unique'
  <2>1. Contents = ghost.shadow /\ o.kind # "deleteExpired"
    BY <1>1, <1>3, <1>6, AtRest DEF DriveFind, Noted
  <2>2. op'[c] # Idle /\ op'[c].pc = "found" /\ op'[c].kind = o.kind /\ op'[c].p = o.p /\ op'[c].id = id
        /\ op'[c].read = o.read
    BY <1>6 DEF DriveFind, Keep, Typed, OpRecord, Idle
  <2>3. UNCHANGED <<store, ghost, driver>>
    BY <1>6 DEF DriveFind, Keep
  <2>4. FilesOf(Base[o.p], id) = store[Base[o.p]]
    BY <1>3, <1>4, <1>6, FoundIsAll DEF DriveFind
  <2>5. Content(o.p)' = Content(o.p)
    BY <2>2, <2>3 DEF Content, Has, Body
  <2>6. o.kind \in {"prepend", "append"} => Misnamed(o) \/ o.read = Content(o.p)
    <3>1. CASE o.pc = "find"
      BY <1>1, <1>3, <3>1 DEF Noted
    <3>2. CASE o.pc # "find"
      BY <1>6, <3>2 DEF DriveFind
    <3>3. QED
      BY <3>1, <3>2
  <2>7. Shown(op[c])'
    BY <2>1, <2>2, <2>3, SameContents DEF Shown
  <2>8. Noted(op[c])'
    BY <1>3, <2>2, <2>3, <2>4, <2>5, <2>6 DEF Noted, Misnamed, FilesOf, Content, Has, Body
  <2>9. QED
    BY <1>5, <2>2, <2>3, <2>7, <2>8 DEF Sound
<1>7. ASSUME DrivePut(c) \/ DrivePutStream(c) PROVE Sound(c)' /\ Unique'
  <2>1. Contents = ghost.shadow /\ o.pc = "found"
    BY <1>1, <1>7, AtRest DEF DrivePut, DrivePutStream, Drive, At
  <2>2. FilesOf(Base[o.p], o.id) = store[Base[o.p]]
    BY <1>1, <1>3, <2>1 DEF Noted
  <2>3. CASE Fail(c) /\ UNCHANGED store
    BY <1>5, <2>1, <2>3, FailSound
  <2>4. CASE ~(Fail(c) /\ UNCHANGED store)
    <3> DEFINE b == IF DrivePut(c) THEN DriveBody(o) ELSE <<o.n>>
    <3>1. PICK i : store' = [store EXCEPT ![Base[o.p]] =
                       (@ \ FilesOf(Base[o.p], o.id)) \cup {[id |-> i, body |-> b]}]
      BY <1>4, <1>7, <2>4 DEF DrivePut, DrivePutStream
    <3> HIDE DEF b
    <3>2. Contents' = [Contents EXCEPT ![Base[o.p]] = b] /\ \A p \in Paths : \E f : store'[p] \subseteq {f}
      BY <1>2, <1>3, <1>4, <2>2, <3>1, DriveStoreContents
    <3>3. Unique'
      BY <3>2 DEF Unique
    <3>4. /\ o.kind \in {"put", "putStream", "putTimed"} => b = <<o.n>>
          /\ o.kind = "append" => b = Append(Existing(o), o.n)
          /\ o.kind = "prepend" => b = <<o.n>> \o Existing(o)
      BY <1>7, Zenon DEF b, DriveBody, DrivePut, DrivePutStream, Drive, At
    <3>5. o.kind \in {"prepend", "append"} => Misnamed(o) \/ o.read = Content(o.p)
      BY <1>1, <1>3, <2>1 DEF Noted
    <3>6. CASE o.kind = "putTimed"
      <4>1. Goto(c, "index")
        BY <1>7, <2>4, <3>6 DEF DrivePut, DrivePutStream, Drive, At
      <4>2. op'[c] # Idle /\ op'[c].pc = "index" /\ op'[c].kind = "putTimed" /\ op'[c].p = o.p /\ op'[c].n = o.n
        BY <3>6, <4>1, GotoFields
      <4>3. UNCHANGED ghost
        BY <4>1 DEF Goto
      <4>4. Shown(op[c])'
        BY <1>3, <2>1, <3>2, <3>4, <3>6, <4>2, <4>3 DEF Shown, Misnamed
      <4>5. Noted(op[c])'
        BY <1>3, <4>2 DEF Noted
      <4>6. QED
        BY <3>3, <4>2, <4>4, <4>5 DEF Sound
    <3>7. CASE o.kind # "putTimed"
      <4>1. Done(c)
        BY <1>7, <2>4, <3>7 DEF DrivePut, DrivePutStream
      <4>2. op'[c] = Idle /\ ~Diverges(o) /\ ghost'.shadow = Expected(o, ghost.shadow)
        BY <4>1, DoneIs
      <4>3. Base[o.p] = o.p /\ ~Misnamed(o)
        BY <1>3, <4>2 DEF Diverges, Misnamed
      <4>4. Existing(o) = o.read
        BY <4>2 DEF Diverges
      <4>5. o.kind \in {"put", "putStream", "append", "prepend"}
        BY <1>7, <3>7 DEF DrivePut, DrivePutStream, Drive, At
      <4>6. Content(o.p) = IF Contents[o.p] = Missing THEN <<>> ELSE Contents[o.p]
        BY <1>2, ContentsFacts
      <4>7. CASE o.kind \in {"put", "putStream"}
        <5>1. Expected(o, Contents) = [Contents EXCEPT ![o.p] = <<o.n>>]
          BY <4>7, ExpectedIs
        <5>2. QED
          BY <2>1, <3>2, <3>3, <3>4, <4>2, <4>3, <4>7, <5>1 DEF Sound
      <4>8. CASE o.kind = "append"
        <5>1. b = Append(IF Contents[o.p] = Missing THEN <<>> ELSE Contents[o.p], o.n)
          BY <3>4, <3>5, <4>3, <4>6, <4>8, <4>4
        <5>2. ghost'.shadow = [Contents EXCEPT ![o.p] = Append(IF Contents[o.p] = Missing THEN <<>> ELSE Contents[o.p], o.n)]
          <6>1. Expected(o, Contents) = [Contents EXCEPT ![o.p] = Append(IF Contents[o.p] = Missing THEN <<>> ELSE Contents[o.p], o.n)]
            BY <4>8, ExpectedIs, Zenon
          <6>2. QED
            BY <2>1, <4>2, <6>1
        <5>3. QED
          BY <3>2, <3>3, <4>2, <4>3, <5>1, <5>2 DEF Sound
      <4>9. CASE o.kind = "prepend"
        <5>1. b = <<o.n>> \o (IF Contents[o.p] = Missing THEN <<>> ELSE Contents[o.p])
          BY <3>4, <3>5, <4>3, <4>6, <4>9, <4>4
        <5>2. ghost'.shadow = [Contents EXCEPT ![o.p] = <<o.n>> \o (IF Contents[o.p] = Missing THEN <<>> ELSE Contents[o.p])]
          <6>1. Expected(o, Contents) = [Contents EXCEPT ![o.p] = <<o.n>> \o (IF Contents[o.p] = Missing THEN <<>> ELSE Contents[o.p])]
            BY <4>9, ExpectedIs, Zenon
          <6>2. QED
            BY <2>1, <4>2, <6>1
        <5>3. QED
          BY <3>2, <3>3, <4>2, <4>3, <5>1, <5>2 DEF Sound
      <4>10. QED
        BY <4>5, <4>7, <4>8, <4>9
    <3>8. QED
      BY <3>6, <3>7
  <2>5. QED
    BY <2>3, <2>4
<1>8. ASSUME NEW fails \in BOOLEAN, DriveGet(c, fails) PROVE Sound(c)' /\ Unique'
  <2>1. ~fails /\ UNCHANGED <<store, ghost, driver>>
    BY <1>8 DEF DriveGet, Unsure, Typed
  <2>2. Contents = ghost.shadow /\ o.kind \in {"prepend", "append"}
    BY <1>1, <1>8, AtRest DEF DriveGet, Drive, At
  <2>3. PICK f \in store[Base[o.p]] : op' = [op EXCEPT ![c] = [op[c] EXCEPT !.pc = "find", !.read = f.body]]
    BY <1>4, <1>8, <2>1 DEF DriveGet
  <2>4. PICK b : b = f.body
    OBVIOUS
  <2>5. op'[c] = [op[c] EXCEPT !.pc = "find", !.read = b]
    BY <2>3, <2>4 DEF Typed
  <2>6. op'[c] # Idle /\ op'[c].pc = "find" /\ op'[c].kind = o.kind /\ op'[c].p = o.p /\ op'[c].read = b
    BY <2>5 DEF OpRecord, Idle
  <2>7. Misnamed(o) \/ b = Content(o.p)
    BY <1>2, <1>3, <2>3, <2>4, OnlyFile DEF Misnamed
  <2>8. Content(o.p)' = Content(o.p)
    BY <2>1, <2>6 DEF Content, Has, Body
  <2>9. Shown(op[c])'
    BY <2>1, <2>2, <2>6, SameContents DEF Shown
  <2>10. Noted(op[c])'
    BY <1>3, <2>2, <2>6, <2>7, <2>8 DEF Noted, Misnamed, Content, Has, Body
  <2>11. QED
    BY <1>5, <2>1, <2>6, <2>9, <2>10 DEF Sound
<1>9. ASSUME DriveGetNothing(c) PROVE Sound(c)' /\ Unique'
  <2>1. Contents = ghost.shadow /\ o.kind \in {"prepend", "append"} /\ o.pc = "start" /\ store[Base[o.p]] = {}
    BY <1>1, <1>4, <1>9, AtRest DEF DriveGetNothing, Drive, At
  <2>2. Goto(c, "find") /\ UNCHANGED <<store, ghost, driver>>
    BY <1>9 DEF DriveGetNothing, Goto
  <2>3. op'[c] # Idle /\ op'[c].pc = "find" /\ op'[c].kind = o.kind /\ op'[c].p = o.p /\ op'[c].read = o.read
    BY <2>2, GotoFields
  <2>4. o.read = <<>>
    BY <1>1, <2>1 DEF Noted
  <2>5. Misnamed(o) \/ o.read = Content(o.p)'
    BY <1>3, <2>1, <2>2, <2>3, <2>4 DEF Misnamed, Content, Has
  <2>6. Shown(op[c])'
    BY <2>1, <2>2, <2>3, SameContents DEF Shown
  <2>7. Noted(op[c])'
    BY <1>3, <2>1, <2>3, <2>5 DEF Noted, Misnamed, Content, Has, Body
  <2>8. QED
    BY <1>5, <2>2, <2>3, <2>6, <2>7 DEF Sound
<1>10. ASSUME DriveDelete(c) PROVE Sound(c)' /\ Unique'
  <2>1. Contents = ghost.shadow /\ o.pc = "found" /\ o.kind = "delete"
    BY <1>1, <1>10, AtRest DEF DriveDelete, Drive, At
  <2>2. FilesOf(Base[o.p], o.id) = store[Base[o.p]]
    BY <1>1, <1>3, <2>1 DEF Noted
  <2>3. Remove({Base[o.p]}) /\ \A p \in Paths : \E f : store'[p] \subseteq {f}
    BY <1>2, <1>3, <1>4, <1>10, <2>2, DriveDeleteContents DEF DriveDelete
  <2>4. Done(c)
    BY <1>10 DEF DriveDelete
  <2>5. Base[o.p] = o.p /\ op'[c] = Idle
    BY <1>3, <2>4, DoneIs DEF Diverges
  <2>6. Contents' = ghost'.shadow
    BY <2>1, <2>3, <2>4, <2>5, Meets
  <2>7. QED
    BY <2>3, <2>5, <2>6 DEF Sound, Unique
<1>11. ASSUME DriveCopy(c) \/ DriveMove(c) \/ DriveMakeDirectory(c) \/ DriveDeleteDirectory(c) \/ DriveNoVisibility(c)
       PROVE Sound(c)' /\ Unique'
  <2>1. Contents = ghost.shadow
    BY <1>1, <1>11, AtRest DEF DriveCopy, DriveMove, DriveMakeDirectory, DriveDeleteDirectory, DriveNoVisibility,
       Drive, At
  <2>2. CASE Fail(c) /\ UNCHANGED store
    BY <1>5, <2>1, <2>2, FailSound
  <2>3. CASE ~(Fail(c) /\ UNCHANGED store)
    <3>1. Done(c)
      BY <1>11, <2>3 DEF DriveCopy, DriveMove, DriveMakeDirectory, DriveDeleteDirectory, DriveNoVisibility
    <3>2. o.kind = "makeDirectory" /\ UNCHANGED store
      <4>1. o.kind \notin {"copy", "move", "deleteDirectory"}
        BY <1>3, <3>1, DoneIs DEF Diverges
      <4>2. QED
        BY <1>11, <2>3, <4>1 DEF DriveCopy, DriveMove, DriveMakeDirectory, DriveDeleteDirectory, DriveNoVisibility, Drive, At
    <3>3. QED
      BY <1>5, <2>1, <3>1, <3>2, Meets, DoneIs DEF Sound
  <2>4. QED
    BY <2>2, <2>3
<1>12. ASSUME NEW fails \in BOOLEAN, DriveReadIndex(c, fails) PROVE Sound(c)' /\ Unique'
  <2>1. Misnamed(o) \/ Contents = [ghost.shadow EXCEPT ![o.p] = <<o.n>>]
    BY <1>1, <1>12 DEF Shown, DriveReadIndex, Drive, At
  <2>2. op'[c] = [op[c] EXCEPT !.pc = "write", !.snap = exp]
    <3>1. ~fails
      BY <1>12, UnsureIsUnsure DEF DriveReadIndex
    <3>2. op' = [op EXCEPT ![c] = [op[c] EXCEPT !.pc = "write", !.snap = exp]]
      BY <1>12, <3>1 DEF DriveReadIndex
    <3>3. QED
      BY <3>2 DEF Typed
  <2>3. op'[c] # Idle /\ op'[c].pc = "write" /\ op'[c].kind = "putTimed" /\ op'[c].p = o.p /\ op'[c].n = o.n
    <3>1. o.kind = "putTimed"
      BY <1>12 DEF DriveReadIndex, Drive, At
    <3>2. QED
      BY <2>2, <3>1 DEF OpRecord, Idle
  <2>4. UNCHANGED <<store, ghost, driver>>
    BY <1>12, UnsureIsUnsure DEF DriveReadIndex
  <2>5. Shown(op[c])'
    BY <2>1, <2>3, <2>4, SameContents DEF Shown, Misnamed
  <2>6. Noted(op[c])'
    BY <1>3, <2>3 DEF Noted
  <2>7. QED
    BY <1>5, <2>3, <2>4, <2>5, <2>6 DEF Sound
<1>13. ASSUME DrivePutTimed(c) PROVE Sound(c)' /\ Unique'
  <2>1. Done(c) /\ UNCHANGED store /\ o.kind = "putTimed" /\ o.pc = "write"
    BY <1>13 DEF DrivePutTimed, Drive, At
  <2>2. ~Misnamed(o) /\ op'[c] = Idle
    BY <1>3, <2>1, DoneIs DEF Diverges, Misnamed
  <2>3. Contents = [ghost.shadow EXCEPT ![o.p] = <<o.n>>]
    BY <1>1, <2>1, <2>2 DEF Shown
  <2>4. ghost'.shadow = [ghost.shadow EXCEPT ![o.p] = <<o.n>>]
    BY <2>1, DoneIs, ExpectedIs
  <2>5. QED
    BY <1>5, <2>1, <2>2, <2>3, <2>4, SameContents DEF Sound
<1>14. ASSUME NEW fails \in BOOLEAN, DriveSweep(c, fails) PROVE Sound(c)' /\ Unique'
  <2>1. o.kind = "deleteExpired" /\ o.pc = "start" /\ Contents = ghost.shadow
    BY <1>1, <1>14, AtRest DEF DriveSweep, Drive, At
  <2>2. op'[c] = [op[c] EXCEPT !.pc = "look", !.snap = exp, !.todo = {p \in Paths : exp[p] = "expired"}]
    <3>1. ~fails
      BY <1>14, UnsureIsUnsure DEF DriveSweep
    <3>2. PICK todo : todo = {p \in Paths : exp[p] = "expired"}
      OBVIOUS
    <3>3. op' = [op EXCEPT ![c] = [op[c] EXCEPT !.pc = "look", !.snap = exp, !.todo = todo]]
      BY <1>14, <3>1, <3>2 DEF DriveSweep
    <3>4. QED
      BY <3>2, <3>3 DEF Typed
  <2>3. op'[c] # Idle /\ op'[c].kind = o.kind /\ op'[c].pc = "look"
    BY <2>2 DEF OpRecord, Idle
  <2>4. UNCHANGED <<store, ghost, driver>>
    BY <1>14, UnsureIsUnsure DEF DriveSweep
  <2>5. Noted(op[c])'
    BY <1>3, <2>1, <2>3 DEF Noted
  <2>6. QED
    BY <1>5, <2>1, <2>3, <2>4, <2>5, SweepSound
<1>15. ASSUME NEW p \in Paths, NEW id \in 0 .. MaxOps, DriveSweepFind(c, p, id) PROVE Sound(c)' /\ Unique'
  <2>1. o.kind = "deleteExpired" /\ o.pc = "look" /\ id \in FindFileId(Base[p])
    BY <1>15 DEF DriveSweepFind, Drive, At
  <2>2. op'[c] = [op[c] EXCEPT !.pc = "delete", !.p = p, !.id = id, !.todo = op[c].todo \ {p}]
    BY <1>15 DEF DriveSweepFind, Keep, Typed, OpRecord
  <2>3. op'[c] # Idle /\ op'[c].kind = o.kind /\ op'[c].pc = "delete" /\ op'[c].p = p /\ op'[c].id = id
    BY <2>2 DEF OpRecord, Idle
  <2>4. UNCHANGED <<store, ghost, driver>>
    BY <1>15 DEF DriveSweepFind, Keep
  <2>5. FilesOf(Base[p], id) = store[Base[p]]
    BY <1>3, <2>1, FoundIsAll, DiskAssumption
  <2>6. Noted(op[c])'
    BY <1>3, <2>1, <2>3, <2>4, <2>5 DEF Noted, FilesOf
  <2>7. Contents = ghost.shadow \/ \A x \in Paths : Has(x) => Contents[x] = ghost.shadow[x]
    BY <1>1, <2>1 DEF Shown
  <2>8. QED
    BY <1>5, <2>1, <2>3, <2>4, <2>6, <2>7, SweepSound
<1>16. ASSUME DriveDeleteExpired(c) PROVE Sound(c)' /\ Unique'
  <2>1. o.kind = "deleteExpired" /\ o.pc = "delete"
    BY <1>16 DEF DriveDeleteExpired, Drive, At
  <2>2. FilesOf(Base[o.p], o.id) = store[Base[o.p]]
    BY <1>1, <1>3, <2>1 DEF Noted
  <2>3. Remove({Base[o.p]}) /\ \A p \in Paths : \E f : store'[p] \subseteq {f}
    BY <1>2, <1>3, <1>4, <1>16, <2>2, DriveDeleteContents DEF DriveDeleteExpired
  <2>4. PICK snap : snap = [o.snap EXCEPT ![o.p] = "none"]
    OBVIOUS
  <2>5. op' = [op EXCEPT ![c] = [op[c] EXCEPT !.pc = "look", !.snap = snap]]
    BY <1>16, <2>4 DEF DriveDeleteExpired, OpRecord
  <2>6. op'[c] = [op[c] EXCEPT !.pc = "look", !.snap = snap]
    BY <2>5 DEF Typed
  <2>7. op'[c] # Idle /\ op'[c].kind = o.kind /\ op'[c].pc = "look"
    BY <2>6 DEF OpRecord, Idle
  <2>8. ghost'.shadow = ghost.shadow
    BY <1>16 DEF DriveDeleteExpired, Judge, Typed
  <2>9. Noted(op[c])'
    BY <1>3, <2>1, <2>7 DEF Noted
  <2>10. Contents = ghost.shadow \/ \A x \in Paths : Has(x) => Contents[x] = ghost.shadow[x]
    BY <1>1, <2>1 DEF Shown
  <2>11. QED
    BY <2>1, <2>3, <2>7, <2>8, <2>9, <2>10, SweepSound DEF Unique
<1>17. ASSUME DriveSweepEnd(c) PROVE Sound(c)' /\ Unique'
  <2>1. \A x \in Paths : Has(x) => Contents[x] = ghost.shadow[x]
    BY <1>1, <1>17 DEF Shown, DriveSweepEnd, Drive, At
  <2>2. Contents' = ghost'.shadow
    BY <1>17, <2>1, SweptMeets DEF DriveSweepEnd, Drive, At
  <2>3. QED
    BY <1>5, <1>17, <2>2, DoneIs DEF DriveSweepEnd, Sound
<1>18. ASSUME DriveTorn(c) \/ \E p \in Paths : DriveSweepFails(c, p) PROVE FALSE
  BY <1>18, UnsureIsUnsure DEF DriveTorn, DriveSweepFails, Torn
<1>19. QED
  BY <1>6, <1>7, <1>8, <1>9, <1>10, <1>11, <1>12, <1>13, <1>14, <1>15, <1>16, <1>17, <1>18 DEF DriveStep

\* What the steps of a driver, but those of sweeps, do to the history.
LEMMA HistorySteps ==
    ASSUME Typed, NEW c \in Clients,
           LocalStep(c) \/ BufferStep(c) \/ S3Step(c) \/ DropboxStep(c) \/ DriveStep(c) \/ ReadOnlyRefuses(c)
    PROVE  \/ Done(c) \/ Fail(c) \/ UNCHANGED ghost \/ ghost' = Unsure(ghost)
           \/ LocalDeleteExpired(c) \/ S3DeleteExpired(c) \/ DriveDeleteExpired(c)
           \/ \E p \in Paths : DropboxDeleteExpired(c, p)
           \/ LocalSweepEnd(c) \/ DropboxSweepEnd(c) \/ DriveSweepEnd(c)
           \/ ServiceDeleteExpired(c) \/ S3End(c)
<1>1. CASE LocalStep(c)
  BY <1>1 DEF LocalStep, LocalPut, LocalPutStream, LocalPutTimed, LocalSetVisibility, LocalDelete,
     LocalCopy, LocalMove, LocalMakeDirectory, LocalListDirectory, LocalUnlink, LocalDeleteDirectory, LocalRead,
     LocalOpen, LocalWrite, LocalCopyFails, LocalTorn, LocalSweep, LocalCheck, LocalDeleteMeta, LocalSweepFails,
     Torn, Goto, Keep
<1>2. CASE BufferStep(c)
  BY <1>2 DEF BufferStep, BufferPut, ServicePutTimed, ServicePutStream, 
     BufferDelete, BufferCopy, BufferMove, BufferPrepend, BufferAppend, BufferSetVisibility,
     BufferMakeDirectory, BufferDeleteDirectory, Goto, Keep
<1>3. CASE S3Step(c)
  BY <1>3 DEF S3Step, S3Put, S3PutStream, S3PutTimed, S3SetVisibility, S3Delete, S3Copy, S3Move,
     S3MakeDirectory, S3Prepend, S3Append, S3ListDirectory, S3Sweep, S3Get,
     S3DeleteDirectory, S3Tags, Goto, Keep
<1>4. CASE DropboxStep(c)
  BY <1>4 DEF DropboxStep, DropboxPut, DropboxPutStream, DropboxReadIndex, DropboxPutTimed, DropboxDelete,
     DropboxCopy, DropboxMove, DropboxMakeDirectory, DropboxDeleteDirectory, DropboxPrepend, DropboxAppend,
     DropboxNoVisibility, DropboxSweep, DropboxGet, DropboxTorn, DropboxDeleteFails, Torn, Goto, Keep
<1>5. CASE DriveStep(c)
  BY <1>5 DEF DriveStep, DriveFind, DriveSweepFind, DriveGet, DrivePut, DrivePutStream, DriveGetNothing, DriveDelete,
     DriveCopy, DriveMove, DriveMakeDirectory, DriveDeleteDirectory, DriveNoVisibility, DriveReadIndex, DrivePutTimed,
     DriveSweep, DriveTorn, DriveSweepFails, Torn, Goto, Keep
<1>6. QED
  BY <1>1, <1>2, <1>3, <1>4, <1>5 DEF ReadOnlyRefuses

\* What a step of a driver does to the history.
LEMMA StepGhost ==
    ASSUME Typed, NEW c \in Clients,
           LocalStep(c) \/ BufferStep(c) \/ S3Step(c) \/ DropboxStep(c) \/ DriveStep(c) \/ ReadOnlyRefuses(c)
    PROVE  \/ Done(c) \/ Fail(c) \/ Swept(c)
           \/ UNCHANGED ghost \/ ghost' = Unsure(ghost)
           \/ \E p : Judge(p)
  BY HistorySteps DEF LocalDeleteExpired, S3DeleteExpired, DriveDeleteExpired, DropboxDeleteExpired, LocalSweepEnd,
     DropboxSweepEnd, DriveSweepEnd, ServiceDeleteExpired, S3End

\* The steps of a driver are of a disk with that driver.
\* A step of a driver is of one call, and leaves the others.
LEMMA StepFollows ==
    ASSUME Typed, Typed', NEW c \in Clients,
           LocalStep(c) \/ BufferStep(c) \/ S3Step(c) \/ DropboxStep(c) \/ DriveStep(c) \/ ReadOnlyRefuses(c)
    PROVE  op[c] \in OpRecord /\ op[c] # Idle /\ Follows(c)
  BY IdleIsNoRecord, LocalFollows, BufferFollows, S3Follows, DropboxFollows, DriveFollows, ReadOnlyFollows

LEMMA ReadOnlySound ==
    ASSUME Typed, NEW c \in Clients, op[c] \in OpRecord, Sound(c), ReadOnlyRefuses(c)
    PROVE  Sound(c)'
<1>1. Contents = ghost.shadow
  BY IdleIsNoRecord, AtRest DEF Sound, ReadOnlyRefuses, At
<1>2. QED
  BY <1>1, FailSound DEF ReadOnlyRefuses

\* Calls that were alone stay so, and the contents are what their steps make
\* of those a reader expects.
LEMMA SoundStays ==
    ASSUME Typed, Typed', ListedIsPrefixed, Inodes, Alone, ContentsSound, [Next]_diskVars
    PROVE  Alone' /\ ContentsSound'
<1>1. ASSUME NEW c \in Clients,
             LocalStep(c) \/ BufferStep(c) \/ S3Step(c) \/ DropboxStep(c) \/ DriveStep(c) \/ ReadOnlyRefuses(c)
      PROVE  Alone' /\ ContentsSound'
  <2> SUFFICES ASSUME ghost'.serial PROVE Alone' /\ ContentsSound'
    BY DEF Alone, ContentsSound
  <2>1. op[c] \in OpRecord /\ op[c] # Idle /\ Follows(c)
    BY <1>1, StepFollows
  <2>2. ghost.serial
    BY <1>1, SerialBefore, StepGhost
  <2>3. \A x \in Clients : x # c => op[x] = Idle /\ op'[x] = Idle
    BY <2>1, <2>2 DEF Alone, Follows
  <2>4. Sound(c) /\ Unique
    BY <2>1, <2>2 DEF ContentsSound, Sound
  <2>5. Sound(c)'
    BY <1>1, <2>1, <2>4, LocalSound, BufferSound, S3Sound, DropboxSound, DriveSound, ReadOnlySound
  <2>6. Unique'
    <3>1. CASE driver = "gdrive"
      BY <1>1, <2>1, <2>4, <3>1, DriveSound, DriverOfStep
    <3>2. CASE driver # "gdrive"
      BY <2>1, <3>2 DEF Unique, Follows
    <3>3. QED
      BY <3>1, <3>2
  <2>7. QED
    BY <2>3, <2>5, <2>6 DEF Alone, ContentsSound, Sound
<1>2. ASSUME NEW c \in Clients, NEW k \in Kinds, NEW a \in Args(k), Call(c, k, a)
      PROVE  Alone' /\ ContentsSound'
  <2> SUFFICES ASSUME ghost'.serial PROVE Alone' /\ ContentsSound'
    BY DEF Alone, ContentsSound
  <2>1. /\ ghost' = ghost /\ UNCHANGED <<driver, store>>
        /\ \A x \in Clients : x # c => op[x] = Idle /\ op'[x] = Idle
        /\ op[c] = Idle /\ op'[c].pc = "start" /\ op'[c].read = <<>>
    BY <1>2 DEF Call, Unsure, Typed
  <2>2. Contents = ghost.shadow /\ Unique
    BY <2>1 DEF ContentsSound
  <2>3. Shown(op[c])' /\ Noted(op[c])'
    BY <2>1, <2>2, SameContents DEF Shown, Noted
  <2>4. Unique'
    BY <2>1, <2>2 DEF Unique
  <2>5. QED
    BY <2>1, <2>2, <2>3, <2>4, SameContents DEF Alone, ContentsSound
<1>3. ASSUME NEW c \in Clients, Fault(c) PROVE Alone' /\ ContentsSound'
  BY <1>3 DEF Fault, Unsure, Typed, Alone, ContentsSound
<1>4. ASSUME NEW p \in Paths, Expire(p) PROVE Alone' /\ ContentsSound'
  <2>1. ghost'.serial = ghost.serial /\ ghost'.shadow = ghost.shadow /\ UNCHANGED <<driver, store, hasDir, op>>
    BY <1>4 DEF Expire, Typed
  <2>2. \A c \in Clients : (Shown(op[c])' <=> Shown(op[c])) /\ (Noted(op[c])' <=> Noted(op[c]))
    BY <2>1, SameContents DEF Shown, Noted, Misnamed, Content, Has, Body, DirThere, FilesOf, Half, Old, Inode, Listing,
       Target
  <2>3. QED
    BY <2>1, <2>2, SameContents DEF Alone, ContentsSound, Unique
<1>5. CASE UNCHANGED diskVars
  <2>1. UNCHANGED <<driver, store, hasDir, op, ghost>>
    BY <1>5 DEF diskVars
  <2>2. \A c \in Clients : (Shown(op[c])' <=> Shown(op[c])) /\ (Noted(op[c])' <=> Noted(op[c]))
    BY <2>1, SameContents DEF Shown, Noted, Misnamed, Content, Has, Body, DirThere, FilesOf, Half, Old, Inode, Listing,
       Target
  <2>3. QED
    BY <2>1, <2>2, SameContents DEF Alone, ContentsSound, Unique
<1>6. QED
  BY <1>1, <1>2, <1>3, <1>4, <1>5 DEF Next

LEMMA ContentsInv == Spec => [](Alone /\ ContentsSound)
<1>1. DiskInit => Alone /\ ContentsSound
  BY DEF DiskInit, Alone, ContentsSound, Ghost, Empty, Contents, Has, Unique
<1>2. Typed /\ Typed' /\ ListedIsPrefixed /\ Inodes /\ (Alone /\ ContentsSound) /\ [Next]_diskVars
        => (Alone /\ ContentsSound)'
  BY SoundStays
<1>3. QED
  BY <1>1, <1>2, TypeCorrect, ImplementInv, PTL DEF Spec

\* While no two calls overlap and none fails half-way, the drivers are
\* interchangeable: on every disk, between two calls, the contents are those
\* of a dictionary after the calls that succeeded, and so is what get, exists,
\* getMetadata and listFiles answer.
THEOREM DisksMeanTheSame == Spec => []SameMeaning
<1>1. Typed /\ ContentsSound => SameMeaning
  <2> SUFFICES ASSUME Typed, ContentsSound, ghost.serial, \A c \in Clients : op[c] = Idle
               PROVE  /\ Contents = ghost.shadow
                      /\ \A p \in Paths : Confused(p) \/ Answers(p) = Meant(ghost.shadow[p])
    BY DEF SameMeaning
  <2>1. Contents = ghost.shadow
    BY DEF ContentsSound
  <2>2. ASSUME NEW p \in Paths, ~Confused(p) PROVE Answers(p) = Meant(Contents[p])
    <3>1. Meant(Contents[p]) = <<GetBody(p), Has(p), Size(p), Has(p)>>
      <4>1. Contents[p] = Missing <=> ~Has(p)
        BY ContentsFacts
      <4>2. Has(p) => Contents[p] = Body(p)
        BY ContentsFacts
      <4>3. CASE Has(p)
        BY <4>1, <4>2, <4>3 DEF Meant, GetBody, Size
      <4>4. CASE ~Has(p)
        BY <4>1, <4>4 DEF Meant, GetBody, Size, Has
      <4>5. QED
        BY <4>3, <4>4
    <3>2. driver = "gdrive" => Base[p] = p
      BY <2>2 DEF Confused
    <3>3. driver = "local" => p \notin Nested
      BY <2>2 DEF Confused
    <3>4. driver = "s3" => ((\A page \in S3Pages(Paths) : p \in page) <=> Has(p))
      BY <2>2 DEF Confused, S3Listed
    <3>5. CASE driver = "s3"
      <4>1. Answers(p) = <<GetBody(p), Has(p), Size(p), \A page \in S3Pages(Paths) : p \in page>>
        BY <3>5 DEF Answers, S3Read, S3Exists, S3Metadata
      <4>2. (\A page \in S3Pages(Paths) : p \in page) = Has(p)
        BY <3>4, <3>5 DEF Has
      <4>3. QED
        BY <3>1, <4>1, <4>2, Zenon
    <3>6. CASE driver # "s3"
      BY <3>1, <3>2, <3>3, <3>6 DEF Answers, LocalGet, LocalExists, LocalMetadata, LocalListed, BufferGet, BufferExists,
         BufferMetadata, BufferListed, DropboxRead, DropboxExists,
         DropboxMetadata, DropboxListed, DriveRead, DriveExists, DriveMetadata, DriveListed, Has
    <3>7. QED
      BY <3>5, <3>6
  <2>3. QED
    BY <2>1, <2>2
<1>2. QED
  BY <1>1, ContentsInv, TypeCorrect, PTL

-------------------------------------------------------------------------------
(* While nothing overlaps and nothing fails: the expiries                  *)

\* What is on record for a path without a file, and in memory.
Recorded ==
    /\ driver = "s3" => \A x \in Paths : exp[x] # "none" => Has(x)
    /\ driver = "buffer" => exp = NoExpiry

\* Paths whose expiry on record a call in progress is about to bring up to date.
Between(o, x) ==
    \/ o.kind = "putTimed" /\ o.pc \in {"meta", "tag", "index", "write"} /\ x = o.p
    \/ o.kind = "move" /\ o.pc = "copied" /\ x = o.q
    \/ o.kind = "deleteDirectory" /\ o.pc = "delete" /\ x \in Listing
    \/ o.kind = "deleteExpired" /\ o.pc # "start" /\ ~Has(x) /\ ghost.due[x] # "fresh"

Unfinished(o, x) == o # Idle /\ Between(o, x)

\* The expiry on record for a path is the one that is due.
Told(o, x) ==
    /\ driver # "buffer" /\ ghost.due[x] \in {"fresh", "expired"} => exp[x] = ghost.due[x] \/ Unfinished(o, x)
    /\ driver = "buffer" => ghost.due[x] # "expired"
    /\ driver = "s3" /\ exp[x] # "none" => ghost.due[x] # "none" \/ Unfinished(o, x)
    /\ driver = "gdrive" /\ exp[x] # "none" => Base[x] = x

Sweeping(o) == o.kind = "deleteExpired" /\ o.pc # "start"

\* The path a sweep has looked at and is about to delete.
Judged(o) ==
    IF o.pc \in {"unmeta", "expired"} \/ (o.pc = "delete" /\ driver # "dropbox") THEN {o.p} ELSE {}

\* The paths a sweep has still to delete.
Coming(o) == o.todo \cup (IF o.pc = "unmeta" THEN {} ELSE Judged(o))

\* The index as it was read is the one on record, but for the entries dropped.
Current(o) == \A x \in Paths : Aged(o.snap)[x] = exp[x] \/ (o.snap[x] = "none" /\ ~Has(x))

\* What a call knows of the expiries, and what a sweep owes.
Timed(o) ==
    /\ o.kind = "putTimed" /\ driver \in {"dropbox", "gdrive"} /\ o.pc = "write" => Aged(o.snap) = exp
    /\ o.kind # "deleteExpired" => o.owed = {}
    /\ \A x \in o.owed : ghost.due[x] = "expired"
    /\ Sweeping(o) =>
          /\ \A x \in Judged(o) : ghost.due[x] # "fresh" /\ (driver = "s3" => ghost.due[x] # "none")
          /\ driver \in {"dropbox", "gdrive"} =>
                (\A x \in Coming(o) : exp[x] = "expired" /\ ghost.due[x] # "fresh") /\ Current(o)
          /\ o.pc = "unmeta" => ~Has(o.p)
          /\ \A x \in o.owed : Has(x) => x \in Coming(o) \/ (driver = "local" /\ x \in Nested)

Informed(c) ==
    /\ \A x \in Paths : Told(op[c], x)
    /\ op[c] # Idle => Timed(op[c])

ExpiriesSound ==
    ghost.serial =>
        /\ (\A c \in Clients : op[c] = Idle) => \A x \in Paths : Told(Idle, x)
        /\ \A c \in Clients : op[c] # Idle => Informed(c)

LEMMA StoreHas ==
    ASSUME Typed, NEW p \in Paths, NEW b, Store(p, b)
    PROVE  \A x \in Paths : Has(x)' <=> x = p \/ Has(x)
<1>1. \A x \in Paths : store'[x] = IF x = p THEN {[id |-> 0, body |-> b]} ELSE store[x]
  BY DEF Store, Typed
<1>2. QED
  BY <1>1 DEF Has

LEMMA RemoveHas ==
    ASSUME Typed, NEW ps, Remove(ps)
    PROVE  \A x \in Paths : Has(x)' <=> x \notin ps /\ Has(x)
<1>1. \A x \in Paths : store'[x] = IF x \in ps THEN {} ELSE store[x]
  BY DEF Remove
<1>2. QED
  BY <1>1 DEF Has

\* What an index becomes when it is written as it was read.
LEMMA AgedIs ==
    ASSUME NEW x \in Paths, NEW snap
    PROVE  /\ Aged(snap)[x] = IF snap[x] = "fresh" /\ exp[x] = "expired" THEN "expired" ELSE snap[x]
           /\ Typed => Aged(exp) = exp
  BY DEF Aged, Typed

\* The expiries a reader expects after a call that succeeded, path by path.
LEMMA DueAt ==
    ASSUME NEW o \in OpRecord, NEW d \in [Paths -> Dues], NEW x \in Paths
    PROVE  /\ o.kind \in {"put", "putStream", "delete"} => Due(o, d)[x] = IF x = o.p THEN "none" ELSE d[x]
           /\ o.kind = "putTimed" => Due(o, d)[x] = IF x = o.p THEN "fresh" ELSE d[x]
           /\ o.kind \in {"append", "prepend"} => Due(o, d)[x] = IF x = o.p THEN "unknown" ELSE d[x]
           /\ o.kind = "copy" => Due(o, d)[x] = IF x = o.q THEN "unknown" ELSE d[x]
           /\ o.kind = "move" => Due(o, d)[x] = IF x = o.q THEN "unknown" ELSE IF x = o.p THEN "none" ELSE d[x]
           /\ o.kind = "deleteDirectory" => Due(o, d)[x] = IF x \in Nested THEN "none" ELSE d[x]
           /\ o.kind = "deleteExpired" => Due(o, d)[x] = IF store[x] = {} THEN "none" ELSE d[x]
           /\ o.kind \in {"setVisibility", "makeDirectory"} => Due(o, d)[x] = d[x]
           /\ o.kind # "putTimed" => Due(o, d)[x] \in {d[x], "none", "unknown"}
<1>1. CASE o.kind \in {"put", "putStream", "delete"}
  BY <1>1 DEF Due
<1>2. CASE o.kind = "putTimed"
  BY <1>2 DEF Due
<1>3. CASE o.kind \in {"append", "prepend"}
  BY <1>3 DEF Due
<1>4. CASE o.kind = "copy"
  BY <1>4 DEF Due
<1>5. CASE o.kind = "move"
  BY <1>5 DEF Due
<1>6. CASE o.kind = "deleteDirectory"
  BY <1>6 DEF Due
<1>7. CASE o.kind = "deleteExpired"
  BY <1>7 DEF Due
<1>8. CASE o.kind \notin {"put", "putStream", "delete", "putTimed", "append", "prepend", "copy", "move",
                          "deleteDirectory", "deleteExpired"}
  BY <1>8 DEF Due
<1>9. QED
  BY <1>1, <1>2, <1>3, <1>4, <1>5, <1>6, <1>7, <1>8

\* ... and in the history.
LEMMA DueAfter ==
    ASSUME Typed, NEW c \in Clients, op[c] \in OpRecord, Done(c) \/ Swept(c), ghost'.serial, NEW x \in Paths
    PROVE  /\ op[c].kind \in {"put", "putStream", "delete"} => ghost'.due[x] = IF x = op[c].p THEN "none" ELSE ghost.due[x]
           /\ op[c].kind = "putTimed" => ghost'.due[x] = IF x = op[c].p THEN "fresh" ELSE ghost.due[x]
           /\ op[c].kind \in {"append", "prepend"} => ghost'.due[x] = IF x = op[c].p THEN "unknown" ELSE ghost.due[x]
           /\ op[c].kind = "copy" => ghost'.due[x] = IF x = op[c].q THEN "unknown" ELSE ghost.due[x]
           /\ op[c].kind = "move" =>
                 ghost'.due[x] = IF x = op[c].q THEN "unknown" ELSE IF x = op[c].p THEN "none" ELSE ghost.due[x]
           /\ op[c].kind = "deleteDirectory" => ghost'.due[x] = IF x \in Nested THEN "none" ELSE ghost.due[x]
           /\ op[c].kind = "deleteExpired" => ghost'.due[x] = IF Has(x) THEN ghost.due[x] ELSE "none"
           /\ op[c].kind \in {"setVisibility", "makeDirectory"} => ghost'.due[x] = ghost.due[x]
           /\ op[c].kind # "putTimed" => ghost'.due[x] \in {ghost.due[x], "none", "unknown"}
<1>1. PICK d \in [Paths -> Dues] : d = ghost.due
  BY DEF Typed
<1>2. PICK o \in OpRecord : o = op[c]
  OBVIOUS
<1>3. ghost'.due = Due(o, d)
  BY <1>1, <1>2, DoneIs
<1>4. QED
  BY <1>1, <1>2, <1>3, DueAt DEF Has

-------------------------------------------------------------------------------
(* Steps that leave the expiries on record as they are *)

\* A call that gives up before it changed anything.
LEMMA FailInformed ==
    ASSUME Typed, NEW c \in Clients, op[c] \in OpRecord, Informed(c), Fail(c), UNCHANGED exp,
           \A x \in Paths : ~Between(op[c], x)
    PROVE  Informed(c)'
  BY DEF Fail, Informed, Told, Unfinished, Typed

\* The last step of a call, on a disk where the expiries of files that are
\* written or removed stay on record.
LEMMA EndInformed ==
    ASSUME Typed, NEW c \in Clients, op[c] \in OpRecord, Informed(c), Done(c), ghost'.serial, UNCHANGED exp,
           driver # "s3", op[c].kind # "putTimed", \A x \in Paths : Between(op[c], x) => ghost'.due[x] \in {"none", "unknown"}
    PROVE  Informed(c)'
<1>1. op'[c] = Idle /\ driver' = driver
  BY DoneIs DEF Done
<1>2. ASSUME NEW x \in Paths PROVE Told(Idle, x)'
  <2>1. ghost'.due[x] \in {ghost.due[x], "none", "unknown"}
    BY DueAfter
  <2>2. Told(op[c], x)
    BY DEF Informed
  <2>3. QED
    BY <1>1, <2>1, <2>2 DEF Told, Unfinished
<1>3. QED
  BY <1>1, <1>2 DEF Informed

\* A step of a call that goes on.
LEMMA GoesOnInformed ==
    ASSUME Typed, NEW c \in Clients, op[c] \in OpRecord, Informed(c), UNCHANGED <<exp, ghost, driver>>,
           op'[c] # Idle, op'[c].kind = op[c].kind, op'[c].owed = op[c].owed, op[c].kind # "deleteExpired",
           \A x \in Paths : Between(op[c], x) => Between(op[c], x)',
           op'[c].kind = "putTimed" /\ driver \in {"dropbox", "gdrive"} /\ op'[c].pc = "write" => Aged(op[c].snap)' = exp
    PROVE  Informed(c)'
<1>1. op[c] # Idle /\ Timed(op[c])
  BY IdleIsNoRecord DEF Informed
<1>2. Timed(op[c])'
  BY <1>1 DEF Timed, Sweeping
<1>3. ASSUME NEW x \in Paths PROVE Told(op[c], x)'
  <2>1. Told(op[c], x)
    BY DEF Informed
  <2>2. QED
    BY <2>1 DEF Told, Unfinished
<1>4. QED
  BY <1>2, <1>3 DEF Informed

-------------------------------------------------------------------------------
(* Each driver keeps the expiries *)

LEMMA LocalInformed ==
    ASSUME Typed, Typed', ghost'.serial, NEW c \in Clients, op[c] \in OpRecord, Sound(c), Informed(c), LocalStep(c)
    PROVE  Informed(c)'
<1> DEFINE o == op[c]
<1>1. o # Idle /\ Noted(o) /\ Timed(o) /\ \A x \in Paths : Told(o, x)
  BY IdleIsNoRecord DEF Sound, Informed
<1>2. driver = "local" /\ driver' = "local"
  BY DriverOfStep, LocalFollows DEF Follows
<1>3. ASSUME \/ LocalSetVisibility(c) \/ LocalDelete(c) \/ LocalMove(c) \/ LocalMakeDirectory(c)
             \/ (LocalCopy(c) /\ Fail(c)) \/ (LocalWrite(c) /\ o.kind # "putTimed")
             \/ (\E k \in 0 .. MaxOps : LocalOpen(c, k) /\ (Done(c) \/ Fail(c)))
      PROVE  Informed(c)'
  <2>1. (o.pc \in {"start", "open", "fill"} /\ o.kind \notin {"move", "deleteExpired"}) \/ (o.kind = "move" /\ o.pc = "start")
    BY <1>3 DEF LocalSetVisibility, LocalDelete, LocalCopy, LocalMove, LocalMakeDirectory, LocalOpen, LocalWrite, Local, At
  <2>2. UNCHANGED exp /\ ((Done(c) /\ o.kind # "putTimed") \/ Fail(c))
    <3>1. CASE \E k \in 0 .. MaxOps : LocalOpen(c, k) /\ (Done(c) \/ Fail(c))
      <4>1. PICK k \in 0 .. MaxOps : LocalOpen(c, k) /\ (Done(c) \/ Fail(c))
        BY <3>1
      <4>2. (\E r \in OpRecord : Keep(c, r)) => ~Done(c) /\ ~Fail(c)
        BY KeptFields DEF Keep, Done, Fail, Typed
      <4>3. ~DirThere(Target(o)) => Fail(c)
        BY <4>1 DEF LocalOpen
      <4>4. DirThere(Target(o)) /\ ToItself(o) => Done(c) /\ o.kind = "copy"
        BY <4>1 DEF LocalOpen, ToItself
      <4>5. DirThere(Target(o)) /\ ~ToItself(o) => Keep(c, [o EXCEPT !.pc = "fill", !.id = Opened(o)])
        BY <4>1 DEF LocalOpen
      <4>6. Opened(o) \in Nat => [o EXCEPT !.pc = "fill", !.id = Opened(o)] \in OpRecord
        BY DEF OpRecord, Pcs
      <4>7. Opened(o) \in Nat
        BY OpenedTyped
      <4>8. UNCHANGED exp
        BY <4>1 DEF LocalOpen
      <4>9. QED
        BY <4>1, <4>2, <4>3, <4>4, <4>5, <4>6, <4>7, <4>8
    <3>2. CASE ~\E k \in 0 .. MaxOps : LocalOpen(c, k) /\ (Done(c) \/ Fail(c))
      BY <1>3, <3>2 DEF LocalSetVisibility, LocalDelete, LocalCopy, LocalMove, LocalMakeDirectory, LocalWrite, Local, At
    <3>3. QED
      BY <3>1, <3>2
  <2>3. \A x \in Paths : ~Between(o, x)
    BY <2>1 DEF Between
  <2>4. QED
    BY <1>2, <2>2, <2>3, EndInformed, FailInformed
<1>4. ASSUME UNCHANGED <<exp, ghost, driver>>, op'[c] # Idle, op'[c].kind = o.kind, op'[c].owed = o.owed,
             o.pc \in {"start", "open", "fill"}, o.kind # "deleteExpired"
      PROVE  Informed(c)'
  <2>1. \A x \in Paths : ~Between(o, x)
    BY <1>4 DEF Between
  <2>2. QED
    BY <1>2, <1>4, <2>1, GoesOnInformed
<1>5. ASSUME LocalPut(c) \/ LocalPutStream(c) \/ (LocalWrite(c) /\ o.kind = "putTimed") PROVE Informed(c)'
  <2>1. o.pc \in {"start", "open", "fill"} /\ o.kind # "deleteExpired" /\ UNCHANGED <<exp, ghost, driver>>
        /\ (Goto(c, "open") \/ Goto(c, "meta"))
    BY <1>5 DEF LocalPut, LocalPutStream, LocalWrite, Local, At, Goto
  <2>2. op'[c] # Idle /\ op'[c].kind = o.kind /\ op'[c].owed = o.owed
    BY <2>1, GotoFields
  <2>3. QED
    BY <1>4, <2>1, <2>2
<1>6. ASSUME NEW k \in 0 .. MaxOps, LocalOpen(c, k), ~Done(c), ~Fail(c) PROVE Informed(c)'
  <2>1. Keep(c, [o EXCEPT !.pc = "fill", !.id = Opened(o)]) /\ UNCHANGED exp
    BY <1>6 DEF LocalOpen
  <2>2. o.pc \in {"start", "open", "fill"} /\ o.kind # "deleteExpired"
    BY <1>6 DEF LocalOpen, Local, At
  <2>3. PICK i \in Nat : i = Opened(o)
    BY OpenedTyped
  <2>4. PICK r \in OpRecord : r = [o EXCEPT !.pc = "fill", !.id = i]
    BY DEF OpRecord, Pcs
  <2>5. op'[c] = r /\ op'[c] # Idle
    BY <2>1, <2>3, <2>4, KeptFields DEF Keep
  <2>6. op'[c].kind = o.kind /\ op'[c].owed = o.owed
    BY <2>4, <2>5 DEF OpRecord
  <2>7. QED
    BY <1>4, <2>1, <2>2, <2>5, <2>6 DEF Keep
<1>7. ASSUME LocalCopy(c), ~Fail(c) PROVE Informed(c)'
  <2>1. Has(o.p) /\ Keep(c, [o EXCEPT !.pc = "open", !.read = Body(o.p), !.id = Inode(o.p)]) /\ UNCHANGED exp
    BY <1>7 DEF LocalCopy
  <2>2. o.pc = "start" /\ o.kind = "copy"
    BY <1>7 DEF LocalCopy, Local, At
  <2>3. PICK b \in Bodies, i \in Nat : b = Body(o.p) /\ i = Inode(o.p)
    BY <2>1, FieldsTyped, InodeTyped
  <2>4. PICK r \in OpRecord : r = [o EXCEPT !.pc = "open", !.read = b, !.id = i]
    BY DEF OpRecord, Pcs
  <2>5. op'[c] = r /\ op'[c] # Idle
    BY <2>1, <2>3, <2>4, KeptFields DEF Keep
  <2>6. op'[c].kind = o.kind /\ op'[c].owed = o.owed
    BY <2>4, <2>5 DEF OpRecord
  <2>7. QED
    BY <1>4, <2>1, <2>2, <2>5, <2>6 DEF Keep
<1>8. ASSUME LocalCopyFails(c) \/ LocalTorn(c) \/ LocalSweepFails(c) PROVE FALSE
  BY <1>8, UnsureIsUnsure DEF LocalCopyFails, LocalTorn, LocalSweepFails, Torn
<1>9. ASSUME LocalListDirectory(c) PROVE Informed(c)'
  <2>1. o.kind = "deleteDirectory" /\ UNCHANGED <<exp, ghost, driver>>
    BY <1>9 DEF LocalListDirectory, Local, At, Keep
  <2>2. PICK todo \in SUBSET Paths : todo = {p \in Nested : Has(p)}
    BY DiskAssumption
  <2>3. PICK r \in OpRecord : r = [o EXCEPT !.pc = "delete", !.todo = todo]
    BY DEF OpRecord, Pcs
  <2>4. op'[c] = r /\ op'[c] # Idle
    BY <1>9, <2>2, <2>3, KeptFields DEF LocalListDirectory, Keep
  <2>5. op'[c].pc = "delete" /\ op'[c].kind = o.kind /\ op'[c].owed = o.owed
    BY <2>3, <2>4 DEF OpRecord
  <2>6. \A x \in Paths : Between(o, x) => Between(op[c], x)'
    BY <2>1, <2>5 DEF Between, Listing
  <2>7. QED
    BY <1>2, <2>1, <2>4, <2>5, <2>6, GoesOnInformed
<1>10. ASSUME NEW p \in Paths, LocalUnlink(c, p) PROVE Informed(c)'
  <2>1. /\ o.kind = "deleteDirectory" /\ o.pc = "delete" /\ p \in o.todo /\ UNCHANGED <<ghost, driver>>
        /\ exp' = [exp EXCEPT ![p] = "none"]
    BY <1>10 DEF LocalUnlink, Local, At, Keep
  <2>2. p \in Listing
    BY <1>1, <1>2, <2>1 DEF Noted, Listing
  <2>3. PICK r \in OpRecord : r = [o EXCEPT !.todo = @ \ {p}]
    BY DEF OpRecord
  <2>4. op'[c] = r /\ op'[c] # Idle
    BY <1>10, <2>3, KeptFields DEF LocalUnlink, Keep
  <2>5. op'[c].pc = "delete" /\ op'[c].kind = o.kind /\ op'[c].owed = o.owed
    BY <2>1, <2>3, <2>4 DEF OpRecord
  <2>6. \A x \in Paths : Between(o, x) => Between(op[c], x)'
    BY <2>1, <2>5 DEF Between, Listing
  <2>7. Between(op[c], p)'
    BY <2>1, <2>2, <2>5 DEF Between, Listing
  <2>8. \A x \in Paths : exp'[x] = IF x = p THEN "none" ELSE exp[x]
    BY <2>1 DEF Typed
  <2>9. \A x \in Paths : Told(op[c], x)'
    BY <1>1, <1>2, <2>1, <2>4, <2>6, <2>7, <2>8 DEF Told, Unfinished
  <2>10. Timed(op[c])'
    BY <1>1, <2>1, <2>5 DEF Timed, Sweeping
  <2>11. QED
    BY <2>9, <2>10 DEF Informed
<1>11. ASSUME LocalPutTimed(c) PROVE Informed(c)'
  <2>1. o.kind = "putTimed" /\ o.pc = "meta" /\ exp' = [exp EXCEPT ![o.p] = "fresh"] /\ Done(c)
    BY <1>1, <1>2, <1>11 DEF LocalPutTimed, Local, At, Noted, Target
  <2>2. op'[c] = Idle
    BY <2>1, DoneIs
  <2>3. ASSUME NEW x \in Paths PROVE Told(Idle, x)'
    <3>1. ghost'.due[x] = IF x = o.p THEN "fresh" ELSE ghost.due[x]
      BY <2>1, DueAfter
    <3>2. exp'[x] = IF x = o.p THEN "fresh" ELSE exp[x]
      BY <2>1 DEF Typed
    <3>3. Told(o, x) /\ (x # o.p => ~Between(o, x))
      BY <1>1, <2>1 DEF Between
    <3>4. QED
      BY <1>2, <3>1, <3>2, <3>3 DEF Told, Unfinished
  <2>4. QED
    BY <2>2, <2>3 DEF Informed
<1>12. ASSUME LocalDeleteDirectory(c) PROVE Informed(c)'
  <2>1. o.kind = "deleteDirectory" /\ o.pc = "delete" /\ Done(c)
        /\ exp' = [p \in Paths |-> IF p \in Nested THEN "none" ELSE exp[p]]
    BY <1>12 DEF LocalDeleteDirectory, Local, At
  <2>2. op'[c] = Idle
    BY <2>1, DoneIs
  <2>3. ASSUME NEW x \in Paths PROVE Told(Idle, x)'
    <3>1. ghost'.due[x] = IF x \in Nested THEN "none" ELSE ghost.due[x]
      BY <2>1, DueAfter
    <3>2. exp'[x] = IF x \in Nested THEN "none" ELSE exp[x]
      BY <2>1
    <3>3. Told(o, x) /\ (x \notin Nested => ~Between(o, x))
      BY <1>1, <1>2, <2>1 DEF Between, Listing
    <3>4. QED
      BY <1>2, <3>1, <3>2, <3>3 DEF Told, Unfinished
  <2>4. QED
    BY <2>2, <2>3 DEF Informed
<1>13. ASSUME NEW fails \in BOOLEAN, LocalRead(c, fails) PROVE Informed(c)'
  <2>1. o.kind = "prepend" /\ o.pc = "start" /\ UNCHANGED <<exp, ghost, driver>>
    BY <1>13, UnsureIsUnsure DEF LocalRead, Local, At
  <2>2. PICK b : b = IF fails THEN <<>> ELSE Content(o.p)
    OBVIOUS
  <2>3. op'[c] = [o EXCEPT !.pc = "open", !.read = b]
    BY <1>13, <2>2 DEF LocalRead, Typed
  <2>4. op'[c] # Idle /\ op'[c].kind = o.kind /\ op'[c].owed = o.owed
    BY <2>3 DEF OpRecord, Idle
  <2>5. QED
    BY <1>4, <2>1, <2>4
<1>14. ASSUME LocalSweep(c) PROVE Informed(c)'
  <2>1. o.kind = "deleteExpired" /\ o.pc = "start" /\ UNCHANGED <<store, exp, ghost, driver>>
    BY <1>14 DEF LocalSweep, Local, At, Keep
  <2>2. op'[c] = [o EXCEPT !.pc = "check", !.todo = LocalListed]
    BY <1>14 DEF LocalSweep, Keep, Typed
  <2>3. op'[c] # Idle /\ op'[c].pc = "check" /\ op'[c].kind = o.kind /\ op'[c].owed = o.owed /\ op'[c].todo = LocalListed
    BY <2>2 DEF OpRecord, Idle
  <2>4. \A x \in Paths : Told(op[c], x)'
    BY <1>1, <1>2, <2>1, <2>3 DEF Told, Unfinished, Between
  <2>5. \A x \in o.owed : x \in Paths /\ (Has(x)' => x \in LocalListed \/ x \in Nested)
    BY <2>1, SameContents DEF LocalListed, OpRecord
  <2>6. Timed(op[c])'
    BY <1>1, <1>2, <2>1, <2>3, <2>5 DEF Timed, Sweeping, Judged, Coming
  <2>7. QED
    BY <2>4, <2>6 DEF Informed
<1>15. ASSUME NEW p \in Paths, NEW fails \in BOOLEAN, LocalCheck(c, p, fails) PROVE Informed(c)'
  <2>1. o.kind = "deleteExpired" /\ o.pc = "check" /\ UNCHANGED <<store, exp, ghost, driver>> /\ p \in o.todo /\ ~fails
    BY <1>15, UnsureIsUnsure DEF LocalCheck, Local, At
  <2>2. PICK pc : pc = (IF exp[p] = "expired" THEN "delete" ELSE "check")
    OBVIOUS
  <2>3. op' = [op EXCEPT ![c] = [op[c] EXCEPT !.pc = pc, !.p = p, !.todo = @ \ {p}]]
    BY <1>15, <2>1, <2>2 DEF LocalCheck
  <2>4. op'[c] # Idle /\ op'[c].pc = pc /\ op'[c].p = p /\ op'[c].kind = o.kind /\ op'[c].owed = o.owed
        /\ op'[c].todo = o.todo \ {p}
    <3>1. PICK r \in OpRecord : r = [op[c] EXCEPT !.pc = pc, !.p = p, !.todo = @ \ {p}]
      BY <2>2 DEF OpRecord, Pcs
    <3>2. op'[c] = r /\ op'[c] # Idle
      BY <2>3, <3>1, KeptFields
    <3>3. r.pc = pc /\ r.p = p /\ r.todo = o.todo \ {p} /\ r.kind = o.kind /\ r.owed = o.owed
      BY <3>1 DEF OpRecord
    <3>4. QED
      BY <3>2, <3>3
  <2>5. \A x \in Paths : (Has(x)' <=> Has(x))
    BY <2>1, SameContents
  <2>6. \A x \in Paths : Told(op[c], x)'
    BY <1>1, <1>2, <2>1, <2>2, <2>4, <2>5 DEF Told, Unfinished, Between
  <2>7. exp[p] = "expired" => ghost.due[p] # "fresh"
    BY <1>1, <1>2, <2>1 DEF Told, Unfinished, Between
  <2>8. \A x \in o.owed : x \in Paths /\ ghost.due[x] = "expired" /\ (Has(x) => x \in o.todo \/ x \in Nested)
    BY <1>1, <1>2, <2>1 DEF Timed, Sweeping, Coming, Judged, OpRecord
  <2>9. p \in o.owed /\ Has(p) => exp[p] = "expired"
    BY <1>1, <1>2, <2>1, <2>8 DEF Told, Unfinished, Between
  <2>10. Timed(op[c])'
    BY <1>1, <1>2, <2>1, <2>2, <2>4, <2>5, <2>7, <2>8, <2>9 DEF Timed, Sweeping, Judged, Coming
  <2>11. QED
    BY <2>6, <2>10 DEF Informed
<1>16. ASSUME LocalDeleteExpired(c) PROVE Informed(c)'
  <2>1. o.kind = "deleteExpired" /\ o.pc = "delete" /\ UNCHANGED <<exp, driver>> /\ Remove({o.p})
        /\ ghost'.due = ghost.due /\ o.p \in Paths
    BY <1>16 DEF LocalDeleteExpired, Local, At, Judge, Typed, OpRecord
  <2>2. PICK pc : pc = IF Has(o.p) THEN "unmeta" ELSE "check"
    OBVIOUS
  <2>3. op'[c] = [o EXCEPT !.pc = pc]
    BY <1>16, <2>2 DEF LocalDeleteExpired, Typed
  <2>4. op'[c] # Idle /\ op'[c].pc = pc /\ op'[c].p = o.p /\ op'[c].kind = o.kind /\ op'[c].owed = o.owed
        /\ op'[c].todo = o.todo
    BY <2>2, <2>3 DEF OpRecord, Idle
  <2>5. \A x \in Paths : (Has(x)' <=> x # o.p /\ Has(x))
    BY <2>1, RemoveHas
  <2>6. ghost.due[o.p] # "fresh"
    BY <1>1, <1>2, <2>1 DEF Timed, Sweeping, Judged
  <2>7. \A x \in Paths : Told(op[c], x)'
    BY <1>1, <1>2, <2>1, <2>2, <2>4, <2>5, <2>6 DEF Told, Unfinished, Between
  <2>8. \A x \in o.owed : x \in Paths /\ ghost.due[x] = "expired" /\ (Has(x) => x \in o.todo \/ x = o.p \/ x \in Nested)
    BY <1>1, <1>2, <2>1 DEF Timed, Sweeping, Coming, Judged, OpRecord
  <2>9. Timed(op[c])'
    BY <1>1, <1>2, <2>1, <2>2, <2>4, <2>5, <2>6, <2>8 DEF Timed, Sweeping, Judged, Coming
  <2>10. QED
    BY <2>7, <2>9 DEF Informed
<1>17. ASSUME LocalDeleteMeta(c) PROVE Informed(c)'
  <2>1. o.kind = "deleteExpired" /\ o.pc = "unmeta" /\ UNCHANGED <<store, ghost, driver>> /\ Goto(c, "check")
        /\ exp' = [exp EXCEPT ![o.p] = "none"] /\ o.p \in Paths
    BY <1>17 DEF LocalDeleteMeta, Local, At, Goto, OpRecord
  <2>2. op'[c] # Idle /\ op'[c].pc = "check" /\ op'[c].p = o.p /\ op'[c].kind = o.kind /\ op'[c].owed = o.owed
        /\ op'[c].todo = o.todo
    BY <2>1, GotoFields
  <2>3. \A x \in Paths : (Has(x)' <=> Has(x))
    BY <2>1, SameContents
  <2>4. ghost.due[o.p] # "fresh" /\ ~Has(o.p)
    BY <1>1, <1>2, <2>1 DEF Timed, Sweeping, Judged
  <2>5. \A x \in Paths : exp'[x] = IF x = o.p THEN "none" ELSE exp[x]
    BY <2>1 DEF Typed
  <2>6. \A x \in Paths : Told(op[c], x)'
    BY <1>1, <1>2, <2>1, <2>2, <2>3, <2>4, <2>5 DEF Told, Unfinished, Between
  <2>7. \A x \in o.owed : x \in Paths /\ ghost.due[x] = "expired" /\ (Has(x) => x \in o.todo \/ x \in Nested)
    BY <1>1, <1>2, <2>1 DEF Timed, Sweeping, Coming, Judged, OpRecord
  <2>8. Timed(op[c])'
    BY <1>1, <1>2, <2>1, <2>2, <2>3, <2>7 DEF Timed, Sweeping, Judged, Coming
  <2>9. QED
    BY <2>6, <2>8 DEF Informed
<1>18. ASSUME LocalSweepEnd(c) PROVE Informed(c)'
  <2>1. o.kind = "deleteExpired" /\ o.pc = "check" /\ UNCHANGED <<store, exp>> /\ Swept(c)
    BY <1>18 DEF LocalSweepEnd, Local, At
  <2>2. op'[c] = Idle
    BY <2>1, DoneIs
  <2>3. ASSUME NEW x \in Paths PROVE Told(Idle, x)'
    <3>1. ghost'.due[x] = IF Has(x) THEN ghost.due[x] ELSE "none"
      BY <2>1, DueAfter
    <3>2. Told(o, x)
      BY <1>1
    <3>3. QED
      BY <1>2, <2>1, <3>1, <3>2 DEF Told, Unfinished, Between
  <2>4. QED
    BY <2>2, <2>3 DEF Informed
<1>19. ASSUME NEW k \in 0 .. MaxOps, LocalOpen(c, k) PROVE Informed(c)'
  <2>1. CASE Done(c) \/ Fail(c)
    BY <1>3, <1>19, <2>1
  <2>2. CASE ~Done(c) /\ ~Fail(c)
    BY <1>6, <1>19, <2>2
  <2>3. QED
    BY <2>1, <2>2
<1>20. ASSUME LocalCopy(c) PROVE Informed(c)'
  BY <1>3, <1>7, <1>20
<1>21. ASSUME LocalWrite(c) PROVE Informed(c)'
  BY <1>3, <1>5, <1>21
<1>22. QED
  BY <1>3, <1>19, <1>20, <1>21, <1>11, <1>12, <1>13, <1>14, <1>15, <1>16, <1>17, <1>18, <1>5, <1>8, <1>9, <1>10 DEF LocalStep

LEMMA BufferInformed ==
    ASSUME Typed, Typed', ghost'.serial, NEW c \in Clients, op[c] \in OpRecord, Informed(c), BufferStep(c)
    PROVE  Informed(c)'
<1> DEFINE o == op[c]
<1>1. o # Idle /\ \A x \in Paths : Told(o, x)
  BY IdleIsNoRecord DEF Informed
<1>2. driver = "buffer" /\ driver' = "buffer"
  BY DriverOfStep, BufferFollows DEF Follows
<1>3. ASSUME Done(c) \/ Swept(c) PROVE Informed(c)'
  <2>1. op'[c] = Idle
    BY <1>3, DoneIs
  <2>2. ASSUME NEW x \in Paths PROVE Told(Idle, x)'
    <3>1. ghost'.due[x] \in {ghost.due[x], "none", "unknown", "fresh"}
      BY <1>3, DueAfter
    <3>2. Told(o, x)
      BY <1>1
    <3>3. QED
      BY <1>2, <3>1, <3>2 DEF Told
  <2>3. QED
    BY <2>1, <2>2 DEF Informed
<1>4. ASSUME Fail(c) PROVE Informed(c)'
  BY <1>1, <1>2, <1>4 DEF Fail, Informed, Told, Typed
<1>5. ASSUME BufferCopy(c), Goto(c, "copied") PROVE Informed(c)'
  <2>1. o.kind \in {"copy", "move"} /\ o.pc = "start" /\ UNCHANGED <<exp, ghost, driver>>
    BY <1>5 DEF BufferCopy, Buffer, At, Goto
  <2>2. op'[c] # Idle /\ op'[c].pc = "copied" /\ op'[c].kind = o.kind /\ op'[c].owed = o.owed
    BY <1>5, GotoFields
  <2>3. \A x \in Paths : ~Between(o, x)
    BY <2>1 DEF Between
  <2>4. QED
    BY <2>1, <2>2, <2>3, GoesOnInformed
<1>6. QED
  BY <1>3, <1>4, <1>5 DEF BufferStep, BufferPut, ServicePutTimed, ServicePutStream, ServiceDeleteExpired,
     BufferDelete, BufferCopy, BufferMove, BufferPrepend, BufferAppend, BufferSetVisibility,
     BufferMakeDirectory, BufferDeleteDirectory

\* The steps of an index: reading it, and writing it back, on Dropbox and
\* Google Drive.
LEMMA IndexRead ==
    ASSUME Typed, NEW c \in Clients, op[c] \in OpRecord, Informed(c), UNCHANGED <<store, exp, ghost, driver>>,
           op[c].kind = "putTimed", op'[c] # Idle, op'[c].pc = "write",
           op'[c].kind = op[c].kind, op'[c].owed = op[c].owed, op'[c].p = op[c].p, op'[c].snap = exp
    PROVE  Informed(c)'
<1>1. Aged(op[c].snap)' = exp
  BY DEF Aged, Typed
<1>2. \A x \in Paths : Between(op[c], x) => Between(op[c], x)'
  BY DEF Between
<1>3. QED
  BY <1>1, <1>2, GoesOnInformed

LEMMA IndexWritten ==
    ASSUME Typed, NEW c \in Clients, op[c] \in OpRecord, ghost'.serial, Informed(c), driver \in {"dropbox", "gdrive"},
           op[c].kind = "putTimed", op[c].pc = "write", Done(c),
           exp' = [Aged(op[c].snap) EXCEPT ![op[c].p] = "fresh"]
    PROVE  Informed(c)'
<1>1. op'[c] = Idle /\ driver' = driver /\ ~Diverges(op[c])
  BY DoneIs DEF Done
<1>2. Aged(op[c].snap) = exp
  BY IdleIsNoRecord DEF Informed, Timed
<1>3. ASSUME NEW x \in Paths PROVE Told(Idle, x)'
  <2>1. ghost'.due[x] = IF x = op[c].p THEN "fresh" ELSE ghost.due[x]
    BY DueAfter
  <2>2. exp'[x] = IF x = op[c].p THEN "fresh" ELSE exp[x]
    BY <1>2 DEF Typed
  <2>3. Told(op[c], x) /\ (x # op[c].p => ~Between(op[c], x))
    BY DEF Between, Informed
  <2>4. driver = "gdrive" => Base[op[c].p] = op[c].p
    BY <1>1 DEF Diverges
  <2>5. QED
    BY <1>1, <2>1, <2>2, <2>3, <2>4 DEF Told, Unfinished
<1>4. QED
  BY <1>1, <1>3 DEF Informed

\* A sweep reads the index ...
LEMMA IndexSwept ==
    ASSUME Typed, NEW c \in Clients, op[c] \in OpRecord, Informed(c), driver \in {"dropbox", "gdrive"},
           UNCHANGED <<store, exp, ghost, driver>>,
           op[c].kind = "deleteExpired", op[c].pc = "start", op'[c] # Idle,
           op'[c].pc = IF driver = "dropbox" THEN "delete" ELSE "look",
           op'[c].kind = op[c].kind, op'[c].owed = op[c].owed, op'[c].snap = exp,
           op'[c].todo = {p \in Paths : exp[p] = "expired"}
    PROVE  Informed(c)'
<1>1. op[c] # Idle /\ Timed(op[c]) /\ \A x \in Paths : Told(op[c], x)
  BY IdleIsNoRecord DEF Informed
<1>2. \A x \in Paths : Told(op[c], x)'
  BY <1>1 DEF Told, Unfinished, Between
<1>3. Coming(op[c])' = {p \in Paths : exp[p] = "expired"} /\ Judged(op[c])' = {}
  BY DEF Coming, Judged
<1>4. \A x \in Paths : exp[x] = "expired" => ghost.due[x] # "fresh"
  BY <1>1 DEF Told, Unfinished, Between
<1>5. \A x \in Paths : ghost.due[x] = "expired" => exp[x] = "expired"
  BY <1>1 DEF Told, Unfinished, Between
<1>6. Current(op[c])'
  BY DEF Current, Aged
<1>7. op[c].owed \subseteq Paths
  BY DEF OpRecord
<1>8. Timed(op[c])'
  BY <1>1, <1>3, <1>4, <1>5, <1>6, <1>7 DEF Timed, Sweeping
<1>9. QED
  BY <1>2, <1>8 DEF Informed

\* ... deletes the file of an entry, and drops the entry ...
LEMMA IndexDropped ==
    ASSUME Typed, NEW c \in Clients, op[c] \in OpRecord, Informed(c), driver \in {"dropbox", "gdrive"},
           NEW p \in Paths, p \in Coming(op[c]), Remove({p}), UNCHANGED <<exp, driver>>, ghost'.due = ghost.due,
           Sweeping(op[c]), op'[c] # Idle, op'[c].pc = IF driver = "dropbox" THEN "delete" ELSE "look",
           op'[c].kind = op[c].kind, op'[c].owed = op[c].owed,
           Coming(op[c]) \ {p} \subseteq op'[c].todo, op'[c].todo \subseteq Coming(op[c]),
           \A x \in Paths : x # p => op'[c].snap[x] = op[c].snap[x],
           op'[c].snap[p] = "none" \/ (op'[c].snap[p] = op[c].snap[p] /\ driver = "dropbox")
    PROVE  Informed(c)'
<1>1. op[c] # Idle /\ Timed(op[c]) /\ \A x \in Paths : Told(op[c], x)
  BY IdleIsNoRecord DEF Informed
<1>2. \A x \in Paths : Has(x)' <=> x # p /\ Has(x)
  BY RemoveHas
<1>3. ghost.due[p] # "fresh" /\ op[c].kind = "deleteExpired" /\ op[c].pc # "start"
  BY <1>1 DEF Timed, Sweeping
<1>4. \A x \in Paths : Told(op[c], x)'
  BY <1>1, <1>2, <1>3 DEF Told, Unfinished, Between
<1>5. Coming(op[c]) \ {p} \subseteq Coming(op[c])' /\ Coming(op[c])' \subseteq Coming(op[c]) /\ Judged(op[c])' = {}
  BY DEF Coming, Judged
<1>6. Current(op[c])'
  <2>1. ASSUME NEW x \in Paths
        PROVE  Aged(op[c].snap)'[x] = exp'[x] \/ (op'[c].snap[x] = "none" /\ ~Has(x)')
    <3>1. Aged(op[c].snap)[x] = exp[x] \/ (op[c].snap[x] = "none" /\ ~Has(x))
      BY <1>1 DEF Timed, Current
    <3>2. Aged(op[c].snap)[x] = IF op[c].snap[x] = "fresh" /\ exp[x] = "expired" THEN "expired" ELSE op[c].snap[x]
      BY DEF Aged
    <3>3. Aged(op[c].snap)'[x] = IF op'[c].snap[x] = "fresh" /\ exp[x] = "expired" THEN "expired" ELSE op'[c].snap[x]
      BY DEF Aged
    <3>4. QED
      BY <1>2, <3>1, <3>2, <3>3
  <2>2. QED
    BY <2>1 DEF Current
<1>7. op[c].owed \subseteq Paths
  BY DEF OpRecord
<1>8. Timed(op[c])'
  BY <1>1, <1>2, <1>3, <1>5, <1>6, <1>7 DEF Timed, Sweeping
<1>9. QED
  BY <1>4, <1>8 DEF Informed

\* ... and writes back what is left of it.
LEMMA IndexEnd ==
    ASSUME Typed, NEW c \in Clients, op[c] \in OpRecord, ghost'.serial, Informed(c), driver \in {"dropbox", "gdrive"},
           Sweeping(op[c]), exp' = Aged(op[c].snap), Swept(c)
    PROVE  Informed(c)'
<1>1. op[c] # Idle /\ Timed(op[c]) /\ \A x \in Paths : Told(op[c], x)
  BY IdleIsNoRecord DEF Informed
<1>2. op'[c] = Idle /\ driver' = driver
  BY DoneIs DEF Swept
<1>3. ASSUME NEW x \in Paths PROVE Told(Idle, x)'
  <2>1. ghost'.due[x] = IF Has(x) THEN ghost.due[x] ELSE "none"
    BY DueAfter DEF Sweeping
  <2>2. exp'[x] = exp[x] \/ (op[c].snap[x] = "none" /\ ~Has(x))
    BY <1>1 DEF Timed, Current
  <2>3. Told(op[c], x)
    BY <1>1
  <2>4. op[c].snap[x] = "none" => exp'[x] = "none"
    BY DEF Aged
  <2>5. QED
    BY <1>2, <2>1, <2>2, <2>3, <2>4 DEF Told, Unfinished, Between, Sweeping
<1>4. QED
  BY <1>2, <1>3 DEF Informed

LEMMA DropboxInformed ==
    ASSUME Typed, Typed', ghost'.serial, NEW c \in Clients, op[c] \in OpRecord, Informed(c), DropboxStep(c)
    PROVE  Informed(c)'
<1> DEFINE o == op[c]
<1>1. driver = "dropbox" /\ driver' = "dropbox"
  BY DriverOfStep, DropboxFollows DEF Follows
<1>2. ASSUME (DropboxPut(c) /\ o.kind = "put") \/ DropboxPutStream(c) \/ DropboxDelete(c) \/ DropboxCopy(c)
             \/ DropboxMove(c) \/ DropboxMakeDirectory(c) \/ DropboxDeleteDirectory(c) \/ DropboxNoVisibility(c)
             \/ DropboxPrepend(c) \/ DropboxAppend(c)
      PROVE  Informed(c)'
  <2>1. /\ o.pc = "start" \/ o.kind \in {"prepend", "append"}
        /\ o.kind \notin {"putTimed", "deleteExpired"}
        /\ UNCHANGED exp /\ (Done(c) \/ Fail(c))
    BY <1>2 DEF DropboxPut, DropboxPutStream, DropboxDelete, DropboxCopy, DropboxMove, DropboxMakeDirectory,
       DropboxDeleteDirectory, DropboxNoVisibility, DropboxPrepend, DropboxAppend, Dropbox, At
  <2>2. \A x \in Paths : ~Between(o, x)
    BY <2>1 DEF Between
  <2>3. QED
    BY <1>1, <2>1, <2>2, EndInformed, FailInformed
<1>3. ASSUME DropboxPut(c), o.kind # "put" PROVE Informed(c)'
  <2>1. o.kind = "putTimed" /\ o.pc = "start" /\ Goto(c, "index") /\ UNCHANGED <<exp, ghost, driver>>
    BY <1>3 DEF DropboxPut, Dropbox, At, Goto
  <2>2. op'[c] # Idle /\ op'[c].pc = "index" /\ op'[c].kind = o.kind /\ op'[c].owed = o.owed
    BY <2>1, GotoFields
  <2>3. \A x \in Paths : ~Between(o, x)
    BY <2>1 DEF Between
  <2>4. QED
    BY <2>1, <2>2, <2>3, GoesOnInformed
<1>4. ASSUME NEW fails \in BOOLEAN, DropboxReadIndex(c, fails) PROVE Informed(c)'
  <2>1. o.kind = "putTimed" /\ UNCHANGED <<store, exp, ghost, driver>> /\ ~fails
    BY <1>4, UnsureIsUnsure DEF DropboxReadIndex, Dropbox, At
  <2>2. op'[c] = [o EXCEPT !.pc = "write", !.snap = exp]
    <3>1. op' = [op EXCEPT ![c] = [op[c] EXCEPT !.pc = "write", !.snap = exp]]
      BY <1>4, <2>1 DEF DropboxReadIndex
    <3>2. QED
      BY <3>1 DEF Typed
  <2>3. op'[c] # Idle /\ op'[c].pc = "write" /\ op'[c].kind = o.kind /\ op'[c].owed = o.owed /\ op'[c].p = o.p
        /\ op'[c].snap = exp
    BY <2>2 DEF OpRecord, Idle
  <2>4. QED
    BY <2>1, <2>3, IndexRead
<1>5. ASSUME DropboxPutTimed(c) PROVE Informed(c)'
  BY <1>1, <1>5, IndexWritten DEF DropboxPutTimed, Dropbox, At
<1>6. ASSUME NEW fails \in BOOLEAN, DropboxGet(c, fails) PROVE Informed(c)'
  <2>1. o.kind \in {"prepend", "append"} /\ UNCHANGED <<exp, ghost, driver>>
    BY <1>6 DEF DropboxGet, Dropbox, At, Unsure, Typed
  <2>2. PICK b : op' = [op EXCEPT ![c] = [op[c] EXCEPT !.pc = "put", !.read = b]]
    BY <1>6 DEF DropboxGet
  <2>3. op'[c] = [o EXCEPT !.pc = "put", !.read = b]
    BY <2>2 DEF Typed
  <2>4. op'[c] # Idle /\ op'[c].kind = o.kind /\ op'[c].owed = o.owed
    BY <2>3 DEF OpRecord, Idle
  <2>5. \A x \in Paths : ~Between(o, x)
    BY <2>1 DEF Between
  <2>6. QED
    BY <2>1, <2>4, <2>5, GoesOnInformed
<1>7. ASSUME NEW fails \in BOOLEAN, DropboxSweep(c, fails) PROVE Informed(c)'
  <2>1. o.kind = "deleteExpired" /\ o.pc = "start" /\ UNCHANGED <<store, exp, ghost, driver>> /\ ~fails
    BY <1>7, UnsureIsUnsure DEF DropboxSweep, Dropbox, At
  <2>2. PICK todo : todo = {p \in Paths : exp[p] = "expired"}
    OBVIOUS
  <2>3. op'[c] = [o EXCEPT !.pc = "delete", !.snap = exp, !.todo = todo]
    <3>1. op' = [op EXCEPT ![c] = [op[c] EXCEPT !.pc = "delete", !.snap = exp, !.todo = todo]]
      BY <1>7, <2>1, <2>2 DEF DropboxSweep
    <3>2. QED
      BY <3>1 DEF Typed
  <2>4. op'[c] # Idle /\ op'[c].pc = "delete" /\ op'[c].kind = o.kind /\ op'[c].owed = o.owed /\ op'[c].snap = exp
        /\ op'[c].todo = todo
    BY <2>3 DEF OpRecord, Idle
  <2>5. QED
    BY <1>1, <2>1, <2>2, <2>4, IndexSwept
<1>8. ASSUME NEW p \in Paths, DropboxDeleteExpired(c, p) PROVE Informed(c)'
  <2>1. /\ Sweeping(o) /\ o.pc = "delete" /\ p \in o.todo /\ Remove({p})
        /\ UNCHANGED <<exp, driver>> /\ ghost'.due = ghost.due
    BY <1>8 DEF DropboxDeleteExpired, Dropbox, At, Sweeping, Judge, Typed
  <2>2. Coming(o) = o.todo
    BY <1>1, <2>1 DEF Coming, Judged
  <2>3. op'[c] # Idle /\ op'[c].pc = "delete" /\ op'[c].kind = o.kind /\ op'[c].owed = o.owed /\ op'[c].todo = o.todo \ {p}
    BY <1>8, <2>1, DropboxDeleteFields DEF Sweeping
  <2>4. op'[c].snap = [o.snap EXCEPT ![p] = IF Has(p) THEN "none" ELSE o.snap[p]]
    BY <1>8, DropboxDeleteFields
  <2>5. o.snap \in [Paths -> Expiries]
    BY DEF OpRecord
  <2>6. \A x \in Paths : x # p => op'[c].snap[x] = o.snap[x]
    BY <2>4, <2>5
  <2>7. op'[c].snap[p] = "none" \/ op'[c].snap[p] = o.snap[p]
    BY <2>4, <2>5
  <2>8. QED
    BY <1>1, <2>1, <2>2, <2>3, <2>6, <2>7, IndexDropped
<1>9. ASSUME DropboxSweepEnd(c) PROVE Informed(c)'
  BY <1>1, <1>9, IndexEnd DEF DropboxSweepEnd, Dropbox, At, Sweeping
<1>10. ASSUME DropboxTorn(c) \/ \E p \in Paths : DropboxDeleteFails(c, p) PROVE FALSE
  BY <1>10, UnsureIsUnsure DEF DropboxTorn, DropboxDeleteFails, Torn
<1>11. QED
  BY <1>2, <1>3, <1>4, <1>5, <1>6, <1>7, <1>8, <1>9, <1>10 DEF DropboxStep, DropboxPut

LEMMA DriveInformed ==
    ASSUME Typed, Typed', ghost'.serial, NEW c \in Clients, op[c] \in OpRecord, Sound(c), Informed(c), DriveStep(c)
    PROVE  Informed(c)'
<1> DEFINE o == op[c]
<1>1. Noted(o) /\ Timed(o) /\ \A x \in Paths : Told(o, x)
  BY IdleIsNoRecord DEF Sound, Informed
<1>2. driver = "gdrive" /\ driver' = "gdrive"
  BY DriverOfStep, DriveFollows DEF Follows
<1>3. ASSUME NEW id \in 0 .. MaxOps, DriveFind(c, id) PROVE Informed(c)'
  <2>1. UNCHANGED <<exp, ghost, driver>> /\ o.pc \in {"start", "find"} /\ o.kind # "deleteExpired"
    BY <1>1, <1>2, <1>3 DEF DriveFind, Keep, Noted
  <2>2. op'[c] # Idle /\ op'[c].pc = "found" /\ op'[c].kind = o.kind /\ op'[c].owed = o.owed
    BY <1>3 DEF DriveFind, Keep, Typed, OpRecord, Idle
  <2>3. \A x \in Paths : ~Between(o, x)
    BY <2>1 DEF Between
  <2>4. QED
    BY <2>1, <2>2, <2>3, GoesOnInformed
<1>4. ASSUME DrivePut(c) \/ DrivePutStream(c) \/ DriveDelete(c) \/ DriveCopy(c) \/ DriveMove(c)
             \/ DriveMakeDirectory(c) \/ DriveDeleteDirectory(c) \/ DriveNoVisibility(c)
      PROVE  Informed(c)'
  <2>1. /\ o.pc \in {"start", "found"} /\ o.kind # "deleteExpired"
        /\ UNCHANGED exp
        /\ (Done(c) /\ o.kind # "putTimed") \/ Fail(c) \/ (Goto(c, "index") /\ o.kind = "putTimed")
    BY <1>4 DEF DrivePut, DrivePutStream, DriveDelete, DriveCopy, DriveMove, DriveMakeDirectory,
       DriveDeleteDirectory, DriveNoVisibility, Drive, At
  <2>2. \A x \in Paths : ~Between(o, x)
    BY <2>1 DEF Between
  <2>3. ASSUME Goto(c, "index") PROVE Informed(c)'
    <3>1. op'[c] # Idle /\ op'[c].pc = "index" /\ op'[c].kind = o.kind /\ op'[c].owed = o.owed
      BY <2>3, GotoFields
    <3>2. QED
      BY <2>1, <2>2, <2>3, <3>1, GoesOnInformed DEF Goto
  <2>4. QED
    BY <1>2, <2>1, <2>2, <2>3, EndInformed, FailInformed
<1>5. ASSUME NEW fails \in BOOLEAN, DriveGet(c, fails) PROVE Informed(c)'
  <2>1. o.kind \in {"prepend", "append"} /\ UNCHANGED <<exp, ghost, driver>>
    BY <1>5 DEF DriveGet, Drive, At, Unsure, Typed
  <2>2. PICK b : op' = [op EXCEPT ![c] = [op[c] EXCEPT !.pc = "find", !.read = b]]
    BY <1>5 DEF DriveGet
  <2>3. op'[c] = [o EXCEPT !.pc = "find", !.read = b]
    BY <2>2 DEF Typed
  <2>4. op'[c] # Idle /\ op'[c].kind = o.kind /\ op'[c].owed = o.owed
    BY <2>3 DEF OpRecord, Idle
  <2>5. \A x \in Paths : ~Between(o, x)
    BY <2>1 DEF Between
  <2>6. QED
    BY <2>1, <2>4, <2>5, GoesOnInformed
<1>6. ASSUME DriveGetNothing(c) PROVE Informed(c)'
  <2>1. o.kind \in {"prepend", "append"} /\ Goto(c, "find") /\ UNCHANGED <<exp, ghost, driver>>
    BY <1>6 DEF DriveGetNothing, Drive, At, Goto
  <2>2. op'[c] # Idle /\ op'[c].kind = o.kind /\ op'[c].owed = o.owed
    BY <2>1, GotoFields
  <2>3. \A x \in Paths : ~Between(o, x)
    BY <2>1 DEF Between
  <2>4. QED
    BY <2>1, <2>2, <2>3, GoesOnInformed
<1>7. ASSUME NEW fails \in BOOLEAN, DriveReadIndex(c, fails) PROVE Informed(c)'
  <2>1. o.kind = "putTimed" /\ UNCHANGED <<store, exp, ghost, driver>> /\ ~fails
    BY <1>7, UnsureIsUnsure DEF DriveReadIndex, Drive, At
  <2>2. op'[c] = [o EXCEPT !.pc = "write", !.snap = exp]
    <3>1. op' = [op EXCEPT ![c] = [op[c] EXCEPT !.pc = "write", !.snap = exp]]
      BY <1>7, <2>1 DEF DriveReadIndex
    <3>2. QED
      BY <3>1 DEF Typed
  <2>3. op'[c] # Idle /\ op'[c].pc = "write" /\ op'[c].kind = o.kind /\ op'[c].owed = o.owed /\ op'[c].p = o.p
        /\ op'[c].snap = exp
    BY <2>2 DEF OpRecord, Idle
  <2>4. QED
    BY <2>1, <2>3, IndexRead
<1>8. ASSUME DrivePutTimed(c) PROVE Informed(c)'
  BY <1>2, <1>8, IndexWritten DEF DrivePutTimed, Drive, At
<1>9. ASSUME NEW fails \in BOOLEAN, DriveSweep(c, fails) PROVE Informed(c)'
  <2>1. o.kind = "deleteExpired" /\ o.pc = "start" /\ UNCHANGED <<store, exp, ghost, driver>> /\ ~fails
    BY <1>9, UnsureIsUnsure DEF DriveSweep, Drive, At
  <2>2. PICK todo : todo = {p \in Paths : exp[p] = "expired"}
    OBVIOUS
  <2>3. op'[c] = [o EXCEPT !.pc = "look", !.snap = exp, !.todo = todo]
    <3>1. op' = [op EXCEPT ![c] = [op[c] EXCEPT !.pc = "look", !.snap = exp, !.todo = todo]]
      BY <1>9, <2>1, <2>2 DEF DriveSweep
    <3>2. QED
      BY <3>1 DEF Typed
  <2>4. op'[c] # Idle /\ op'[c].pc = "look" /\ op'[c].kind = o.kind /\ op'[c].owed = o.owed /\ op'[c].snap = exp
        /\ op'[c].todo = todo
    BY <2>3 DEF OpRecord, Idle
  <2>5. QED
    BY <1>2, <2>1, <2>2, <2>4, IndexSwept
<1>10. ASSUME NEW p \in Paths, NEW id \in 0 .. MaxOps, DriveSweepFind(c, p, id) PROVE Informed(c)'
  <2>1. o.kind = "deleteExpired" /\ o.pc = "look" /\ p \in o.todo /\ UNCHANGED <<store, exp, ghost, driver>>
    BY <1>10 DEF DriveSweepFind, Drive, At, Keep
  <2>2. PICK todo : todo = o.todo \ {p}
    OBVIOUS
  <2>3. op'[c] = [o EXCEPT !.pc = "delete", !.p = p, !.id = id, !.todo = todo]
    BY <1>10, <2>2 DEF DriveSweepFind, Keep, Typed, OpRecord
  <2>4. op'[c] # Idle /\ op'[c].pc = "delete" /\ op'[c].p = p /\ op'[c].kind = o.kind /\ op'[c].owed = o.owed
        /\ op'[c].todo = todo /\ op'[c].snap = o.snap
    BY <2>3 DEF OpRecord, Idle
  <2>5. Coming(o) = o.todo
    BY <2>1 DEF Coming, Judged
  <2>6. Coming(op[c])' = o.todo /\ Judged(op[c])' = {p}
    BY <1>2, <2>1, <2>2, <2>4 DEF Coming, Judged
  <2>7. \A x \in Paths : Told(op[c], x)'
    BY <1>1, <2>1, <2>4, SameContents DEF Told, Unfinished, Between
  <2>8. Current(op[c])'
    <3>1. Current(o)
      BY <1>1, <1>2, <2>1 DEF Timed, Sweeping
    <3>2. QED
      BY <2>1, <2>4, <3>1, SameContents DEF Current, Aged
  <2>9. Timed(op[c])'
    BY <1>1, <1>2, <2>1, <2>4, <2>5, <2>6, <2>8, SameContents DEF Timed, Sweeping, OpRecord
  <2>10. QED
    BY <2>7, <2>9 DEF Informed
<1>11. ASSUME DriveDeleteExpired(c) PROVE Informed(c)'
  <2>1. /\ Sweeping(o) /\ o.pc = "delete" /\ o.p \in Paths
        /\ store' = [store EXCEPT ![Base[o.p]] = @ \ FilesOf(Base[o.p], o.id)]
        /\ UNCHANGED <<exp, driver>> /\ ghost'.due = ghost.due
    BY <1>11 DEF DriveDeleteExpired, Drive, At, Sweeping, Judge, Typed, OpRecord
  <2>2. Judged(o) = {o.p} /\ Coming(o) = o.todo \cup {o.p}
    BY <1>2, <2>1 DEF Coming, Judged
  <2>3. Base[o.p] = o.p
    <3>1. exp[o.p] = "expired"
      BY <1>1, <1>2, <2>1, <2>2 DEF Timed
    <3>2. QED
      BY <1>1, <1>2, <2>1, <3>1 DEF Told
  <2>4. Remove({o.p})
    <3>1. FilesOf(o.p, o.id) = store[o.p]
      BY <1>1, <1>2, <2>1, <2>3 DEF Noted
    <3>2. store' = [store EXCEPT ![o.p] = {}]
      BY <2>1, <2>3, <3>1
    <3>3. QED
      BY <3>2 DEF Remove, Typed
  <2>5. PICK snap : snap = [o.snap EXCEPT ![o.p] = "none"]
    OBVIOUS
  <2>6. op' = [op EXCEPT ![c] = [op[c] EXCEPT !.pc = "look", !.snap = snap]]
    BY <1>11, <2>5 DEF DriveDeleteExpired, OpRecord
  <2>7. op'[c] = [o EXCEPT !.pc = "look", !.snap = snap]
    BY <2>6 DEF Typed
  <2>8. op'[c] # Idle /\ op'[c].pc = "look" /\ op'[c].kind = o.kind /\ op'[c].owed = o.owed
        /\ op'[c].todo = o.todo /\ op'[c].snap = snap
    BY <2>7 DEF OpRecord, Idle
  <2>9. o.snap \in [Paths -> Expiries]
    BY DEF OpRecord
  <2>10. QED
    BY <1>2, <2>1, <2>2, <2>4, <2>5, <2>8, <2>9, IndexDropped
<1>12. ASSUME DriveSweepEnd(c) PROVE Informed(c)'
  BY <1>2, <1>12, IndexEnd DEF DriveSweepEnd, Drive, At, Sweeping
<1>13. ASSUME DriveTorn(c) \/ \E p \in Paths : DriveSweepFails(c, p) PROVE FALSE
  BY <1>13, UnsureIsUnsure DEF DriveTorn, DriveSweepFails, Torn
<1>14. QED
  BY <1>3, <1>4, <1>5, <1>6, <1>7, <1>8, <1>9, <1>10, <1>11, <1>12, <1>13 DEF DriveStep

LEMMA S3Informed ==
    ASSUME Typed, Typed', ListedIsPrefixed, Recorded, ghost'.serial, NEW c \in Clients, op[c] \in OpRecord, Sound(c),
           Informed(c), S3Step(c)
    PROVE  Informed(c)'
<1> DEFINE o == op[c]
<1>1. o # Idle /\ Noted(o) /\ Timed(o) /\ \A x \in Paths : Told(o, x)
  BY IdleIsNoRecord DEF Sound, Informed
<1>2. driver = "s3" /\ driver' = "s3"
  BY DriverOfStep, S3Follows DEF Follows
<1>3. ASSUME NEW p \in Paths, exp' = [exp EXCEPT ![p] = "none"]
      PROVE  \A x \in Paths : exp'[x] = IF x = p THEN "none" ELSE exp[x]
  BY <1>3 DEF Typed
<1>4. o.p \in Paths /\ o.q \in Paths
  BY DEF OpRecord
<1>5. ASSUME (S3Put(c) /\ o.kind = "put") \/ S3PutStream(c) \/ S3Delete(c) \/ S3Prepend(c) \/ S3Append(c)
      PROVE  Informed(c)'
  <2>1. /\ o.kind \in {"put", "putStream", "delete", "prepend", "append"}
        /\ Done(c) /\ exp' = [exp EXCEPT ![o.p] = "none"]
    BY <1>5 DEF S3Put, S3PutStream, S3Delete, S3Prepend, S3Append, PutObject, DeleteObject, S3, At
  <2>2. op'[c] = Idle
    BY <2>1, DoneIs
  <2>3. ASSUME NEW x \in Paths PROVE Told(Idle, x)'
    <3>1. Told(o, x) /\ ~Between(o, x)
      BY <1>1, <2>1 DEF Between
    <3>2. exp'[x] = IF x = o.p THEN "none" ELSE exp[x]
      BY <1>3, <1>4, <2>1
    <3>3. IF x = o.p THEN ghost'.due[x] \in {"none", "unknown"} ELSE ghost'.due[x] = ghost.due[x]
      BY <2>1, DueAfter
    <3>4. QED
      BY <1>2, <3>1, <3>2, <3>3 DEF Told, Unfinished
  <2>4. QED
    BY <2>2, <2>3 DEF Informed
<1>6. ASSUME S3SetVisibility(c) PROVE Informed(c)'
  <2>1. o.kind = "setVisibility" /\ Done(c)
    BY <1>6 DEF S3SetVisibility, S3, At
  <2>2. QED
    BY <1>2, <2>1, DoneIs DEF Diverges
<1>7. ASSUME S3MakeDirectory(c) PROVE Informed(c)'
  <2>1. o.kind = "makeDirectory" /\ Done(c) /\ UNCHANGED exp
    BY <1>7 DEF S3MakeDirectory, S3, At
  <2>2. op'[c] = Idle
    BY <2>1, DoneIs
  <2>3. ASSUME NEW x \in Paths PROVE Told(Idle, x)'
    <3>1. Told(o, x) /\ ~Between(o, x)
      BY <1>1, <2>1 DEF Between
    <3>2. ghost'.due[x] = ghost.due[x]
      BY <2>1, DueAfter
    <3>3. QED
      BY <1>2, <2>1, <3>1, <3>2 DEF Told, Unfinished
  <2>4. QED
    BY <2>2, <2>3 DEF Informed
<1>8. ASSUME S3Put(c), o.kind # "put" PROVE Informed(c)'
  <2>1. o.kind = "putTimed" /\ o.pc = "start" /\ Goto(c, "tag") /\ UNCHANGED <<ghost, driver>>
        /\ exp' = [exp EXCEPT ![o.p] = "none"]
    BY <1>8 DEF S3Put, PutObject, S3, At, Goto
  <2>2. op'[c] # Idle /\ op'[c].pc = "tag" /\ op'[c].kind = o.kind /\ op'[c].owed = o.owed /\ op'[c].p = o.p
    BY <2>1, GotoFields
  <2>3. ASSUME NEW x \in Paths PROVE Told(op[c], x)'
    <3>1. Told(o, x) /\ ~Between(o, x)
      BY <1>1, <2>1 DEF Between
    <3>2. exp'[x] = IF x = o.p THEN "none" ELSE exp[x]
      BY <1>3, <1>4, <2>1
    <3>3. x = o.p => Between(op[c], x)'
      BY <2>1, <2>2 DEF Between
    <3>4. QED
      BY <1>2, <2>1, <2>2, <3>1, <3>2, <3>3 DEF Told, Unfinished
  <2>4. Timed(op[c])'
    BY <1>1, <1>2, <2>1, <2>2 DEF Timed, Sweeping
  <2>5. QED
    BY <2>3, <2>4 DEF Informed
<1>9. ASSUME S3PutTimed(c) PROVE Informed(c)'
  <2>1. o.kind = "putTimed" /\ o.pc = "tag"
    BY <1>9 DEF S3PutTimed, S3, At
  <2>2. Has(o.p)
    <3>1. Contents = [ghost.shadow EXCEPT ![o.p] = <<o.n>>]
      BY <1>1, <1>2, <2>1 DEF Sound, Shown, Misnamed
    <3>2. Contents[o.p] = <<o.n>> /\ <<o.n>> # Missing
      <4>1. o.n \in Chunk /\ <<>> \in Bodies
        BY DEF OpRecord, Bodies
      <4>2. <<o.n>> \in Bodies
        BY <4>1, WrittenIsBody
      <4>3. <<o.n>> # Missing
        BY <4>2, MissingIsNoBody
      <4>4. Contents[o.p] = <<o.n>>
        BY <1>4, <3>1 DEF Typed
      <4>5. QED
        BY <4>3, <4>4
    <3>3. QED
      BY <1>4, <3>2, ContentsFacts
  <2>3. exp' = [exp EXCEPT ![o.p] = "fresh"] /\ Done(c)
    BY <1>9, <2>2 DEF S3PutTimed
  <2>4. op'[c] = Idle
    BY <2>3, DoneIs
  <2>5. ASSUME NEW x \in Paths PROVE Told(Idle, x)'
    <3>1. Told(o, x) /\ (x # o.p => ~Between(o, x))
      BY <1>1, <2>1 DEF Between
    <3>2. exp'[x] = IF x = o.p THEN "fresh" ELSE exp[x]
      BY <2>3 DEF Typed
    <3>3. ghost'.due[x] = IF x = o.p THEN "fresh" ELSE ghost.due[x]
      BY <2>1, <2>3, DueAfter
    <3>4. QED
      BY <1>2, <3>1, <3>2, <3>3 DEF Told, Unfinished
  <2>6. QED
    BY <2>4, <2>5 DEF Informed
<1>10. ASSUME S3Copy(c) PROVE Informed(c)'
  <2>1. o.kind \in {"copy", "move"} /\ o.pc = "start"
    BY <1>10 DEF S3Copy, S3, At
  <2>2. \A x \in Paths : Told(o, x) /\ ~Between(o, x)
    BY <1>1, <2>1 DEF Between
  <2>3. CASE Fail(c) /\ UNCHANGED exp
    BY <2>2, <2>3, FailInformed
  <2>4. CASE ~(Fail(c) /\ UNCHANGED exp)
    <3>1. exp' = [exp EXCEPT ![o.q] = exp[o.p]] /\ IF o.kind = "copy" THEN Done(c) ELSE Goto(c, "copied")
      BY <1>10, <2>4 DEF S3Copy
    <3>2. \A x \in Paths : x # o.q => exp'[x] = exp[x]
      BY <3>1 DEF Typed
    <3>3. CASE o.kind = "copy"
      <4>1. op'[c] = Idle
        BY <3>1, <3>3, DoneIs
      <4>2. ASSUME NEW x \in Paths PROVE Told(Idle, x)'
        <5>1. ghost'.due[x] = IF x = o.q THEN "unknown" ELSE ghost.due[x]
          BY <3>1, <3>3, DueAfter
        <5>2. QED
          BY <1>2, <2>2, <3>2, <5>1 DEF Told, Unfinished
      <4>3. QED
        BY <4>1, <4>2 DEF Informed
    <3>4. CASE o.kind = "move"
      <4>1. Goto(c, "copied") /\ UNCHANGED <<ghost, driver>>
        BY <3>1, <3>4 DEF Goto
      <4>2. op'[c] # Idle /\ op'[c].pc = "copied" /\ op'[c].kind = "move" /\ op'[c].owed = o.owed /\ op'[c].q = o.q
        BY <3>4, <4>1, GotoFields
      <4>3. \A x \in Paths : Told(op[c], x)'
        BY <1>2, <2>2, <3>2, <4>1, <4>2 DEF Told, Unfinished, Between
      <4>4. Timed(op[c])'
        BY <1>1, <3>4, <4>1, <4>2 DEF Timed, Sweeping
      <4>5. QED
        BY <4>3, <4>4 DEF Informed
    <3>5. QED
      BY <2>1, <3>3, <3>4
  <2>5. QED
    BY <2>3, <2>4
<1>11. ASSUME S3Move(c) PROVE Informed(c)'
  <2>1. o.kind = "move" /\ o.pc = "copied" /\ Done(c) /\ exp' = [exp EXCEPT ![o.p] = "none"]
    BY <1>11 DEF S3Move, DeleteObject, S3, At
  <2>2. op'[c] = Idle /\ o.p # o.q
    BY <1>1, <1>2, <2>1, DoneIs DEF Noted
  <2>3. ASSUME NEW x \in Paths PROVE Told(Idle, x)'
    <3>1. Told(o, x) /\ (x # o.q => ~Between(o, x))
      BY <1>1, <2>1 DEF Between
    <3>2. exp'[x] = IF x = o.p THEN "none" ELSE exp[x]
      BY <1>3, <1>4, <2>1
    <3>3. ghost'.due[x] = IF x = o.q THEN "unknown" ELSE IF x = o.p THEN "none" ELSE ghost.due[x]
      BY <2>1, DueAfter
    <3>4. QED
      BY <1>2, <3>1, <3>2, <3>3 DEF Told, Unfinished
  <2>4. QED
    BY <2>2, <2>3 DEF Informed
<1>12. ASSUME NEW fails \in BOOLEAN, S3Get(c, fails) PROVE Informed(c)'
  <2>1. o.kind \in {"prepend", "append"} /\ UNCHANGED <<exp, ghost, driver>>
    BY <1>12 DEF S3Get, S3, At, Unsure, Typed
  <2>2. PICK b : op' = [op EXCEPT ![c] = [op[c] EXCEPT !.pc = "put", !.read = b]]
    BY <1>12 DEF S3Get
  <2>3. op'[c] = [o EXCEPT !.pc = "put", !.read = b]
    BY <2>2 DEF Typed
  <2>4. op'[c] # Idle /\ op'[c].kind = o.kind /\ op'[c].owed = o.owed
    BY <2>3 DEF OpRecord, Idle
  <2>5. \A x \in Paths : ~Between(o, x)
    BY <2>1 DEF Between
  <2>6. QED
    BY <2>1, <2>4, <2>5, GoesOnInformed
<1>13. ASSUME NEW page \in SUBSET Prefixed, S3ListDirectory(c, page) PROVE Informed(c)'
  <2>1. o.kind = "deleteDirectory" /\ o.pc = "start" /\ UNCHANGED <<exp, ghost, driver>>
    BY <1>13, UnsureIsUnsure DEF S3ListDirectory, S3, At
  <2>2. op' = [op EXCEPT ![c] = [op[c] EXCEPT !.pc = "delete", !.todo = page]]
    BY <1>13 DEF S3ListDirectory
  <2>3. op'[c] # Idle /\ op'[c].kind = o.kind /\ op'[c].owed = o.owed
    BY <2>2 DEF Typed, OpRecord, Idle
  <2>4. \A x \in Paths : ~Between(o, x)
    BY <2>1 DEF Between
  <2>5. QED
    BY <2>1, <2>3, <2>4, GoesOnInformed
<1>14. ASSUME NEW p \in Paths, S3DeleteDirectory(c, p) PROVE Informed(c)'
  <2>1. o.kind = "deleteDirectory" /\ o.pc = "delete" /\ UNCHANGED <<ghost, driver>> /\ p \in o.todo
        /\ exp' = [exp EXCEPT ![p] = "none"]
    BY <1>14 DEF S3DeleteDirectory, DeleteObject, S3, At, Keep
  <2>2. op'[c] = [o EXCEPT !.todo = o.todo \ {p}]
    BY <1>14 DEF S3DeleteDirectory, Keep, Typed, OpRecord
  <2>3. op'[c] # Idle /\ op'[c].kind = o.kind /\ op'[c].pc = o.pc /\ op'[c].owed = o.owed
    BY <2>1, <2>2 DEF OpRecord, Idle
  <2>4. p \in Prefixed
    BY <1>1, <2>1 DEF ListedIsPrefixed
  <2>5. \A x \in Paths : exp'[x] = IF x = p THEN "none" ELSE exp[x]
    BY <1>3, <2>1
  <2>6. \A x \in Paths : Told(op[c], x)'
    BY <1>1, <1>2, <2>1, <2>3, <2>4, <2>5 DEF Told, Unfinished, Between, Listing
  <2>7. Timed(op[c])'
    BY <1>1, <2>1, <2>3 DEF Timed, Sweeping
  <2>8. QED
    BY <2>6, <2>7 DEF Informed
<1>15. ASSUME S3Sweep(c) PROVE Informed(c)'
  <2>1. o.kind = "deleteExpired" /\ o.pc = "start" /\ UNCHANGED <<store, exp, ghost, driver>>
    BY <1>15 DEF S3Sweep, S3, At, Keep
  <2>2. op'[c] = [o EXCEPT !.pc = "tags", !.todo = S3Listed(Paths)]
    BY <1>15 DEF S3Sweep, Keep, Typed
  <2>3. op'[c] # Idle /\ op'[c].pc = "tags" /\ op'[c].kind = o.kind /\ op'[c].owed = o.owed /\ op'[c].todo = S3Listed(Paths)
    BY <2>2 DEF OpRecord, Idle
  <2>4. \A x \in Paths : Told(op[c], x)'
    BY <1>1, <1>2, <2>1, <2>3 DEF Told, Unfinished, Between
  <2>5. \A x \in o.owed : Has(x)' => x \in S3Listed(Paths)
    BY <2>1, SameContents DEF S3Listed, OpRecord
  <2>6. Timed(op[c])'
    BY <1>1, <1>2, <2>1, <2>3, <2>5 DEF Timed, Sweeping, Judged, Coming
  <2>7. QED
    BY <2>4, <2>6 DEF Informed
<1>16. ASSUME NEW p \in Paths, S3Tags(c, p) PROVE Informed(c)'
  <2>1. o.kind = "deleteExpired" /\ o.pc = "tags" /\ UNCHANGED <<store, exp, ghost, driver>> /\ p \in o.todo
    BY <1>16 DEF S3Tags, S3, At, Keep
  <2>2. PICK pc, todo : pc = (IF exp[p] = "expired" THEN "expired" ELSE "tags") /\ todo = o.todo \ {p}
    OBVIOUS
  <2>3. op'[c] = [o EXCEPT !.pc = pc, !.p = p, !.todo = todo]
    BY <1>16, <2>2 DEF S3Tags, Keep, Typed, OpRecord
  <2>4. op'[c] # Idle /\ op'[c].pc = pc /\ op'[c].p = p /\ op'[c].kind = o.kind /\ op'[c].owed = o.owed
        /\ op'[c].todo = o.todo \ {p}
    <3>1. op'[c].pc = pc /\ op'[c].p = p /\ op'[c].todo = todo
      BY <2>3 DEF OpRecord
    <3>2. op'[c].kind = o.kind /\ op'[c].owed = o.owed
      BY <2>3 DEF OpRecord
    <3>3. op'[c] # Idle
      BY <2>2, <3>1 DEF Idle
    <3>4. QED
      BY <2>2, <3>1, <3>2, <3>3
  <2>5. \A x \in Paths : (Has(x)' <=> Has(x))
    BY <2>1, SameContents
  <2>6. \A x \in Paths : Told(op[c], x)'
    BY <1>1, <1>2, <2>1, <2>2, <2>4, <2>5 DEF Told, Unfinished, Between
  <2>7. exp[p] = "expired" => ghost.due[p] # "fresh" /\ ghost.due[p] # "none"
    BY <1>1, <1>2, <2>1 DEF Told, Unfinished, Between, Recorded
  <2>8. \A x \in o.owed : x \in Paths /\ ghost.due[x] = "expired" /\ (Has(x) => x \in o.todo)
    BY <1>1, <1>2, <2>1 DEF Timed, Sweeping, Coming, Judged, OpRecord
  <2>9. p \in o.owed /\ Has(p) => exp[p] = "expired"
    BY <1>1, <1>2, <2>1, <2>8 DEF Told, Unfinished, Between
  <2>10. Timed(op[c])'
    BY <1>1, <1>2, <2>1, <2>2, <2>4, <2>5, <2>7, <2>8, <2>9 DEF Timed, Sweeping, Judged, Coming
  <2>11. QED
    BY <2>6, <2>10 DEF Informed
<1>17. ASSUME S3DeleteExpired(c) PROVE Informed(c)'
  <2>1. o.kind = "deleteExpired" /\ o.pc = "expired" /\ UNCHANGED driver /\ Remove({o.p})
        /\ exp' = [exp EXCEPT ![o.p] = "none"] /\ ghost'.due = ghost.due
    BY <1>17 DEF S3DeleteExpired, DeleteObject, S3, At, Judge, Typed
  <2>2. op'[c] = [o EXCEPT !.pc = "tags"]
    BY <1>17 DEF S3DeleteExpired, Typed
  <2>3. op'[c] # Idle /\ op'[c].pc = "tags" /\ op'[c].p = o.p /\ op'[c].kind = o.kind /\ op'[c].owed = o.owed
        /\ op'[c].todo = o.todo
    BY <2>2 DEF OpRecord, Idle
  <2>4. \A x \in Paths : (Has(x)' <=> x # o.p /\ Has(x))
    BY <2>1, RemoveHas
  <2>5. ghost.due[o.p] # "fresh"
    BY <1>1, <1>2, <2>1 DEF Timed, Sweeping, Judged
  <2>6. \A x \in Paths : exp'[x] = IF x = o.p THEN "none" ELSE exp[x]
    BY <1>3, <1>4, <2>1
  <2>7. \A x \in Paths : Told(op[c], x)'
    BY <1>1, <1>2, <2>1, <2>3, <2>4, <2>5, <2>6 DEF Told, Unfinished, Between
  <2>8. \A x \in o.owed : x \in Paths /\ ghost.due[x] = "expired" /\ (Has(x) => x \in o.todo \/ x = o.p)
    BY <1>1, <1>2, <2>1 DEF Timed, Sweeping, Coming, Judged, OpRecord
  <2>9. Timed(op[c])'
    BY <1>1, <1>2, <2>1, <2>3, <2>4, <2>8 DEF Timed, Sweeping, Judged, Coming
  <2>10. QED
    BY <2>7, <2>9 DEF Informed
<1>18. ASSUME S3End(c) PROVE Informed(c)'
  <2>1. o.pc \in {"delete", "tags"} /\ o.todo = {} /\ Swept(c) /\ UNCHANGED <<store, exp>>
    BY <1>18 DEF S3End
  <2>2. op'[c] = Idle /\ ~Diverges(o)
    BY <2>1, DoneIs
  <2>3. \A x \in Paths : exp[x] # "none" => Has(x)
    BY <1>2 DEF Recorded
  <2>4. CASE o.pc = "tags"
    <3>1. o.kind = "deleteExpired"
      BY <1>1, <1>2, <2>4 DEF Noted
    <3>2. ASSUME NEW x \in Paths PROVE Told(Idle, x)'
      <4>1. ghost'.due[x] = IF Has(x) THEN ghost.due[x] ELSE "none"
        BY <2>1, <3>1, DueAfter
      <4>2. QED
        BY <1>1, <1>2, <2>1, <2>3, <3>1, <4>1 DEF Told, Unfinished, Between
    <3>3. QED
      BY <2>2, <3>2 DEF Informed
  <2>5. CASE o.pc = "delete"
    <3>1. o.kind = "deleteDirectory"
      BY <1>1, <1>2, <2>5 DEF Noted
    <3>2. Nested = Prefixed
      BY <1>2, <2>2, <3>1 DEF Diverges
    <3>3. \A x \in Prefixed : ~Has(x)
      BY <1>1, <1>2, <2>1, <2>5, <3>1, DiskAssumption DEF Sound, Shown, Listing
    <3>4. ASSUME NEW x \in Paths PROVE Told(Idle, x)'
      <4>1. ghost'.due[x] = IF x \in Prefixed THEN "none" ELSE ghost.due[x]
        BY <2>1, <3>1, <3>2, DueAfter
      <4>2. QED
        BY <1>1, <1>2, <2>1, <2>3, <3>1, <3>3, <4>1 DEF Told, Unfinished, Between, Listing
    <3>5. QED
      BY <2>2, <3>4 DEF Informed
  <2>6. QED
    BY <2>1, <2>4, <2>5
<1>19. QED
  BY <1>5, <1>6, <1>7, <1>8, <1>9, <1>10, <1>11, <1>12, <1>13, <1>14, <1>15, <1>16, <1>17, <1>18 DEF S3Step, S3Put

LEMMA ReadOnlyInformed ==
    ASSUME Typed, NEW c \in Clients, op[c] \in OpRecord, Informed(c), ReadOnlyRefuses(c)
    PROVE  Informed(c)'
<1>1. \A x \in Paths : ~Between(op[c], x)
  BY DEF ReadOnlyRefuses, At, Between
<1>2. QED
  BY <1>1, FailInformed DEF ReadOnlyRefuses

\* Time passes.
LEMMA ExpireInformed ==
    ASSUME Typed, Typed', NEW p \in Paths, Expire(p), driver # "buffer", NEW c \in Clients, Informed(c)
    PROVE  Informed(c)'
<1>1. /\ exp[p] = "fresh" /\ UNCHANGED <<driver, store, op>>
      /\ \A x \in Paths : exp'[x] = IF x = p THEN "expired" ELSE exp[x]
      /\ \A x \in Paths : ghost'.due[x] = IF x = p /\ ghost.due[p] = "fresh" THEN "expired" ELSE ghost.due[x]
  BY DEF Expire, Typed
<1>2. \A x \in Paths : Has(x)' <=> Has(x)
  BY <1>1, SameContents
<1>3. \A x \in Paths : Told(op[c], x)'
  BY <1>1, <1>2 DEF Informed, Told, Unfinished, Between, Listing
<1>4. ASSUME op[c] # Idle PROVE Timed(op[c])'
  <2>1. Timed(op[c]) /\ op[c] \in OpRecord
    BY <1>4 DEF Informed, Typed
  <2>2. ASSUME NEW x \in Paths, Aged(op[c].snap)[x] = exp[x] PROVE Aged(op[c].snap)'[x] = exp'[x]
    <3>1. op'[c].snap[x] = op[c].snap[x]
      BY <1>1
    <3>2. QED
      BY <1>1, <2>2, <3>1 DEF Aged
  <2>3. Aged(op[c].snap) = exp => Aged(op[c].snap)' = exp'
    <3>1. Aged(op[c].snap)' = [x \in Paths |-> Aged(op[c].snap)'[x]] /\ exp' = [x \in Paths |-> exp'[x]]
      BY DEF Aged, Typed
    <3>2. QED
      BY <2>2, <3>1
  <2>4. Current(op[c]) => Current(op[c])'
    BY <1>1, <1>2, <2>2 DEF Current
  <2>5. Judged(op[c])' = Judged(op[c]) /\ Coming(op[c])' = Coming(op[c])
    BY <1>1 DEF Judged, Coming
  <2>6. Judged(op[c]) \subseteq Paths /\ Coming(op[c]) \subseteq Paths /\ op[c].owed \subseteq Paths /\ op[c].p \in Paths
    BY <2>1 DEF Judged, Coming, OpRecord
  <2>7. QED
    BY <1>1, <1>2, <2>1, <2>3, <2>4, <2>5, <2>6 DEF Timed, Sweeping
<1>5. QED
  BY <1>1, <1>3, <1>4 DEF Informed

LEMMA RecordedStays ==
    ASSUME Typed, Typed', Recorded, [Next]_diskVars
    PROVE  Recorded'
<1>1. ASSUME NEW c \in Clients, S3Step(c) PROVE Recorded'
  <2>1. driver = "s3" /\ driver' = "s3" /\ op[c].p \in Paths /\ op[c].q \in Paths
    BY <1>1, DriverOfStep, S3Follows DEF Follows, OpRecord
  <2>2. CASE UNCHANGED <<store, exp>>
    BY <2>1, <2>2, SameContents DEF Recorded
  <2>3. ASSUME NEW p \in Paths, NEW b, PutObject(p, b) PROVE Recorded'
    BY <2>1, <2>3, StoreHas DEF PutObject, Recorded, Typed
  <2>4. ASSUME NEW p \in Paths, DeleteObject(p) PROVE Recorded'
    <3>1. \A x \in Paths : Has(x)' <=> x # p /\ Has(x)
      BY <2>4, RemoveHas DEF DeleteObject
    <3>2. QED
      BY <2>1, <2>4, <3>1 DEF DeleteObject, Recorded, Typed
  <2>5. CASE S3Copy(c)
    <3>1. CASE UNCHANGED <<store, exp>>
      BY <2>2, <3>1
    <3>2. CASE ~(UNCHANGED <<store, exp>>)
      <4>1. Store(op[c].q, Body(op[c].p)) /\ exp' = [exp EXCEPT ![op[c].q] = exp[op[c].p]] /\ Has(op[c].p)
        BY <2>5, <3>2 DEF S3Copy
      <4>2. \A x \in Paths : Has(x)' <=> x = op[c].q \/ Has(x)
        BY <2>1, <4>1, StoreHas
      <4>3. QED
        BY <2>1, <4>1, <4>2 DEF Recorded, Typed
    <3>3. QED
      BY <3>1, <3>2
  <2>6. CASE S3PutTimed(c)
    <3>1. \A x \in Paths : Has(x)' <=> Has(x)
      BY <2>6, SameContents DEF S3PutTimed
    <3>2. QED
      BY <2>1, <2>6, <3>1 DEF S3PutTimed, Recorded, Typed
  <2>7. QED
    BY <1>1, <2>1, <2>2, <2>3, <2>4, <2>5, <2>6 DEF S3Step, S3Put, S3PutStream, S3SetVisibility, S3Delete, S3Move,
       S3MakeDirectory, S3Prepend, S3Append, S3ListDirectory, S3Sweep, S3DeleteExpired, S3End, S3Get,
       S3DeleteDirectory, S3Tags
<1>2. ASSUME NEW c \in Clients, BufferStep(c) PROVE Recorded'
  <2>1. driver = "buffer" /\ driver' = "buffer"
    BY <1>2, DriverOfStep, BufferFollows DEF Follows
  <2>2. UNCHANGED exp
    BY <1>2 DEF BufferStep, BufferPut, ServicePutTimed, ServicePutStream, ServiceDeleteExpired,
       BufferDelete, BufferCopy, BufferMove, BufferPrepend, BufferAppend, BufferSetVisibility,
       BufferMakeDirectory, BufferDeleteDirectory
  <2>3. QED
    BY <2>1, <2>2 DEF Recorded, NoExpiry
<1>3. ASSUME NEW c \in Clients, LocalStep(c) \/ DropboxStep(c) \/ DriveStep(c) \/ ReadOnlyRefuses(c) PROVE Recorded'
  <2>1. driver \notin {"s3", "buffer"}
    BY <1>3, DriverOfStep
  <2>2. driver' = driver
    BY <1>3, StepFollows DEF Follows
  <2>3. QED
    BY <2>1, <2>2 DEF Recorded
<1>4. ASSUME NEW p \in Paths, Expire(p) PROVE Recorded'
  <2>1. driver # "buffer"
    BY <1>4 DEF Expire, Recorded, NoExpiry
  <2>2. \A x \in Paths : Has(x)' <=> Has(x)
    BY <1>4, SameContents DEF Expire
  <2>3. QED
    BY <1>4, <2>1, <2>2 DEF Expire, Recorded, Typed
<1>5. CASE UNCHANGED <<driver, store, exp>>
  BY <1>5, SameContents DEF Recorded, NoExpiry
<1>6. QED
  BY <1>1, <1>2, <1>3, <1>4, <1>5 DEF Next, Call, Fault, diskVars

\* Calls that were alone leave the expiries on record that are due.
LEMMA ExpiriesStay ==
    ASSUME Typed, Typed', ListedIsPrefixed, Alone, ContentsSound, Recorded, ExpiriesSound, [Next]_diskVars
    PROVE  ExpiriesSound'
<1> SUFFICES ASSUME ghost'.serial PROVE ExpiriesSound'
  BY DEF ExpiriesSound
<1>1. ASSUME NEW c \in Clients,
             LocalStep(c) \/ BufferStep(c) \/ S3Step(c) \/ DropboxStep(c) \/ DriveStep(c) \/ ReadOnlyRefuses(c)
      PROVE  ExpiriesSound'
  <2>1. op[c] \in OpRecord /\ op[c] # Idle /\ Follows(c)
    BY <1>1, StepFollows
  <2>2. ghost.serial
    BY <1>1, SerialBefore, StepGhost
  <2>3. \A x \in Clients : x # c => op[x] = Idle /\ op'[x] = Idle
    BY <2>1, <2>2 DEF Alone, Follows
  <2>4. Sound(c) /\ Informed(c)
    BY <2>1, <2>2 DEF ContentsSound, ExpiriesSound, Sound
  <2>5. Informed(c)'
    BY <1>1, <2>1, <2>4, LocalInformed, BufferInformed, S3Informed, DropboxInformed, DriveInformed, ReadOnlyInformed
  <2>6. QED
    BY <2>3, <2>5 DEF ExpiriesSound, Informed
<1>2. ASSUME NEW c \in Clients, NEW k \in Kinds, NEW a \in Args(k), Call(c, k, a) PROVE ExpiriesSound'
  <2>1. /\ ghost' = ghost /\ UNCHANGED <<driver, store, exp>>
        /\ \A x \in Clients : x # c => op[x] = Idle /\ op'[x] = Idle
        /\ op[c] = Idle /\ op'[c].pc = "start" /\ op'[c].kind = k
        /\ op'[c].owed = IF k = "deleteExpired" THEN {p \in Paths : ghost.due[p] = "expired"} ELSE {}
    BY <1>2 DEF Call, Unsure, Typed
  <2>2. \A x \in Paths : Told(Idle, x)
    BY <2>1 DEF ExpiriesSound
  <2>3. Informed(c)'
    BY <2>1, <2>2 DEF Informed, Told, Unfinished, Timed, Sweeping
  <2>4. op'[c] # Idle
    BY <2>1 DEF Idle
  <2>5. QED
    BY <2>1, <2>3, <2>4 DEF ExpiriesSound
<1>3. ASSUME NEW c \in Clients, Fault(c) PROVE ExpiriesSound'
  BY <1>3 DEF Fault, Unsure, Typed
<1>4. ASSUME NEW p \in Paths, Expire(p) PROVE ExpiriesSound'
  <2>1. ghost.serial /\ UNCHANGED <<op, driver>> /\ driver # "buffer"
    BY <1>4 DEF Expire, Typed, Recorded, NoExpiry
  <2>2. ASSUME NEW c \in Clients, op'[c] # Idle PROVE Informed(c)'
    BY <1>4, <2>1, <2>2, ExpireInformed DEF ExpiriesSound
  <2>3. ASSUME \A c \in Clients : op'[c] = Idle, NEW x \in Paths PROVE Told(Idle, x)'
    <3>1. Told(Idle, x)
      BY <2>1, <2>3 DEF ExpiriesSound
    <3>2. QED
      BY <1>4, <2>1, <3>1 DEF Told, Unfinished, Expire, Typed
  <2>4. QED
    BY <2>2, <2>3 DEF ExpiriesSound
<1>5. CASE UNCHANGED diskVars
  <2>1. UNCHANGED <<driver, store, exp, op, ghost>>
    BY <1>5 DEF diskVars
  <2>2. \A c \in Clients : Informed(c)' <=> Informed(c)
    BY <2>1, SameContents DEF Informed, Told, Unfinished, Between, Timed, Sweeping, Judged, Coming, Current, Aged, Has,
       Listing
  <2>3. \A x \in Paths : Told(Idle, x)' <=> Told(Idle, x)
    BY <2>1 DEF Told, Unfinished
  <2>4. QED
    BY <2>1, <2>2, <2>3 DEF ExpiriesSound
<1>6. QED
  BY <1>1, <1>2, <1>3, <1>4, <1>5 DEF Next

LEMMA SettleKeeps ==
    ASSUME Typed, NEW o
    PROVE  Settle(o, ghost).missed = ghost.missed /\ Settle(o, ghost).wronged = ghost.wronged
<1>1. PICK s, d : s = Expected(o, ghost.shadow) /\ d = Due(o, ghost.due)
  OBVIOUS
<1>2. \/ Settle(o, ghost) = ghost
      \/ Settle(o, ghost) = Unsure(ghost)
      \/ Settle(o, ghost) = [ghost EXCEPT !.shadow = s, !.due = d]
  BY <1>1 DEF Settle
<1>3. QED
  BY <1>2 DEF Unsure, Typed

\* What the steps of sweeps add to what was missed and wronged.
LEMMA HistoryIs ==
    ASSUME Typed, NEW c \in Clients
    PROVE  /\ Done(c) \/ Fail(c) \/ UNCHANGED ghost \/ ghost' = Unsure(ghost)
                 => ghost'.missed = ghost.missed /\ ghost'.wronged = ghost.wronged
           /\ Swept(c) => /\ ghost'.missed = ghost.missed \cup {p \in op[c].owed : ghost.serial /\ Has(p)}
                          /\ ghost'.wronged = ghost.wronged
           /\ \A p : Judge(p) => /\ ghost'.missed = ghost.missed
                                 /\ \/ ghost'.wronged = ghost.wronged
                                    \/ /\ ghost.serial /\ ghost.due[p] \in {"none", "fresh"}
                                       /\ ghost'.wronged = ghost.wronged \cup {<<p, ghost.due[p]>>}
<1>1. Done(c) \/ Fail(c) \/ UNCHANGED ghost \/ ghost' = Unsure(ghost)
          => ghost'.missed = ghost.missed /\ ghost'.wronged = ghost.wronged
  BY SettleKeeps DEF Done, Fail, Unsure, Typed
<1>2. ASSUME Swept(c)
      PROVE  /\ ghost'.missed = ghost.missed \cup {p \in op[c].owed : ghost.serial /\ Has(p)}
             /\ ghost'.wronged = ghost.wronged
  <2>1. PICK g, left : g = Settle(op[c], ghost) /\ left = {p \in op[c].owed : ghost.serial /\ Has(p)}
    OBVIOUS
  <2>2. PICK s, d : s = Expected(op[c], ghost.shadow) /\ d = Due(op[c], ghost.due)
    OBVIOUS
  <2>3. g = ghost \/ g = Unsure(ghost) \/ g = [ghost EXCEPT !.shadow = s, !.due = d]
    BY <2>1, <2>2 DEF Settle
  <2>4. ghost' = [g EXCEPT !.missed = @ \cup left]
    BY <1>2, <2>1 DEF Swept
  <2>5. QED
    BY <2>1, <2>3, <2>4 DEF Unsure, Typed
<1>3. ASSUME NEW p, Judge(p)
      PROVE  /\ ghost'.missed = ghost.missed
             /\ \/ ghost'.wronged = ghost.wronged
                \/ /\ ghost.serial /\ ghost.due[p] \in {"none", "fresh"}
                   /\ ghost'.wronged = ghost.wronged \cup {<<p, ghost.due[p]>>}
  BY <1>3 DEF Judge, Typed
<1>4. QED
  BY <1>1, <1>2, <1>3

\* Sweeps spare what is not due, and miss nothing that is.
LEMMA SweepsStay ==
    ASSUME Typed, Typed', ContentsSound, ExpiriesSound, SweepSparesCurrent, SweepFindsAll, [Next]_diskVars
    PROVE  SweepSparesCurrent' /\ SweepFindsAll'
<1>1. ASSUME NEW c \in Clients,
             LocalStep(c) \/ BufferStep(c) \/ S3Step(c) \/ DropboxStep(c) \/ DriveStep(c) \/ ReadOnlyRefuses(c)
      PROVE  SweepSparesCurrent' /\ SweepFindsAll'
  <2> DEFINE o == op[c]
  <2>1. o \in OpRecord /\ o # Idle /\ driver' = driver
    BY <1>1, StepFollows DEF Follows
  <2>2. ghost.serial => Noted(o) /\ Timed(o) /\ \A x \in Paths : Told(o, x)
    BY <2>1 DEF ContentsSound, ExpiriesSound, Informed
  <2>3. CASE Done(c) \/ Fail(c) \/ UNCHANGED ghost \/ ghost' = Unsure(ghost)
    BY <2>1, <2>3, HistoryIs DEF SweepSparesCurrent, SweepFindsAll
  <2>4. ASSUME NEW p \in Paths, Judge(p),
               ghost.serial => ghost.due[p] # "fresh" /\ (driver = "s3" => ghost.due[p] # "none")
        PROVE  SweepSparesCurrent' /\ SweepFindsAll'
    BY <2>1, <2>4, HistoryIs DEF SweepSparesCurrent, SweepFindsAll
  <2>5. ASSUME Swept(c), ghost.serial => \A x \in o.owed : Has(x) => driver = "local" /\ x \in Nested
        PROVE  SweepSparesCurrent' /\ SweepFindsAll'
    BY <2>1, <2>5, HistoryIs DEF SweepSparesCurrent, SweepFindsAll
  <2>6. CASE LocalDeleteExpired(c) \/ S3DeleteExpired(c) \/ DriveDeleteExpired(c)
    <3>1. Sweeping(o) /\ Judge(o.p) /\ o.p \in Paths /\ Judged(o) = {o.p}
      BY <2>1, <2>6 DEF LocalDeleteExpired, S3DeleteExpired, DriveDeleteExpired, Local, S3, Drive, At, Sweeping, Judged,
         OpRecord
    <3>2. QED
      BY <2>2, <2>4, <3>1 DEF Timed
  <2>7. ASSUME NEW p \in Paths, DropboxDeleteExpired(c, p) PROVE SweepSparesCurrent' /\ SweepFindsAll'
    <3>1. Sweeping(o) /\ Judge(p) /\ p \in Coming(o) /\ driver = "dropbox"
      BY <2>7 DEF DropboxDeleteExpired, Dropbox, At, Sweeping, Coming
    <3>2. QED
      BY <2>2, <2>4, <3>1 DEF Timed
  <2>8. CASE LocalSweepEnd(c) \/ DropboxSweepEnd(c) \/ DriveSweepEnd(c)
    <3>1. Sweeping(o) /\ Swept(c) /\ Coming(o) = {}
      BY <2>8 DEF LocalSweepEnd, DropboxSweepEnd, DriveSweepEnd, Local, Dropbox, Drive, At, Sweeping, Coming, Judged
    <3>2. QED
      BY <2>2, <2>5, <3>1 DEF Timed
  <2>9. CASE ServiceDeleteExpired(c)
    <3>1. driver = "buffer" /\ Swept(c)
      BY <2>9 DEF ServiceDeleteExpired, Buffer, At
    <3>2. ghost.serial => o.owed = {}
      BY <2>1, <2>2, <3>1 DEF Timed, Told, OpRecord
    <3>3. QED
      BY <2>5, <3>1, <3>2
  <2>10. CASE S3End(c)
    <3>1. Swept(c) /\ driver = "s3" /\ o.pc \in {"delete", "tags"} /\ o.todo = {}
      BY <2>10 DEF S3End
    <3>2. ghost.serial => \A x \in o.owed : ~Has(x)
      BY <2>2, <3>1 DEF Timed, Noted, Sweeping, Coming, Judged
    <3>3. QED
      BY <2>5, <3>1, <3>2
  <2>11. QED
    BY <1>1, <2>3, <2>6, <2>7, <2>8, <2>9, <2>10, HistorySteps
<1>2. CASE UNCHANGED <<driver, ghost>>
  BY <1>2 DEF SweepSparesCurrent, SweepFindsAll
<1>3. ASSUME ghost' = Unsure(ghost) \/ (ghost'.missed = ghost.missed /\ ghost'.wronged = ghost.wronged), UNCHANGED driver
      PROVE  SweepSparesCurrent' /\ SweepFindsAll'
  BY <1>3 DEF SweepSparesCurrent, SweepFindsAll, Unsure, Typed
<1>4. ASSUME NEW p \in Paths, Expire(p) PROVE SweepSparesCurrent' /\ SweepFindsAll'
  <2>1. ghost'.missed = ghost.missed /\ ghost'.wronged = ghost.wronged /\ driver' = driver
    BY <1>4 DEF Expire, Typed
  <2>2. QED
    BY <1>3, <2>1
<1>5. QED
  BY <1>1, <1>2, <1>3, <1>4 DEF Next, Call, Fault, diskVars

LEMMA SweepsInv == Spec => [](Recorded /\ ExpiriesSound /\ SweepSparesCurrent /\ SweepFindsAll)
<1>1. DiskInit => Recorded /\ ExpiriesSound /\ SweepSparesCurrent /\ SweepFindsAll
  BY DEF DiskInit, Recorded, ExpiriesSound, SweepSparesCurrent, SweepFindsAll, Ghost, NoExpiry, Told
<1>2. /\ Typed /\ Typed' /\ ListedIsPrefixed /\ Alone /\ ContentsSound
      /\ Recorded /\ ExpiriesSound /\ SweepSparesCurrent /\ SweepFindsAll
      /\ [Next]_diskVars
      => (Recorded /\ ExpiriesSound /\ SweepSparesCurrent /\ SweepFindsAll)'
  BY RecordedStays, ExpiriesStay, SweepsStay
<1>3. QED
  BY <1>1, <1>2, TypeCorrect, ImplementInv, ContentsInv, PTL DEF Spec

\* A sweep that nothing overlapped and nothing before it left in doubt deletes
\* no file whose expiry is still to come, and on S3 none put without one.
THEOREM SweepsSpareCurrentFiles == Spec => []SweepSparesCurrent
  BY SweepsInv, PTL

\* ... and deletes every file that had expired when it began, but for those in
\* directories of a local disk.
THEOREM SweepsFindExpiredFiles == Spec => []SweepFindsAll
  BY SweepsInv, PTL
===============================================================================
