----------------------------- MODULE UploadsProofs -----------------------------
(***************************************************************************)
(* Theorems about Uploads, for any number of requests, files, names,       *)
(* ticks and faults.                                                       *)
(***************************************************************************)
EXTENDS Uploads, SequenceTheorems, TLAPS

(* Types *)

DirNames == {"", "docs"} \cup STRING
FileRecord == [name : Names, dir : DirNames, ok : BOOLEAN]
Numbered == {Append(p[1], p[2]) : p \in Names \X Nat}
PathNames == Names \cup Numbered
PathSet == DirNames \X Nat \X PathNames
TempSet == Nat \X Names
FileSeqs == Seq(FileRecord)
TempSeqs == Seq(TempSet)
Content == Requests \X Nat
Pcs == {"receive", "validate", "probe", "write", "copy", "unlink", "cleanup", "name",
        "answered", "rejected", "failed", "lost"}

RequestRecord ==
    [pc : Pcs, way : Ways, files : FileSeqs, i : Nat \ {0}, k : Nat, path : {<<>>} \cup PathSet,
     bytes : Content, temps : TempSeqs, left : SUBSET TempSet, then : {"answered", "rejected", "failed"},
     stored : SUBSET [path : PathSet, by : Content], since : Nat, until : Nat]

\* What the step a request is at says of its other fields.
Phase(o) ==
    /\ Len(o.temps) <= Len(o.files)
    /\ o.left \subseteq {o.temps[j] : j \in 1 .. Len(o.temps)}
    /\ o.pc \in {"write", "copy", "unlink"} => o.path \in PathSet
    /\ o.way = "interceptor" =>
          /\ o.pc # "name"
          /\ o.pc = "receive" => o.i = 1 /\ o.left = {}
          /\ o.pc \in {"validate", "probe", "write", "copy", "unlink"} =>
                Len(o.temps) = Len(o.files) /\ o.i <= Len(o.files)
    /\ o.way # "interceptor" =>
          /\ o.pc \notin {"receive", "probe", "unlink", "cleanup"}
          /\ o.temps = <<>>
          /\ o.pc \in {"validate", "name", "write", "copy"} => o.i <= Len(o.files)

GhostSet == [met : [Requests -> SUBSET Requests], named : SUBSET TempSet, clash : SUBSET TempSet,
             stuck : SUBSET TempSet, blind : SUBSET (Requests \X PathSet)]

Phases == \A r \in Requests : req[r] # Unsent => Phase(req[r])

Typed ==
    /\ DOMAIN disk \subseteq PathSet /\ disk \in [DOMAIN disk -> Content]
    /\ DOMAIN temps \subseteq TempSet /\ temps \in [DOMAIN temps -> Content]
    /\ clock \in Nat /\ faults \in Nat
    /\ req \in [Requests -> {Unsent} \cup RequestRecord]
    /\ ghost \in GhostSet

-------------------------------------------------------------------------------
(* Facts about data *)

LEMMA UnsentIsNoRecord == Unsent \notin RequestRecord
  BY DEF Unsent, RequestRecord, Pcs

LEMMA FunctionIsSequence ==
    ASSUME NEW S, NEW n \in Nat, NEW f \in [1 .. n -> S]
    PROVE  f \in Seq(S) /\ Len(f) = n
  OBVIOUS

LEMMA FilesOfWays ==
    /\ Files("interceptor") = UNION {[1 .. n -> [name : Names, dir : {""}, ok : BOOLEAN]] : n \in 0 .. MaxFiles}
    /\ Files("direct") = [1 .. 1 -> [name : Names, dir : {""}, ok : {TRUE}]]
    /\ Files("doc") = [1 .. 1 -> [name : Names, dir : {"docs"}, ok : BOOLEAN]]
  BY DEF Files

\* The files of a request are a sequence, not empty unless the interceptor takes them.
LEMMA FilesAreSequences ==
    ASSUME NEW way \in Ways, NEW fs \in Files(way)
    PROVE  fs \in Seq(FileRecord) /\ (way # "interceptor" => Len(fs) >= 1)
<1>1. CASE way = "interceptor"
  <2>2. PICK n \in 0 .. MaxFiles : fs \in [1 .. n -> [name : Names, dir : {""}, ok : BOOLEAN]]
    BY <1>1, FilesOfWays, UploadsAssumption, Zenon
  <2>3. [name : Names, dir : {""}, ok : BOOLEAN] \subseteq FileRecord
    BY DEF FileRecord, DirNames
  <2>4. fs \in [1 .. n -> FileRecord]
    BY <2>2, <2>3
  <2>5. QED
    BY <1>1, <2>4, FunctionIsSequence
<1>2. CASE way = "direct"
  <2>2. [name : Names, dir : {""}, ok : {TRUE}] \subseteq FileRecord
    BY DEF FileRecord, DirNames
  <2>3. 1 \in Nat
    OBVIOUS
  <2>4. fs \in [1 .. 1 -> FileRecord]
    BY <1>2, FilesOfWays, <2>2, <2>3
  <2>5. QED
    <3>1. fs \in Seq(FileRecord) /\ Len(fs) = 1
      BY <2>3, <2>4, FunctionIsSequence, Zenon
    <3>2. QED
      BY <3>1
<1>3. CASE way = "doc"
  <2>2. [name : Names, dir : {"docs"}, ok : BOOLEAN] \subseteq FileRecord
    BY DEF FileRecord, DirNames
  <2>3. 1 \in Nat
    OBVIOUS
  <2>4. fs \in [1 .. 1 -> FileRecord]
    BY <1>3, FilesOfWays, <2>2, <2>3
  <2>5. QED
    <3>1. fs \in Seq(FileRecord) /\ Len(fs) = 1
      BY <2>3, <2>4, FunctionIsSequence, Zenon
    <3>2. QED
      BY <3>1
<1>4. CASE way = "image"
  <2>1. PICK n \in Names, ds \in Dirs, b \in BOOLEAN :
            fs = [i \in 1 .. Len(ds) |-> [name |-> n, dir |-> ds[i], ok |-> b]]
    BY <1>4 DEF Files
  <2>2. ds \in Seq(STRING) /\ ds # <<>>
    BY UploadsAssumption
  <2>3. Len(ds) \in Nat \ {0}
    BY <2>2, EmptySeq
  <2>4. fs \in [1 .. Len(ds) -> FileRecord]
    BY <2>1, <2>2, <2>3, ElementOfSeq DEF FileRecord, DirNames
  <2>5. QED
    BY <2>3, <2>4
<1>5. QED
  BY <1>1, <1>2, <1>3, <1>4, UploadsAssumption

LEMMA WithIsFunction ==
    ASSUME NEW X, NEW Y, NEW f, DOMAIN f \subseteq X, f \in [DOMAIN f -> Y], NEW x \in X, NEW v \in Y
    PROVE  /\ DOMAIN With(f, x, v) = DOMAIN f \cup {x}
           /\ DOMAIN With(f, x, v) \subseteq X
           /\ With(f, x, v) \in [DOMAIN With(f, x, v) -> Y]
           /\ With(f, x, v)[x] = v
           /\ \A y \in DOMAIN f : y # x => With(f, x, v)[y] = f[y]
  BY DEF With

LEMMA WithoutIsFunction ==
    ASSUME NEW X, NEW Y, NEW f, DOMAIN f \subseteq X, f \in [DOMAIN f -> Y], NEW S
    PROVE  /\ DOMAIN Without(f, S) = DOMAIN f \ S
           /\ DOMAIN Without(f, S) \subseteq X
           /\ Without(f, S) \in [DOMAIN Without(f, S) -> Y]
           /\ \A y \in DOMAIN f \ S : Without(f, S)[y] = f[y]
  BY DEF Without

\* A step of one request.
LEMMA OneMoves ==
    ASSUME Typed, Phases, NEW r \in Requests, NEW o \in RequestRecord, Phase(o), req' = [req EXCEPT ![r] = o]
    PROVE  req' \in [Requests -> {Unsent} \cup RequestRecord] /\ Phases'
  BY DEF Typed, Phases

\* The requests in progress are lost.
LEMMA LoseMoves ==
    ASSUME Typed, Phases, Lose
    PROVE  req' \in [Requests -> {Unsent} \cup RequestRecord] /\ Phases'
<1>1. ASSUME NEW r \in Requests, InProgress(r)
      PROVE  /\ [req[r] EXCEPT !.pc = "lost", !.until = clock] \in RequestRecord
             /\ Phase([req[r] EXCEPT !.pc = "lost", !.until = clock])
  <2>1. req[r] # Unsent /\ req[r] \in RequestRecord /\ clock \in Nat /\ Phase(req[r])
    BY <1>1 DEF Typed, Phases, InProgress, Over, Unsent
  <2>2. [req[r] EXCEPT !.pc = "lost", !.until = clock] \in RequestRecord
    BY <2>1 DEF RequestRecord, Pcs
  <2>3. Phase([req[r] EXCEPT !.pc = "lost", !.until = clock])
    BY <2>1 DEF RequestRecord, Phase
  <2>4. QED
    BY <2>2, <2>3
<1>2. QED
  BY <1>1 DEF Lose, Typed, Phases

LEMMA NamesAreTyped ==
    ASSUME NEW n \in Names, NEW k \in Nat
    PROVE  n \in PathNames /\ Append(n, k) \in PathNames
<1>1. <<n, k>> \in Names \X Nat /\ <<n, k>>[1] = n /\ <<n, k>>[2] = k
  OBVIOUS
<1>2. Append(n, k) \in Numbered
  BY <1>1, Zenon DEF Numbered
<1>3. QED
  BY <1>2 DEF PathNames

\* The names that are tried, and those that hold the time.
LEMMA PathsAreTyped ==
    ASSUME Typed, NEW r \in Requests, req[r] \in RequestRecord, req[r].i <= Len(req[r].files)
    PROVE  Candidate(r) \in PathSet /\ Stamped(File(r)) \in PathSet /\ OwnName(File(r)) \in PathSet
<1>1. req[r].files \in Seq(FileRecord) /\ req[r].i \in 1 .. Len(req[r].files) /\ req[r].k \in Nat /\ clock \in Nat
  BY DEF Typed, RequestRecord, FileSeqs
<1>2. File(r) \in FileRecord
  BY <1>1, ElementOfSeq DEF File
<1>3. File(r).name \in Names /\ File(r).dir \in DirNames /\ "" \in DirNames
  BY <1>2 DEF FileRecord, DirNames
<1>4. File(r).name \in PathNames /\ Append(File(r).name, req[r].k) \in PathNames
  BY <1>1, <1>3, NamesAreTyped
<1>5. QED
  BY <1>1, <1>3, <1>4 DEF Candidate, Stamped, OwnName, PathSet

-------------------------------------------------------------------------------
(* Types *)

LEMMA InitTyped == Init => Typed /\ Phases
  BY DEF Init, Typed, Phases, Nothing, GhostSet

LEMMA SendTyped ==
    ASSUME Typed, Phases, NEW r \in Requests, NEW way \in Ways, NEW fs \in Files(way), Send(r, way, fs)
    PROVE  Typed' /\ Phases'
<1> DEFINE pc == CASE way = "interceptor" -> "receive" [] way = "direct" -> "name" [] OTHER -> "validate"
           o == [pc |-> pc, way |-> way, files |-> fs, i |-> 1, k |-> 0, path |-> <<>>, bytes |-> Half(r),
                 temps |-> <<>>, left |-> {}, then |-> "answered",
                 stored |-> {}, since |-> clock, until |-> 0]
<1>1. fs \in Seq(FileRecord) /\ Len(fs) \in Nat /\ (way # "interceptor" => Len(fs) >= 1)
  BY FilesAreSequences, LenProperties
<1>2. <<>> \in Seq(TempSet) /\ Len(<<>>) = 0
  BY EmptySeq
<1>3. fs \in FileSeqs /\ <<>> \in TempSeqs
  BY <1>1, <1>2 DEF FileSeqs, TempSeqs
<1>6. req' = [req EXCEPT ![r] = o]
  BY DEF Send
<1>9. /\ pc \in {"receive", "name", "validate"}
      /\ pc = "receive" <=> way = "interceptor"
      /\ way = "interceptor" => pc # "name"
  OBVIOUS
<1>10. Half(r) \in Content
  BY DEF Half, Content
<1> HIDE DEF pc
<1>4. o \in RequestRecord
  BY <1>3, <1>9, <1>10 DEF RequestRecord, Pcs, Typed
<1>5. Phase(o)
  BY <1>1, <1>2, <1>9 DEF Phase
<1>7. req' \in [Requests -> {Unsent} \cup RequestRecord] /\ Phases'
  BY <1>4, <1>5, <1>6, OneMoves
<1>8. QED
  BY <1>7 DEF Typed, Send, GhostSet

\* What is known of a request that was sent.
LEMMA Sent ==
    ASSUME Typed, Phases, NEW r \in Requests, req[r].pc # "unsent"
    PROVE  /\ req[r] # Unsent /\ req[r] \in RequestRecord /\ Phase(req[r])
           /\ req[r].files \in Seq(FileRecord) /\ Len(req[r].files) \in Nat
           /\ req[r].temps \in Seq(TempSet) /\ Len(req[r].temps) \in Nat /\ DOMAIN req[r].temps = 1 .. Len(req[r].temps)
           /\ DOMAIN req[r].files = 1 .. Len(req[r].files)
           /\ \A j \in 1 .. Len(req[r].temps) : req[r].temps[j] \in TempSet
           /\ \A j \in 1 .. Len(req[r].files) : req[r].files[j] \in FileRecord
<1>1. req[r] # Unsent /\ req[r] \in RequestRecord /\ Phase(req[r])
  BY DEF Typed, Phases, Unsent
<1>2. req[r].files \in Seq(FileRecord) /\ req[r].temps \in Seq(TempSet)
  BY <1>1 DEF RequestRecord, FileSeqs, TempSeqs
<1>3. QED
  BY <1>1, <1>2, LenProperties, ElementOfSeq

\* A file is put on the disk.
LEMMA PutTyped ==
    ASSUME Typed, NEW p \in PathSet, NEW v \in Content, disk' = With(disk, p, v)
    PROVE  DOMAIN disk' \subseteq PathSet /\ disk' \in [DOMAIN disk' -> Content]
<1>1. DOMAIN disk \subseteq PathSet /\ disk \in [DOMAIN disk -> Content]
  BY DEF Typed
<1>2. DOMAIN With(disk, p, v) \subseteq PathSet /\ With(disk, p, v) \in [DOMAIN With(disk, p, v) -> Content]
  BY <1>1, WithIsFunction
<1>3. QED
  BY <1>2, Zenon

\* A temporary file is written.
LEMMA TempTyped ==
    ASSUME Typed, NEW p \in TempSet, NEW v \in Content, temps' = With(temps, p, v)
    PROVE  DOMAIN temps' \subseteq TempSet /\ temps' \in [DOMAIN temps' -> Content]
<1>1. DOMAIN temps \subseteq TempSet /\ temps \in [DOMAIN temps -> Content]
  BY DEF Typed
<1>2. DOMAIN With(temps, p, v) \subseteq TempSet /\ With(temps, p, v) \in [DOMAIN With(temps, p, v) -> Content]
  BY <1>1, WithIsFunction
<1>3. QED
  BY <1>2, Zenon

LEMMA ReceiveTyped ==
    ASSUME Typed, Phases, NEW r \in Requests, Receive(r)
    PROVE  Typed' /\ Phases'
<1> DEFINE i == Len(req[r].temps) + 1
           t == TempName(req[r].files[i].name)
           o == [req[r] EXCEPT !.temps = Append(@, t)]
<1>1. req[r].pc = "receive" /\ i <= Len(req[r].files)
  BY DEF Receive
<1>2. /\ req[r] # Unsent /\ req[r] \in RequestRecord /\ Phase(req[r])
      /\ Len(req[r].temps) \in Nat /\ Len(req[r].files) \in Nat /\ req[r].temps \in Seq(TempSet)
      /\ \A j \in 1 .. Len(req[r].files) : req[r].files[j] \in FileRecord
  BY <1>1, Sent
<1>3. t \in TempSet /\ t = <<clock, req[r].files[i].name>>
  <2>1. i \in 1 .. Len(req[r].files)
    BY <1>1, <1>2
  <2>2. req[r].files[i].name \in Names
    BY <1>2, <2>1 DEF FileRecord
  <2>3. QED
    BY <2>2 DEF TempName, TempSet, Typed
<1>4. /\ Append(req[r].temps, t) \in Seq(TempSet) /\ Len(Append(req[r].temps, t)) = i
      /\ \A j \in 1 .. Len(req[r].temps) : Append(req[r].temps, t)[j] = req[r].temps[j]
  BY <1>2, <1>3, AppendProperties
<1> HIDE DEF t
<1>5. o \in RequestRecord
  <2>1. Append(req[r].temps, t) \in TempSeqs
    BY <1>4 DEF TempSeqs
  <2>2. QED
    BY <1>2, <2>1 DEF RequestRecord
<1>6. Phase(o)
  <2>1. /\ o.pc = "receive" /\ o.files = req[r].files /\ o.left = req[r].left /\ o.way = req[r].way
        /\ o.i = req[r].i /\ o.temps = Append(req[r].temps, t)
    BY <1>1, <1>2 DEF RequestRecord
  <2>2. req[r].way = "interceptor" /\ o.left = {} /\ o.i = 1
    BY <1>1, <1>2, <2>1 DEF Phase
  <2>3. QED
    BY <1>1, <1>4, <2>1, <2>2 DEF Phase
<1>7. req' = [req EXCEPT ![r] = o] /\ temps' = With(temps, t, <<r, i>>)
  BY <1>2 DEF Receive, t
<1>8. req' \in [Requests -> {Unsent} \cup RequestRecord] /\ Phases'
  BY <1>5, <1>6, <1>7, OneMoves
<1>9. DOMAIN temps' \subseteq TempSet /\ temps' \in [DOMAIN temps' -> Content]
  <2>1. <<r, i>> \in Content
    BY <1>2 DEF Content
  <2>2. QED
    BY <1>3, <1>7, <2>1, TempTyped
<1>10. ghost' \in GhostSet
  BY <1>3 DEF Receive, Typed, GhostSet
<1>11. QED
  BY <1>8, <1>9, <1>10 DEF Typed, Receive

\* The other steps of the interceptor.
LEMMA InterceptorTyped ==
    ASSUME Typed, Phases, NEW r \in Requests,
           \/ Received(r) \/ MulterGivesUp(r) \/ Validate(r) \/ Probe(r) \/ ProbeFails(r) \/ OpenStream(r)
           \/ PutStream(r) \/ Unlink(r) \/ Cleanup(r) \/ CleanupFails(r) \/ End(r)
    PROVE  Typed' /\ Phases'
<1>1. req[r].pc # "unsent"
  BY DEF Received, MulterGivesUp, Validate, Probe, ProbeFails, OpenStream, PutStream, Unlink, Cleanup, CleanupFails, End, AtStep
<1> DEFINE q == req[r]
<1>2. /\ q # Unsent /\ q \in RequestRecord /\ Phase(q)
      /\ Len(q.temps) \in Nat /\ Len(q.files) \in Nat /\ DOMAIN q.temps = 1 .. Len(q.temps)
      /\ \A j \in 1 .. Len(q.temps) : q.temps[j] \in TempSet
  BY <1>1, Sent
<1>3. q.i \in Nat \ {0} /\ q.k \in Nat /\ clock \in Nat /\ q.left \subseteq TempSet
  BY <1>2 DEF RequestRecord, Typed
<1>4. /\ \A S : DOMAIN Without(temps, S) \subseteq TempSet /\ Without(temps, S) \in [DOMAIN Without(temps, S) -> Content]
  BY WithoutIsFunction DEF Typed
<1>5. \A pc \in {"answered", "rejected", "failed"} : Finish(r, pc) =>
          req' \in [Requests -> {Unsent} \cup RequestRecord] /\ Phases'
  <2> SUFFICES ASSUME NEW pc \in {"answered", "rejected", "failed"}, Finish(r, pc)
               PROVE  req' \in [Requests -> {Unsent} \cup RequestRecord] /\ Phases'
    OBVIOUS
  <2> DEFINE o == [q EXCEPT !.pc = pc, !.until = clock]
  <2>1. o \in RequestRecord
    BY <1>2, <1>3 DEF RequestRecord, Pcs
  <2>2. Phase(o)
    BY <1>2 DEF RequestRecord, Phase
  <2>3. req' = [req EXCEPT ![r] = o]
    BY DEF Finish
  <2>4. QED
    BY <2>1, <2>2, <2>3, OneMoves
<1>6. /\ q.way = "interceptor" /\ q.pc = "validate" =>
              [q EXCEPT !.pc = "probe"] \in RequestRecord /\ Phase([q EXCEPT !.pc = "probe"])
      /\ q.way = "interceptor" /\ q.pc = "copy" =>
              [q EXCEPT !.pc = "unlink"] \in RequestRecord /\ Phase([q EXCEPT !.pc = "unlink"])
  BY <1>2 DEF RequestRecord, Phase, Pcs
\* A name is taken.
<1>16. AtStep(r, {"interceptor"}, "probe") /\ req' = [req EXCEPT ![r].pc = "write", ![r].path = Candidate(r)] =>
          req' \in [Requests -> {Unsent} \cup RequestRecord] /\ Phases' /\ Candidate(r) \in PathSet
  <2> SUFFICES ASSUME AtStep(r, {"interceptor"}, "probe"),
                      req' = [req EXCEPT ![r].pc = "write", ![r].path = Candidate(r)]
               PROVE  req' \in [Requests -> {Unsent} \cup RequestRecord] /\ Phases' /\ Candidate(r) \in PathSet
    OBVIOUS
  <2> DEFINE c == Candidate(r)
             o == [q EXCEPT !.pc = "write", !.path = c]
  <2>1. q.pc = "probe" /\ q.way = "interceptor" /\ q.i <= Len(q.files)
    BY <1>2 DEF AtStep, Phase
  <2>2. c \in PathSet
    BY <1>2, <2>1, PathsAreTyped
  <2>3. req' = [req EXCEPT ![r] = o]
    OBVIOUS
  <2> HIDE DEF c
  <2>4. o \in RequestRecord
    BY <1>2, <2>2 DEF RequestRecord, Pcs
  <2>5. Phase(o)
    BY <1>2, <2>1, <2>2 DEF RequestRecord, Phase
  <2>6. QED
    BY <2>2, <2>3, <2>4, <2>5, OneMoves DEF c
<1>7. CASE Received(r)
  <2>1. CASE q.files = <<>>
    BY <1>5, <1>7, <2>1 DEF Received, Typed, Quiet
  <2>2. CASE q.files # <<>>
    <3> DEFINE o == [q EXCEPT !.pc = "validate", !.left = {q.temps[j] : j \in DOMAIN q.temps}]
    <3>1. q.pc = "receive" /\ q.way = "interceptor" /\ q.i = 1 /\ Len(q.temps) = Len(q.files)
      BY <1>2, <1>7 DEF Received, Phase
    <3>2. Len(q.files) >= 1
      BY <1>2, <2>2, EmptySeq DEF RequestRecord, FileSeqs
    <3>3. o \in RequestRecord
      <4>1. {q.temps[j] : j \in DOMAIN q.temps} \in SUBSET TempSet
        BY <1>2
      <4>2. QED
        BY <1>2, <4>1 DEF RequestRecord, Pcs
    <3>4. Phase(o)
      BY <1>2, <3>1, <3>2 DEF RequestRecord, Phase
    <3>5. req' = [req EXCEPT ![r] = o]
      BY <1>2, <1>7, <2>2 DEF Received
    <3>6. QED
      BY <1>7, <3>3, <3>4, <3>5, OneMoves DEF Received, Typed, Quiet
  <2>3. QED
    BY <2>1, <2>2
<1>8. CASE MulterGivesUp(r)
  <2> DEFINE written == {q.temps[j] : j \in DOMAIN q.temps}
  <2>1. PICK stay \in SUBSET written :
            temps' = Without(temps, written \ stay) /\ ghost' = [ghost EXCEPT !.stuck = @ \cup stay]
    BY <1>8 DEF MulterGivesUp
  <2>2. stay \subseteq TempSet
    BY <1>2, <2>1
  <2>3. ghost' \in GhostSet
    BY <2>1, <2>2 DEF Typed, GhostSet
  <2>4. QED
    BY <1>4, <1>5, <1>8, <2>1, <2>3 DEF MulterGivesUp, Typed
<1>9. CASE Validate(r)
  <2>1. CASE Accepted(r)
    BY <1>6, <1>9, <2>1, OneMoves DEF Validate, AtStep, Step, Typed, Quiet
  <2>2. CASE ~Accepted(r)
    <3> DEFINE o == [q EXCEPT !.pc = "cleanup", !.then = "rejected"]
    <3>1. o \in RequestRecord
      BY <1>2 DEF RequestRecord, Pcs
    <3>2. Phase(o)
      BY <1>2, <1>9 DEF RequestRecord, Phase, Validate, AtStep
    <3>3. req' = [req EXCEPT ![r] = o]
      BY <1>9, <2>2 DEF Validate
    <3>4. QED
      BY <1>9, <3>1, <3>2, <3>3, OneMoves DEF Validate, Typed, Quiet
  <2>3. QED
    BY <2>1, <2>2
<1>10. CASE Probe(r)
  <2>1. CASE Candidate(r) \in DOMAIN disk
    <3> DEFINE o == [q EXCEPT !.k = @ + 1]
    <3>1. o \in RequestRecord
      BY <1>2, <1>3 DEF RequestRecord
    <3>2. Phase(o)
      BY <1>2 DEF RequestRecord, Phase
    <3>3. req' = [req EXCEPT ![r] = o]
      BY <1>10, <2>1 DEF Probe
    <3>4. QED
      BY <1>10, <3>1, <3>2, <3>3, OneMoves DEF Probe, Typed, Quiet
  <2>2. CASE Candidate(r) \notin DOMAIN disk
    BY <1>10, <1>16, <2>2 DEF Probe, Typed, Quiet
  <2>3. QED
    BY <2>1, <2>2
<1>17. CASE ProbeFails(r)
  <2>1. req' \in [Requests -> {Unsent} \cup RequestRecord] /\ Phases' /\ Candidate(r) \in PathSet
    BY <1>16, <1>17 DEF ProbeFails
  <2>2. ghost' \in GhostSet
    BY <1>17, <2>1 DEF ProbeFails, Typed, GhostSet
  <2>3. QED
    BY <1>17, <2>1, <2>2 DEF ProbeFails, Typed
<1>18. CASE OpenStream(r)
  <2> DEFINE v == temps[q.temps[q.i]]
             o == [q EXCEPT !.pc = "copy", !.bytes = v]
  <2>1. q.pc = "write" /\ q.way = "interceptor" /\ q.path \in PathSet
    BY <1>2, <1>18 DEF OpenStream, AtStep, Phase
  <2>2. v \in Content /\ Half(r) \in Content
    BY <1>18 DEF OpenStream, Typed, Half, Content
  <2>3. req' = [req EXCEPT ![r] = o] /\ disk' = With(disk, q.path, Half(r))
    BY <1>18 DEF OpenStream
  <2> HIDE DEF v
  <2>4. o \in RequestRecord
    BY <1>2, <2>2 DEF RequestRecord, Pcs
  <2>5. Phase(o)
    BY <1>2, <2>1 DEF RequestRecord, Phase
  <2>6. DOMAIN disk' \subseteq PathSet /\ disk' \in [DOMAIN disk' -> Content]
    BY <2>1, <2>2, <2>3, PutTyped
  <2>7. req' \in [Requests -> {Unsent} \cup RequestRecord] /\ Phases'
    BY <2>3, <2>4, <2>5, OneMoves
  <2>8. QED
    BY <1>18, <2>6, <2>7 DEF OpenStream, Typed, Quiet
<1>11. CASE PutStream(r)
  <2>1. q.path \in PathSet /\ q.bytes \in Content
    BY <1>2, <1>11 DEF PutStream, AtStep, Phase, RequestRecord
  <2>2. disk' = With(disk, q.path, q.bytes)
    BY <1>11 DEF PutStream
  <2>3. DOMAIN disk' \subseteq PathSet /\ disk' \in [DOMAIN disk' -> Content]
    BY <2>1, <2>2, PutTyped
  <2>4. req' \in [Requests -> {Unsent} \cup RequestRecord] /\ Phases'
    BY <1>6, <1>11, OneMoves DEF PutStream, AtStep, Step
  <2>5. QED
    BY <1>11, <2>3, <2>4 DEF PutStream, Typed, Quiet
<1>12. CASE Unlink(r)
  <2> DEFINE t == q.temps[q.i]
             last == q.i = Len(q.files)
             s == [path |-> q.path, by |-> <<r, q.i>>]
             o1 == [q EXCEPT !.pc = IF last THEN "cleanup" ELSE "probe", !.i = IF last THEN @ ELSE @ + 1, !.k = 0,
                             !.left = @ \ {t}, !.stored = @ \cup {s}]
             o2 == [q EXCEPT !.pc = "cleanup", !.then = "failed"]
  <2>1. q.i <= Len(q.files) /\ Len(q.temps) = Len(q.files) /\ q.way = "interceptor" /\ q.pc = "unlink"
    BY <1>2, <1>12 DEF Unlink, AtStep, Phase
  <2>2. s \in [path : PathSet, by : Content]
    BY <1>2, <1>3, <2>1 DEF Content, Phase
  <2> HIDE DEF s
  <2>3. o1 \in RequestRecord
    <3>1. /\ (IF last THEN "cleanup" ELSE "probe") \in Pcs
          /\ (IF last THEN q.i ELSE q.i + 1) \in Nat \ {0}
          /\ q.left \ {t} \in SUBSET TempSet
      BY <1>2, <1>3 DEF Pcs
    <3>2. q.stored \cup {s} \in SUBSET [path : PathSet, by : Content]
      BY <1>2, <2>2 DEF RequestRecord
    <3> HIDE DEF t, last
    <3>3. QED
      BY <1>2, <3>1, <3>2 DEF RequestRecord
  <2>4. Phase(o1)
    BY <1>2, <1>3, <2>1 DEF RequestRecord, Phase
  <2>5. o2 \in RequestRecord
    BY <1>2 DEF RequestRecord, Pcs
  <2>6. Phase(o2)
    BY <1>2, <2>1 DEF RequestRecord, Phase
  <2>7. req' = [req EXCEPT ![r] = o1] \/ req' = [req EXCEPT ![r] = o2]
    BY <1>12 DEF Unlink, s
  <2>8. req' \in [Requests -> {Unsent} \cup RequestRecord] /\ Phases'
    BY <2>3, <2>4, <2>5, <2>6, <2>7, OneMoves
  <2>9. QED
    BY <1>4, <1>12, <2>8 DEF Unlink, Typed, Quiet
<1>13. CASE Cleanup(r)
  <2>1. PICK t \in q.left : temps' = Without(temps, {t}) /\ req' = [req EXCEPT ![r].left = @ \ {t}]
    BY <1>13 DEF Cleanup
  <2> DEFINE o == [q EXCEPT !.left = @ \ {t}]
  <2>2. o \in RequestRecord
    BY <1>2 DEF RequestRecord
  <2>3. Phase(o)
    BY <1>2, <1>13 DEF RequestRecord, Phase, Cleanup
  <2>4. req' = [req EXCEPT ![r] = o]
    BY <2>1
  <2>5. QED
    BY <1>4, <1>13, <2>1, <2>2, <2>3, <2>4, OneMoves DEF Cleanup, Typed, Quiet
<1>19. CASE CleanupFails(r)
  <2>1. PICK t \in q.left : req' = [req EXCEPT ![r].left = @ \ {t}] /\ ghost' = [ghost EXCEPT !.stuck = @ \cup {t}]
    BY <1>19 DEF CleanupFails
  <2> DEFINE o == [q EXCEPT !.left = @ \ {t}]
  <2>2. o \in RequestRecord
    BY <1>2 DEF RequestRecord
  <2>3. Phase(o)
    BY <1>2, <1>19 DEF RequestRecord, Phase, CleanupFails
  <2>4. req' = [req EXCEPT ![r] = o]
    BY <2>1
  <2>5. ghost' \in GhostSet
    BY <1>3, <2>1 DEF Typed, GhostSet
  <2>6. req' \in [Requests -> {Unsent} \cup RequestRecord] /\ Phases'
    BY <2>2, <2>3, <2>4, OneMoves
  <2>7. QED
    BY <1>19, <2>5, <2>6 DEF CleanupFails, Typed
<1>14. CASE End(r)
  BY <1>2, <1>5, <1>14 DEF End, Typed, Quiet, RequestRecord
<1>15. QED
  BY <1>7, <1>8, <1>9, <1>10, <1>11, <1>12, <1>13, <1>14, <1>17, <1>18, <1>19

LEMMA FinishTyped ==
    ASSUME Typed, Phases, NEW r \in Requests, req[r].pc # "unsent",
           NEW pc \in {"answered", "rejected", "failed"}, Finish(r, pc)
    PROVE  req' \in [Requests -> {Unsent} \cup RequestRecord] /\ Phases'
<1> DEFINE o == [req[r] EXCEPT !.pc = pc, !.until = clock]
<1>1. req[r] \in RequestRecord /\ Phase(req[r]) /\ clock \in Nat
  BY Sent DEF Typed
<1>2. o \in RequestRecord
  BY <1>1 DEF RequestRecord, Pcs
<1>3. Phase(o)
  BY <1>1 DEF RequestRecord, Phase
<1>4. req' = [req EXCEPT ![r] = o]
  BY DEF Finish
<1>5. QED
  BY <1>2, <1>3, <1>4, OneMoves

\* The steps of the other ways.
LEMMA OthersTyped ==
    ASSUME Typed, Phases, NEW r \in Requests, ValidateFile(r) \/ NameVariant(r) \/ OpenFile(r) \/ PutVariant(r)
    PROVE  Typed' /\ Phases'
<1>1. /\ req[r].pc # "unsent" /\ req[r].way \in {"direct", "image", "doc"}
      /\ req[r].pc \in {"validate", "name", "write", "copy"}
  BY DEF ValidateFile, NameVariant, OpenFile, PutVariant, AtStep
<1> DEFINE q == req[r]
<1>2. /\ q # Unsent /\ q \in RequestRecord /\ Phase(q) /\ Len(q.temps) \in Nat /\ Len(q.files) \in Nat
  BY <1>1, Sent
<1>3. q.i \in Nat \ {0} /\ q.i <= Len(q.files) /\ clock \in Nat
  BY <1>1, <1>2 DEF RequestRecord, Phase, Typed
<1>5. CASE ValidateFile(r)
  <2>1. CASE Accepted(r)
    <3> DEFINE o == [q EXCEPT !.pc = "name"]
    <3>1. o \in RequestRecord
      BY <1>2 DEF RequestRecord, Pcs
    <3>2. Phase(o)
      BY <1>1, <1>2, <1>3 DEF RequestRecord, Phase
    <3>3. QED
      BY <1>5, <2>1, <3>1, <3>2, OneMoves DEF ValidateFile, Step, Typed, Quiet
  <2>2. CASE ~Accepted(r)
    BY <1>1, <1>5, <2>2, FinishTyped DEF ValidateFile, Typed, Quiet
  <2>3. QED
    BY <2>1, <2>2
<1>6. CASE NameVariant(r)
  <2> DEFINE p == IF q.way = "direct" THEN OwnName(File(r)) ELSE Stamped(File(r))
             o == [q EXCEPT !.pc = "write", !.path = p]
  <2>1. p \in PathSet
    BY <1>2, <1>3, PathsAreTyped
  <2>2. req' = [req EXCEPT ![r] = o]
    BY <1>6 DEF NameVariant
  <2> HIDE DEF p
  <2>3. o \in RequestRecord
    BY <1>2, <2>1 DEF RequestRecord, Pcs
  <2>4. Phase(o)
    BY <1>1, <1>2, <1>3, <2>1 DEF RequestRecord, Phase
  <2>5. QED
    BY <1>6, <2>2, <2>3, <2>4, OneMoves DEF NameVariant, Typed, Quiet
<1>7. CASE PutVariant(r)
  <2> DEFINE last == q.i = Len(q.files)
             v == q.bytes
             b == <<r, q.i>>
             s == q.stored \cup {[path |-> q.path, by |-> b]}
             pc == IF last THEN "answered" ELSE "name"
             i == IF last THEN q.i ELSE q.i + 1
             o == [q EXCEPT !.pc = pc, !.i = i, !.until = clock, !.stored = s]
  <2>1. q.path \in PathSet /\ v \in Content /\ b \in Content
    BY <1>1, <1>2, <1>3, <1>7 DEF PutVariant, AtStep, Phase, RequestRecord, Content
  <2>2. disk' = With(disk, q.path, v) /\ req' = [req EXCEPT ![r] = o]
    BY <1>7 DEF PutVariant
  <2> HIDE DEF v, b
  <2>3. s \in SUBSET [path : PathSet, by : Content]
    BY <1>2, <2>1 DEF RequestRecord
  <2>4. i \in Nat \ {0} /\ (pc = "name" => i <= Len(q.files)) /\ pc \in {"answered", "name"}
    BY <1>2, <1>3
  <2> HIDE DEF s, i, pc
  <2>5. o \in RequestRecord
    BY <1>2, <1>3, <2>3, <2>4 DEF RequestRecord, Pcs
  <2>6. Phase(o)
    BY <1>1, <1>2, <2>4 DEF RequestRecord, Phase
  <2>7. QED
    BY <1>7, <2>1, <2>2, <2>5, <2>6, OneMoves, PutTyped DEF PutVariant, Typed, Quiet
<1>4. CASE OpenFile(r)
  <2> DEFINE v == <<r, q.i>>
             o == [q EXCEPT !.pc = "copy", !.bytes = v]
  <2>1. q.pc = "write" /\ q.path \in PathSet
    BY <1>2, <1>4 DEF OpenFile, AtStep, Phase
  <2>2. v \in Content /\ Half(r) \in Content
    BY <1>3 DEF Half, Content
  <2>3. req' = [req EXCEPT ![r] = o] /\ disk' = With(disk, q.path, Half(r))
    BY <1>4 DEF OpenFile
  <2> HIDE DEF v
  <2>4. o \in RequestRecord
    BY <1>2, <2>2 DEF RequestRecord, Pcs
  <2>5. Phase(o)
    BY <1>1, <1>2, <1>3, <2>1 DEF RequestRecord, Phase
  <2>6. DOMAIN disk' \subseteq PathSet /\ disk' \in [DOMAIN disk' -> Content]
    BY <2>1, <2>2, <2>3, PutTyped
  <2>7. req' \in [Requests -> {Unsent} \cup RequestRecord] /\ Phases'
    BY <2>3, <2>4, <2>5, OneMoves
  <2>8. QED
    BY <1>4, <2>6, <2>7 DEF OpenFile, Typed, Quiet
<1>8. QED
  BY <1>4, <1>5, <1>6, <1>7

\* What goes wrong.
LEMMA FaultsTyped ==
    ASSUME Typed, Phases, (\E r \in Requests : Fail(r) \/ StreamError(r)) \/ Restart
    PROVE  Typed' /\ Phases'
<1>1. ASSUME NEW r \in Requests, Fail(r)
      PROVE  Typed' /\ Phases'
  <2> DEFINE q == req[r]
             o == [q EXCEPT !.pc = "cleanup", !.then = "failed"]
  <2>1. q.pc # "unsent"
    BY <1>1 DEF Fail, InProgress, Over
  <2>2. q \in RequestRecord /\ Phase(q)
    BY <2>1, Sent
  <2>6. DOMAIN disk' \subseteq PathSet /\ disk' \in [DOMAIN disk' -> Content]
    <3>1. CASE disk' = disk
      BY <3>1 DEF Typed
    <3>2. CASE q.pc = "copy" /\ disk' = With(disk, q.path, q.bytes)
      <4>1. q.path \in PathSet /\ q.bytes \in Content
        BY <2>2, <3>2 DEF Phase, RequestRecord
      <4>2. QED
        BY <3>2, <4>1, PutTyped
    <3>3. QED
      BY <1>1, <3>1, <3>2 DEF Fail
  <2>3. CASE q.way = "interceptor"
    <3>1. o \in RequestRecord
      BY <2>2 DEF RequestRecord, Pcs
    <3>2. Phase(o)
      BY <2>2, <2>3 DEF RequestRecord, Phase
    <3>3. req' = [req EXCEPT ![r] = o]
      BY <1>1, <2>3 DEF Fail
    <3>4. req' \in [Requests -> {Unsent} \cup RequestRecord] /\ Phases'
      BY <3>1, <3>2, <3>3, OneMoves
    <3>5. QED
      BY <1>1, <2>6, <3>4 DEF Fail, Typed
  <2>4. CASE q.way # "interceptor"
    BY <1>1, <2>1, <2>4, <2>6, FinishTyped DEF Fail, Typed
  <2>5. QED
    BY <2>3, <2>4
<1>2. ASSUME NEW r \in Requests, StreamError(r)
      PROVE  Typed' /\ Phases'
  <2>1. req[r].pc \in {"write", "copy"}
    BY <1>2 DEF StreamError, AtStep
  <2>2. req[r].path \in PathSet /\ Half(r) \in Content
    BY <2>1, Sent DEF Phase, Half, Content
  <2>7. DOMAIN disk' \subseteq PathSet /\ disk' \in [DOMAIN disk' -> Content]
    <3>1. CASE disk' = disk
      BY <3>1 DEF Typed
    <3>2. CASE disk' = With(disk, req[r].path, Half(r))
      BY <2>2, <3>2, PutTyped
    <3>3. QED
      BY <1>2, <3>1, <3>2 DEF StreamError
  <2>6. faults' \in Nat
    BY <1>2 DEF StreamError, Typed
  <2>8. req' \in [Requests -> {Unsent} \cup RequestRecord] /\ Phases'
    BY <1>2, LoseMoves DEF StreamError
  <2>9. QED
    BY <1>2, <2>6, <2>7, <2>8 DEF StreamError, Typed
<1>3. CASE Restart
  <2>1. req' \in [Requests -> {Unsent} \cup RequestRecord] /\ Phases'
    BY <1>3, LoseMoves DEF Restart
  <2>3. QED
    BY <1>3, <2>1 DEF Restart, Typed
<1>4. QED
  BY <1>1, <1>2, <1>3

LEMMA NextTyped ==
    ASSUME Typed, Phases, [Next]_vars
    PROVE  Typed' /\ Phases'
<1>1. CASE Tick
  BY <1>1 DEF Tick, Typed, Phases
<1>2. CASE UNCHANGED vars
  BY <1>2 DEF vars, Typed, Phases
<1>3. QED
  BY <1>1, <1>2, SendTyped, ReceiveTyped, InterceptorTyped, OthersTyped, FaultsTyped DEF Next

\* Every file and every temporary file has a name of its kind and comes from
\* a request, and the fields of a request agree with the step it is at: one
\* that stores its files has received all of them.
THEOREM TypeCorrect == Spec => [](Typed /\ Phases)
<1>1. Init => Typed /\ Phases
  BY InitTyped
<1>2. Typed /\ Phases /\ [Next]_vars => (Typed /\ Phases)'
  BY NextTyped
<1>3. QED
  BY <1>1, <1>2, PTL DEF Spec

-------------------------------------------------------------------------------
(* What a step leaves alone *)

\* The step of one request, which keeps its files and temporary files.
Turn(r) ==
    /\ \A x \in Requests \ {r} : req'[x] = req[x]
    /\ req[r] # Unsent /\ req'[r] # Unsent
    /\ req'[r].temps = req[r].temps /\ req'[r].files = req[r].files /\ req'[r].way = req[r].way

InterceptorStep(r) ==
    \/ Received(r) \/ MulterGivesUp(r) \/ Validate(r) \/ Probe(r) \/ ProbeFails(r) \/ OpenStream(r)
    \/ PutStream(r) \/ Unlink(r) \/ Cleanup(r) \/ CleanupFails(r) \/ End(r)
OtherStep(r) == ValidateFile(r) \/ NameVariant(r) \/ OpenFile(r) \/ PutVariant(r)

\* It may note what fails.
Recorded ==
    /\ ghost' \in GhostSet
    /\ ghost'.met = ghost.met /\ ghost'.named = ghost.named /\ ghost'.clash = ghost.clash
    /\ ghost.stuck \subseteq ghost'.stuck /\ ghost.blind \subseteq ghost'.blind

LEMMA Records ==
    ASSUME Typed, Phases, NEW r \in Requests, InterceptorStep(r) \/ OtherStep(r) \/ Fail(r)
    PROVE  Recorded
<1>1. ghost' \in GhostSet
  BY InterceptorTyped, OthersTyped, FaultsTyped DEF InterceptorStep, OtherStep, Typed
<1>2. ghost \in GhostSet
  BY DEF Typed
<1>3. \A S : ghost' = [ghost EXCEPT !.stuck = @ \cup S] => Recorded
  BY <1>1, <1>2 DEF GhostSet, Recorded
<1>4. \A S : ghost' = [ghost EXCEPT !.blind = @ \cup S] => Recorded
  BY <1>1, <1>2 DEF GhostSet, Recorded
<1>5. ghost' = ghost => Recorded
  BY <1>1 DEF Recorded
<1>6. MulterGivesUp(r) => Recorded
  BY <1>3 DEF MulterGivesUp
<1>7. CleanupFails(r) => Recorded
  BY <1>3 DEF CleanupFails
<1>8. ProbeFails(r) => Recorded
  BY <1>4 DEF ProbeFails
<1>9. Fail(r) => ghost' = ghost
  BY DEF Fail
<1>10. OtherStep(r) => ghost' = ghost
  BY DEF OtherStep, ValidateFile, NameVariant, OpenFile, PutVariant, Quiet
<1>11. InterceptorStep(r) /\ ~MulterGivesUp(r) /\ ~CleanupFails(r) /\ ~ProbeFails(r) => ghost' = ghost
  BY DEF InterceptorStep, Received, Validate, Probe, OpenStream, PutStream, Unlink, Cleanup, End, Quiet
<1>12. QED
  BY <1>5, <1>6, <1>7, <1>8, <1>9, <1>10, <1>11

LEMMA Turns ==
    ASSUME Typed, Phases, NEW r \in Requests, InterceptorStep(r) \/ OtherStep(r) \/ Fail(r)
    PROVE  Turn(r) /\ Recorded
<1>0. Recorded
  BY Records
<1>1. req[r].pc # "unsent"
  BY DEF InterceptorStep, OtherStep, Received, MulterGivesUp, Validate, Probe, ProbeFails, OpenStream, PutStream, Unlink,
         Cleanup, CleanupFails, End, ValidateFile, NameVariant, OpenFile, PutVariant, Fail, AtStep, InProgress, Over
<1>2. req[r] # Unsent /\ req[r] \in RequestRecord /\ r \in DOMAIN req
  BY <1>1, Sent DEF Typed
<1>3. \A o : req' = [req EXCEPT ![r] = o] /\ o.pc # "unsent"
              /\ o.temps = req[r].temps /\ o.files = req[r].files /\ o.way = req[r].way => Turn(r)
  BY <1>2 DEF Turn, Typed, Unsent
<1>4. \A pc \in Pcs : Finish(r, pc) \/ Step(r, pc) => Turn(r)
  <2> SUFFICES ASSUME NEW pc \in Pcs, Finish(r, pc) \/ Step(r, pc)
               PROVE  Turn(r)
    OBVIOUS
  <2>1. pc # "unsent"
    BY DEF Pcs
  <2>2. CASE Finish(r, pc)
    <3> DEFINE o == [req[r] EXCEPT !.pc = pc, !.until = clock]
    <3>1. o.pc # "unsent" /\ o.temps = req[r].temps /\ o.files = req[r].files /\ o.way = req[r].way
      BY <1>2, <2>1 DEF RequestRecord
    <3>2. QED
      BY <1>3, <2>2, <3>1 DEF Finish
  <2>3. CASE Step(r, pc)
    <3> DEFINE o == [req[r] EXCEPT !.pc = pc]
    <3>1. o.pc # "unsent" /\ o.temps = req[r].temps /\ o.files = req[r].files /\ o.way = req[r].way
      BY <1>2, <2>1 DEF RequestRecord
    <3>2. req' = [req EXCEPT ![r] = o]
      BY <2>3 DEF Step
    <3>3. QED
      BY <1>3, <3>1, <3>2
  <2>4. QED
    BY <2>2, <2>3
<1>5. "answered" \in Pcs /\ "rejected" \in Pcs /\ "failed" \in Pcs /\ "probe" \in Pcs /\ "write" \in Pcs /\ "unlink" \in Pcs /\ "name" \in Pcs
  BY DEF Pcs
<1>6. req[r].then \in Pcs /\ req[r].pc \in Pcs
  BY <1>2 DEF RequestRecord, Pcs
<1>7. CASE Received(r)
  BY <1>0, <1>2, <1>3, <1>4, <1>5, <1>7 DEF Received, RequestRecord
<1>8. CASE MulterGivesUp(r)
  BY <1>0, <1>4, <1>5, <1>8 DEF MulterGivesUp
<1>9. CASE Validate(r)
  BY <1>0, <1>2, <1>3, <1>4, <1>5, <1>9 DEF Validate, RequestRecord
<1>10. CASE Probe(r)
  BY <1>0, <1>1, <1>2, <1>3, <1>10 DEF Probe, RequestRecord
<1>21. CASE ProbeFails(r)
  <2> DEFINE p == Candidate(r)
             o == [req[r] EXCEPT !.pc = "write", !.path = p]
  <2>1. req' = [req EXCEPT ![r] = o]
    BY <1>21 DEF ProbeFails
  <2> HIDE DEF p
  <2>2. o.pc # "unsent" /\ o.temps = req[r].temps /\ o.files = req[r].files /\ o.way = req[r].way
    BY <1>1, <1>2 DEF RequestRecord
  <2>3. QED
    BY <1>0, <1>3, <2>1, <2>2
<1>22. CASE OpenStream(r)
  <2> DEFINE p == temps[req[r].temps[req[r].i]]
             o == [req[r] EXCEPT !.pc = "copy", !.bytes = p]
  <2>1. req' = [req EXCEPT ![r] = o]
    BY <1>22 DEF OpenStream
  <2> HIDE DEF p
  <2>2. o.pc # "unsent" /\ o.temps = req[r].temps /\ o.files = req[r].files /\ o.way = req[r].way
    BY <1>1, <1>2 DEF RequestRecord
  <2>3. QED
    BY <1>0, <1>3, <2>1, <2>2
<1>23. CASE OpenFile(r)
  <2> DEFINE p == <<r, req[r].i>>
             o == [req[r] EXCEPT !.pc = "copy", !.bytes = p]
  <2>1. req' = [req EXCEPT ![r] = o]
    BY <1>23 DEF OpenFile
  <2> HIDE DEF p
  <2>2. o.pc # "unsent" /\ o.temps = req[r].temps /\ o.files = req[r].files /\ o.way = req[r].way
    BY <1>1, <1>2 DEF RequestRecord
  <2>3. QED
    BY <1>0, <1>3, <2>1, <2>2
<1>24. CASE CleanupFails(r)
  BY <1>0, <1>1, <1>2, <1>3, <1>24 DEF CleanupFails, RequestRecord
<1>11. CASE PutStream(r)
  BY <1>0, <1>4, <1>5, <1>11 DEF PutStream
<1>12. CASE Unlink(r)
  <2> DEFINE t == req[r].temps[req[r].i]
             last == req[r].i = Len(req[r].files)
             o == [req[r] EXCEPT !.pc = IF last THEN "cleanup" ELSE "probe", !.i = IF last THEN @ ELSE @ + 1, !.k = 0,
                                 !.left = @ \ {t}, !.stored = @ \cup {[path |-> req[r].path, by |-> <<r, req[r].i>>]}]
             u == [req[r] EXCEPT !.pc = "cleanup", !.then = "failed"]
  <2>1. /\ o.pc # "unsent" /\ o.temps = req[r].temps /\ o.files = req[r].files /\ o.way = req[r].way
        /\ u.pc # "unsent" /\ u.temps = req[r].temps /\ u.files = req[r].files /\ u.way = req[r].way
    BY <1>2 DEF RequestRecord
  <2>2. req' = [req EXCEPT ![r] = o] \/ req' = [req EXCEPT ![r] = u]
    BY <1>12 DEF Unlink
  <2>3. QED
    BY <1>0, <1>3, <1>12, <2>1, <2>2 DEF Unlink
<1>13. CASE Cleanup(r)
  BY <1>0, <1>1, <1>2, <1>3, <1>13 DEF Cleanup, RequestRecord
<1>14. CASE End(r)
  BY <1>0, <1>4, <1>6, <1>14 DEF End
<1>16. CASE ValidateFile(r)
  BY <1>0, <1>4, <1>5, <1>16 DEF ValidateFile
<1>17. CASE NameVariant(r)
  <2> DEFINE p == IF req[r].way = "direct" THEN OwnName(File(r)) ELSE Stamped(File(r))
             o == [req[r] EXCEPT !.pc = "write", !.path = p]
  <2>1. o.pc # "unsent" /\ o.temps = req[r].temps /\ o.files = req[r].files /\ o.way = req[r].way
    BY <1>1, <1>2 DEF RequestRecord
  <2>2. req' = [req EXCEPT ![r] = o]
    BY <1>17 DEF NameVariant
  <2>3. QED
    BY <1>0, <1>3, <1>17, <2>1, <2>2 DEF NameVariant
<1>18. CASE PutVariant(r)
  <2> DEFINE last == req[r].i = Len(req[r].files)
             o == [req[r] EXCEPT !.pc = IF last THEN "answered" ELSE "name", !.i = IF last THEN @ ELSE @ + 1,
                                 !.until = clock, !.stored = @ \cup {[path |-> req[r].path, by |-> <<r, req[r].i>>]}]
  <2>1. o.pc # "unsent" /\ o.temps = req[r].temps /\ o.files = req[r].files /\ o.way = req[r].way
    BY <1>1, <1>2 DEF RequestRecord
  <2>2. req' = [req EXCEPT ![r] = o]
    BY <1>18 DEF PutVariant
  <2> HIDE DEF o
  <2>3. Turn(r)
    BY <1>3, <2>1, <2>2
  <2>4. QED
    BY <1>0, <2>3
<1>19. CASE Fail(r)
  BY <1>0, <1>2, <1>3, <1>4, <1>5, <1>19 DEF Fail, RequestRecord
<1>20. QED
  BY <1>7, <1>8, <1>9, <1>10, <1>11, <1>12, <1>13, <1>14, <1>16, <1>17, <1>18, <1>19, <1>21, <1>22, <1>23, <1>24
     DEF InterceptorStep, OtherStep

\* Nor do requests that are lost lose anything but their place.
Gone(x) ==
    /\ req[x] # Unsent /\ req'[x] # Unsent /\ req'[x].pc = "lost"
    /\ req'[x].temps = req[x].temps /\ req'[x].files = req[x].files /\ req'[x].way = req[x].way

LEMMA Losses ==
    ASSUME Typed, Phases, Lose
    PROVE  \A x \in Requests : req'[x] = req[x] \/ Gone(x)
<1> SUFFICES ASSUME NEW x \in Requests
             PROVE  req'[x] = req[x] \/ Gone(x)
  OBVIOUS
<1>1. CASE InProgress(x)
  <2>1. req[x] # Unsent /\ req[x] \in RequestRecord
    BY <1>1, Sent DEF InProgress, Over
  <2>2. req'[x] = [req[x] EXCEPT !.pc = "lost", !.until = clock]
    BY <1>1 DEF Lose
  <2>3. QED
    BY <2>1, <2>2 DEF Gone, RequestRecord, Unsent
<1>2. CASE ~InProgress(x)
  BY <1>2 DEF Lose
<1>3. QED
  BY <1>1, <1>2

-------------------------------------------------------------------------------
(* Temporary files *)

\* A request has t to remove: multer wrote it, or it is one of those left; or
\* it was lost before it could.
Holds(o, t) ==
    \/ o.pc \in {"receive", "lost"} /\ \E j \in 1 .. Len(o.temps) : o.temps[j] = t
    \/ o.pc \in {"validate", "probe", "write", "copy", "unlink", "cleanup"} /\ t \in o.left

HeldInv == \A t \in DOMAIN temps : t \in ghost.stuck \/ \E r \in Requests : req[r] # Unsent /\ Holds(req[r], t)

LEMMA HeldStays ==
    ASSUME Typed, HeldInv, NEW r \in Requests, \A x \in Requests \ {r} : req'[x] = req[x],
           DOMAIN temps' \subseteq DOMAIN temps, ghost.stuck \subseteq ghost'.stuck,
           \A t \in DOMAIN temps' : req[r] # Unsent /\ Holds(req[r], t) =>
                                        t \in ghost'.stuck \/ (req'[r] # Unsent /\ Holds(req'[r], t))
    PROVE  HeldInv'
  BY DEF HeldInv, Holds, Unsent

LEMMA WithoutLess == \A S : DOMAIN Without(temps, S) = DOMAIN temps \ S
  BY DEF Without

\* Who is done with a temporary file has removed it.
LEMMA InterceptorHolds ==
    ASSUME Typed, Phases, HeldInv, NEW r \in Requests, InterceptorStep(r) \/ (Fail(r) /\ req[r].way = "interceptor")
    PROVE  HeldInv'
<1> DEFINE q == req[r]
<1>1. /\ \A x \in Requests \ {r} : req'[x] = req[x]
      /\ q # Unsent /\ req'[r] # Unsent /\ ghost.stuck \subseteq ghost'.stuck
      /\ req'[r].temps = q.temps
  BY Turns DEF Turn, Recorded
<1>2. q \in RequestRecord /\ Phase(q) /\ DOMAIN q.temps = 1 .. Len(q.temps) /\ r \in DOMAIN req
  <2>1. q.pc # "unsent"
    BY <1>1 DEF Typed, RequestRecord, Pcs
  <2>2. QED
    BY <2>1, Sent DEF Typed
<1>3. \A t : q.left \subseteq {q.temps[j] : j \in 1 .. Len(q.temps)}
  BY <1>2 DEF Phase
<1>4. DOMAIN temps' \subseteq DOMAIN temps
  BY WithoutLess DEF InterceptorStep, Received, MulterGivesUp, Validate, Probe, ProbeFails, OpenStream, PutStream, Unlink,
                     Cleanup, CleanupFails, End, Fail
<1>5. Fail(r) => q.way = "interceptor"
  <2>1. InterceptorStep(r) /\ q.pc \notin {"receive", "cleanup"} => q.way = "interceptor"
    BY DEF InterceptorStep, Received, MulterGivesUp, Validate, Probe, ProbeFails, OpenStream, PutStream, Unlink, Cleanup,
           CleanupFails, End, AtStep
  <2>2. Fail(r) => q.pc \notin {"receive", "cleanup"}
    BY DEF Fail
  <2>3. QED
    BY <2>1, <2>2
<1>6. ASSUME NEW t \in DOMAIN temps', Holds(q, t)
      PROVE  t \in ghost'.stuck \/ Holds(req'[r], t)
  <2>1. CASE Received(r)
    <3>1. q.pc = "receive" /\ \E j \in 1 .. Len(q.temps) : q.temps[j] = t
      BY <1>6, <2>1 DEF Received, Holds
    <3>2. q.files # <<>>
      BY <1>2, <2>1, <3>1, EmptySeq DEF Received
    <3>3. req'[r].pc = "validate" /\ req'[r].left = {q.temps[j] : j \in DOMAIN q.temps}
      BY <1>2, <2>1, <3>2 DEF Received, RequestRecord
    <3>4. QED
      BY <1>2, <3>1, <3>3 DEF Holds
  <2>2. CASE MulterGivesUp(r)
    <3>1. q.pc = "receive" /\ \E j \in 1 .. Len(q.temps) : q.temps[j] = t
      BY <1>6, <2>2 DEF MulterGivesUp, Holds
    <3> DEFINE written == {q.temps[j] : j \in DOMAIN q.temps}
    <3>2. PICK stay \in SUBSET written :
              temps' = Without(temps, written \ stay) /\ ghost' = [ghost EXCEPT !.stuck = @ \cup stay]
      BY <2>2 DEF MulterGivesUp
    <3>3. t \in written
      BY <1>2, <3>1
    <3>4. t \notin written \ stay
      BY <3>2, WithoutLess
    <3>5. ghost'.stuck = ghost.stuck \cup stay
      BY <3>2 DEF Typed, GhostSet
    <3>6. QED
      BY <3>3, <3>4, <3>5
  <2>3. CASE Validate(r) \/ Probe(r) \/ ProbeFails(r) \/ OpenStream(r) \/ PutStream(r) \/ Fail(r)
    <3>1. /\ Validate(r) => q.pc = "validate"
          /\ Probe(r) \/ ProbeFails(r) => q.pc = "probe"
          /\ OpenStream(r) => q.pc = "write"
          /\ PutStream(r) => q.pc = "copy"
      BY DEF Validate, Probe, ProbeFails, OpenStream, PutStream, AtStep
    <3>2. Fail(r) => q.pc \in {"validate", "probe", "write", "copy", "unlink"}
      <4>1. Fail(r) => q.way = "interceptor" /\ q.pc \in Pcs \ ({"receive", "cleanup"} \cup Over)
        BY <1>2, <1>5 DEF Fail, InProgress, RequestRecord
      <4>2. q.way = "interceptor" => q.pc # "name"
        BY <1>2 DEF Phase
      <4>3. QED
        BY <4>1, <4>2 DEF Pcs, Over
    <3>3. /\ Validate(r) => req'[r].pc \in {"probe", "cleanup"} /\ req'[r].left = q.left
          /\ Probe(r) => req'[r].pc \in {"probe", "write"} /\ req'[r].left = q.left
          /\ ProbeFails(r) => req'[r].pc = "write" /\ req'[r].left = q.left
      BY <1>2, <3>1 DEF Validate, Probe, ProbeFails, Step, RequestRecord
    <3>4. /\ OpenStream(r) => req'[r].pc = "copy" /\ req'[r].left = q.left
          /\ PutStream(r) => req'[r].pc = "unlink" /\ req'[r].left = q.left
          /\ Fail(r) => req'[r].pc = "cleanup" /\ req'[r].left = q.left
      BY <1>2, <1>5 DEF OpenStream, PutStream, Fail, Step, RequestRecord
    <3>5. QED
      BY <1>6, <2>3, <3>1, <3>2, <3>3, <3>4 DEF Holds
  <2>4. CASE Unlink(r)
    <3> DEFINE u == q.temps[q.i]
    <3>1. DOMAIN temps' = DOMAIN temps \ {u}
      BY <2>4, WithoutLess DEF Unlink
    <3>2. q.pc = "unlink"
      BY <2>4 DEF Unlink, AtStep
    <3>3. req'[r].pc \in {"probe", "cleanup"} /\ q.left \ {u} \subseteq req'[r].left
      BY <1>2, <2>4 DEF Unlink, RequestRecord
    <3> HIDE DEF u
    <3>4. QED
      BY <1>6, <3>1, <3>2, <3>3 DEF Holds
  <2>5. CASE Cleanup(r)
    <3>1. PICK u \in q.left : temps' = Without(temps, {u}) /\ req' = [req EXCEPT ![r].left = @ \ {u}]
      BY <2>5 DEF Cleanup
    <3>2. DOMAIN temps' = DOMAIN temps \ {u}
      BY <3>1, WithoutLess
    <3>3. q.pc = "cleanup"
      BY <2>5 DEF Cleanup
    <3>4. req'[r].pc = "cleanup" /\ req'[r].left = q.left \ {u}
      BY <1>2, <3>1, <3>3 DEF RequestRecord
    <3>5. QED
      BY <1>6, <3>2, <3>3, <3>4 DEF Holds
  <2>6. CASE End(r)
    BY <1>6, <2>6 DEF End, Holds
  <2>8. CASE CleanupFails(r)
    <3>1. PICK u \in q.left : req' = [req EXCEPT ![r].left = @ \ {u}] /\ ghost' = [ghost EXCEPT !.stuck = @ \cup {u}]
      BY <2>8 DEF CleanupFails
    <3>2. u \in ghost'.stuck
      BY <3>1 DEF Typed, GhostSet
    <3>3. q.pc = "cleanup"
      BY <2>8 DEF CleanupFails
    <3>4. req'[r].pc = "cleanup" /\ req'[r].left = q.left \ {u}
      BY <1>2, <3>1, <3>3 DEF RequestRecord
    <3>5. QED
      BY <1>6, <3>2, <3>3, <3>4 DEF Holds
  <2>7. QED
    BY <2>1, <2>2, <2>3, <2>4, <2>5, <2>6, <2>8 DEF InterceptorStep
<1>7. QED
  BY <1>1, <1>4, <1>6, HeldStays

LEMMA OthersHold ==
    ASSUME Typed, Phases, HeldInv, NEW r \in Requests, OtherStep(r) \/ (Fail(r) /\ req[r].way # "interceptor")
    PROVE  HeldInv'
<1>1. Turn(r) /\ ghost.stuck \subseteq ghost'.stuck
  BY Turns DEF Recorded
<1>2. req[r].way # "interceptor" /\ temps' = temps
  <2>1. OtherStep(r) => req[r].way \in {"direct", "image", "doc"} /\ temps' = temps
    BY DEF OtherStep, ValidateFile, NameVariant, OpenFile, PutVariant, AtStep
  <2>2. Fail(r) => temps' = temps
    BY DEF Fail
  <2>3. QED
    BY <2>1, <2>2
<1>3. req[r].temps = <<>> /\ Len(req[r].temps) = 0 /\ req[r].left = {}
  BY <1>1, <1>2, EmptySeq DEF Turn, Phases, Phase
<1>4. \A t : ~Holds(req[r], t)
  BY <1>3 DEF Holds
<1>5. QED
  BY <1>1, <1>2, <1>4, HeldStays DEF Turn

LEMMA LostHold ==
    ASSUME Typed, Phases, HeldInv, Lose, temps' = temps, ghost' = ghost
    PROVE  HeldInv'
<1> SUFFICES ASSUME NEW t \in DOMAIN temps, t \notin ghost.stuck
             PROVE  \E r \in Requests : req'[r] # Unsent /\ Holds(req'[r], t)
  BY DEF HeldInv, Holds, Unsent
<1>1. PICK r \in Requests : req[r] # Unsent /\ Holds(req[r], t)
  BY DEF HeldInv
<1>2. Phase(req[r]) /\ DOMAIN req[r].temps = 1 .. Len(req[r].temps)
  BY <1>1, Sent DEF Holds
<1>3. \E j \in 1 .. Len(req[r].temps) : req[r].temps[j] = t
  BY <1>1, <1>2 DEF Holds, Phase
<1>4. req'[r] = req[r] \/ Gone(r)
  BY Losses
<1>5. QED
  BY <1>1, <1>3, <1>4 DEF Gone, Holds

\* However requests end, the temporary directory of FileUploadInterceptor
\* holds only files of requests that are in progress or were lost, and files
\* whose removal failed.
THEOREM TempsCleaned == Spec => []TempsAreCleaned
<1>1. Init => HeldInv
  BY DEF Init, HeldInv, Nothing
<1>2. Typed /\ Phases /\ HeldInv /\ [Next]_vars => HeldInv'
  <2> SUFFICES ASSUME Typed, Phases, HeldInv, [Next]_vars
               PROVE  HeldInv'
    OBVIOUS
  <2>1. ASSUME NEW r \in Requests, NEW way \in Ways, NEW fs \in Files(way), Send(r, way, fs)
        PROVE  HeldInv'
    <3>1. /\ \A x \in Requests \ {r} : req'[x] = req[x]
          /\ req[r] = Unsent /\ temps' = temps /\ ghost'.stuck = ghost.stuck
      BY <2>1 DEF Send, Typed, GhostSet
    <3>2. QED
      BY <3>1, HeldStays
  <2>2. ASSUME NEW r \in Requests, Receive(r)
        PROVE  HeldInv'
    <3> DEFINE n == Len(req[r].temps) + 1
               t == TempName(req[r].files[n].name)
    <3>1. /\ req[r].pc = "receive" /\ req[r] # Unsent /\ req[r] \in RequestRecord /\ r \in DOMAIN req
          /\ req[r].temps \in Seq(TempSet) /\ Len(req[r].temps) \in Nat
          /\ req[r].files \in Seq(FileRecord) /\ n <= Len(req[r].files)
          /\ \A j \in 1 .. Len(req[r].files) : req[r].files[j] \in FileRecord
      BY <2>2, Sent DEF Receive, Typed
    <3>2. t \in TempSet
      <4>1. n \in 1 .. Len(req[r].files)
        BY <3>1, LenProperties
      <4>2. req[r].files[n].name \in Names
        BY <3>1, <4>1 DEF FileRecord
      <4>3. QED
        BY <4>2 DEF TempName, TempSet, Typed
    <3>3. req'[r] = [req[r] EXCEPT !.temps = Append(@, t)] /\ \A x \in Requests \ {r} : req'[x] = req[x]
      BY <2>2 DEF Receive, Typed
    <3>4. DOMAIN temps' = DOMAIN temps \cup {t} /\ ghost'.stuck = ghost.stuck
      BY <2>2 DEF Receive, With, Typed, GhostSet
    <3> HIDE DEF t
    <3> DEFINE ts == Append(req[r].temps, t)
    <3>5. Len(ts) = n /\ ts[n] = t /\ \A j \in 1 .. Len(req[r].temps) : ts[j] = req[r].temps[j]
      BY <3>1, <3>2, AppendProperties
    <3> HIDE DEF ts
    <3>6. req'[r].pc = "receive" /\ req'[r].temps = ts /\ req'[r] # Unsent
      BY <3>1, <3>3 DEF RequestRecord, Unsent, ts
    <3>7. Holds(req'[r], t) /\ \A u : Holds(req[r], u) => Holds(req'[r], u)
      <4>1. n \in 1 .. Len(ts) /\ 1 .. Len(req[r].temps) \subseteq 1 .. Len(ts)
        BY <3>1, <3>5
      <4>2. QED
        BY <3>1, <3>5, <3>6, <4>1 DEF Holds
    <3>8. ASSUME NEW u \in DOMAIN temps', u \notin ghost'.stuck
          PROVE  \E x \in Requests : req'[x] # Unsent /\ Holds(req'[x], u)
      <4>1. CASE u = t
        BY <3>6, <3>7, <4>1
      <4>2. CASE u \in DOMAIN temps
        <5>1. PICK x \in Requests : req[x] # Unsent /\ Holds(req[x], u)
          BY <3>4, <3>8, <4>2 DEF HeldInv
        <5>2. CASE x = r
          BY <3>6, <3>7, <5>1, <5>2
        <5>3. CASE x # r
          BY <3>3, <5>1, <5>3
        <5>4. QED
          BY <5>2, <5>3
      <4>3. QED
        BY <3>4, <3>8, <4>1, <4>2
    <3>9. QED
      BY <3>8 DEF HeldInv, Holds, Unsent
  <2>3. ASSUME NEW r \in Requests, InterceptorStep(r) \/ OtherStep(r) \/ Fail(r)
        PROVE  HeldInv'
    BY <2>3, InterceptorHolds, OthersHold
  <2>4. ASSUME NEW r \in Requests, StreamError(r)
        PROVE  HeldInv'
    BY <2>4, LostHold DEF StreamError
  <2>5. CASE Restart
    BY <2>5, LostHold DEF Restart
  <2>6. CASE Tick \/ UNCHANGED vars
    BY <2>6 DEF Tick, vars, HeldInv, Holds
  <2>7. QED
    BY <2>1, <2>2, <2>3, <2>4, <2>5, <2>6 DEF Next, InterceptorStep, OtherStep
<1>3. Typed /\ Phases /\ HeldInv => TempsAreCleaned
  <2> SUFFICES ASSUME Typed, Phases, HeldInv, NEW t \in DOMAIN temps, t \notin ghost.stuck
               PROVE  \E r \in Requests : /\ InProgress(r) \/ req[r].pc = "lost"
                                          /\ \E i \in DOMAIN req[r].temps : req[r].temps[i] = t
    BY DEF TempsAreCleaned
  <2>1. PICK r \in Requests : req[r] # Unsent /\ Holds(req[r], t)
    BY DEF HeldInv
  <2>2. Phase(req[r]) /\ DOMAIN req[r].temps = 1 .. Len(req[r].temps)
    BY <2>1, Sent DEF Holds
  <2>3. \E i \in DOMAIN req[r].temps : req[r].temps[i] = t
    BY <2>1, <2>2 DEF Holds, Phase
  <2>4. QED
    BY <2>1, <2>3 DEF Holds, InProgress, Over
<1>4. QED
  BY <1>1, <1>2, <1>3, TypeCorrect, PTL DEF Spec

-------------------------------------------------------------------------------
(* Temporary names *)

Ahead == {"receive", "validate", "probe", "write", "copy", "unlink"}

\* The names given so far are recorded; two files have one only if they
\* clash; and a file that is still to be stored is there, unless it clashes
\* with another one.
NamedInv == \A r \in Requests : req[r] # Unsent => \A j \in 1 .. Len(req[r].temps) : req[r].temps[j] \in ghost.named
ApartInv ==
    \A r, q \in Requests : req[r] # Unsent /\ req[q] # Unsent =>
        \A j \in 1 .. Len(req[r].temps), m \in 1 .. Len(req[q].temps) :
            req[r].temps[j] = req[q].temps[m] /\ (r # q \/ j # m) => req[r].temps[j] \in ghost.clash
ThereInv ==
    \A r \in Requests : req[r] # Unsent /\ req[r].way = "interceptor" /\ req[r].pc \in Ahead =>
        \A j \in 1 .. Len(req[r].temps) : j >= req[r].i =>
            req[r].temps[j] \in DOMAIN temps \/ req[r].temps[j] \in ghost.clash
ClashInv == NamedInv /\ ApartInv /\ ThereInv

\* A request removes its own temporary files only, those that are still to
\* be stored not before they are.
LEMMA Removes ==
    ASSUME Typed, Phases, NEW r \in Requests, InterceptorStep(r) \/ OtherStep(r) \/ Fail(r)
    PROVE  /\ DOMAIN temps' \subseteq DOMAIN temps
           /\ \A t \in DOMAIN temps' : temps'[t] = temps[t]
           /\ \A t \in DOMAIN temps \ DOMAIN temps' : \E j \in 1 .. Len(req[r].temps) : req[r].temps[j] = t
           /\ req'[r].way = "interceptor" /\ req'[r].pc \in Ahead =>
                 /\ req[r].pc \in Ahead /\ req'[r].i >= req[r].i
                 /\ \A t \in DOMAIN temps \ DOMAIN temps' : t = req[r].temps[req[r].i] /\ req'[r].i > req[r].i
<1> DEFINE q == req[r]
<1>9. req'[r].way = q.way
  BY Turns DEF Turn
<1>1. q # Unsent /\ q \in RequestRecord /\ Phase(q) /\ DOMAIN q.temps = 1 .. Len(q.temps) /\ r \in DOMAIN req
  <2>1. q # Unsent
    BY Turns DEF Turn
  <2>2. q.pc # "unsent"
    BY <2>1 DEF Typed, RequestRecord, Pcs
  <2>3. QED
    BY <2>1, <2>2, Sent DEF Typed
<1>2. q.i \in Nat \ {0}
  BY <1>1 DEF RequestRecord
<1>3. \A S : DOMAIN Without(temps, S) = DOMAIN temps \ S /\ \A t \in DOMAIN temps \ S : Without(temps, S)[t] = temps[t]
  BY DEF Without
<1>4. CASE MulterGivesUp(r)
  <2> DEFINE S == {q.temps[j] : j \in DOMAIN q.temps}
  <2>0. PICK stay \in SUBSET S : temps' = Without(temps, S \ stay)
    BY <1>4 DEF MulterGivesUp
  <2> DEFINE T == S \ stay
  <2>1. temps' = Without(temps, T) /\ T \subseteq S
    BY <2>0
  <2>2. req'[r].pc = "rejected"
    BY <1>1, <1>4 DEF MulterGivesUp, Finish, RequestRecord
  <2> HIDE DEF T
  <2>3. DOMAIN temps' = DOMAIN temps \ T /\ \A t \in DOMAIN temps' : temps'[t] = temps[t]
    BY <1>3, <2>1
  <2>4. QED
    BY <1>1, <2>1, <2>2, <2>3 DEF Ahead
<1>5. CASE Unlink(r)
  <2> DEFINE u == q.temps[q.i]
  <2>1. temps' = Without(temps, {u}) /\ q.pc = "unlink" /\ q.way = "interceptor"
    BY <1>5 DEF Unlink, AtStep
  <2>2. DOMAIN temps' = DOMAIN temps \ {u} /\ \A t \in DOMAIN temps' : temps'[t] = temps[t]
    BY <1>3, <2>1
  <2>3. q.i \in 1 .. Len(q.temps)
    BY <1>1, <1>2, <2>1 DEF Phase
  <2>4. req'[r].pc \in Ahead => req'[r].i = q.i + 1
    BY <1>1, <1>5 DEF Unlink, RequestRecord, Ahead
  <2>5. q.temps[q.i] = u /\ q.pc \in Ahead
    BY <2>1 DEF Ahead
  <2> HIDE DEF u
  <2>6. \A t \in DOMAIN temps \ DOMAIN temps' : t = u
    BY <2>2
  <2>7. q.i + 1 > q.i /\ q.i + 1 >= q.i
    BY <1>2
  <2>8. QED
    BY <2>2, <2>3, <2>4, <2>5, <2>6, <2>7
<1>6. CASE Cleanup(r)
  <2>1. PICK u \in q.left : temps' = Without(temps, {u}) /\ req' = [req EXCEPT ![r].left = @ \ {u}]
    BY <1>6 DEF Cleanup
  <2>2. DOMAIN temps' = DOMAIN temps \ {u} /\ \A t \in DOMAIN temps' : temps'[t] = temps[t]
    BY <1>3, <2>1
  <2>3. req'[r].pc = "cleanup"
    BY <1>1, <1>6, <2>1 DEF Cleanup, RequestRecord
  <2>4. \E j \in 1 .. Len(q.temps) : q.temps[j] = u
    BY <1>1 DEF Phase
  <2>5. QED
    BY <2>2, <2>3, <2>4 DEF Ahead
<1>7. CASE ~(MulterGivesUp(r) \/ Unlink(r) \/ Cleanup(r))
  <2>1. temps' = temps
    BY <1>7 DEF InterceptorStep, OtherStep, Received, Validate, Probe, ProbeFails, OpenStream, PutStream, CleanupFails, End,
                ValidateFile, NameVariant, OpenFile, PutVariant, Fail
  <2>2. Received(r) \/ Validate(r) \/ Probe(r) \/ ProbeFails(r) \/ OpenStream(r) \/ PutStream(r) =>
            q.pc \in Ahead /\ req'[r].i = q.i
    BY <1>1 DEF Received, Validate, Probe, ProbeFails, OpenStream, PutStream, Finish, Step, AtStep, RequestRecord, Ahead
  <2>7. CleanupFails(r) => req'[r].pc \notin Ahead
    BY <1>1 DEF CleanupFails, RequestRecord, Ahead
  <2>3. End(r) => req'[r].pc \notin Ahead
    BY <1>1 DEF End, Finish, RequestRecord, Ahead
  <2>4. OtherStep(r) => req'[r].way # "interceptor"
    BY <1>9 DEF OtherStep, ValidateFile, NameVariant, OpenFile, PutVariant, AtStep
  <2>5. Fail(r) => req'[r].pc \notin Ahead
    <3>1. Fail(r) /\ q.way = "interceptor" => req'[r].pc = "cleanup"
      BY <1>1 DEF Fail, RequestRecord
    <3>2. Fail(r) /\ q.way # "interceptor" => req'[r].pc = "failed"
      BY <1>1 DEF Fail, Finish, RequestRecord
    <3>3. QED
      BY <3>1, <3>2 DEF Ahead
  <2>6. QED
    BY <1>2, <1>7, <2>1, <2>2, <2>3, <2>4, <2>5, <2>7 DEF InterceptorStep
<1>8. QED
  BY <1>4, <1>5, <1>6, <1>7

LEMMA TurnClash ==
    ASSUME Typed, Phases, ClashInv, NEW r \in Requests, InterceptorStep(r) \/ OtherStep(r) \/ Fail(r)
    PROVE  ClashInv'
<1>1. /\ \A x \in Requests \ {r} : req'[x] = req[x]
      /\ req[r] # Unsent /\ req'[r] # Unsent /\ req'[r].temps = req[r].temps /\ req'[r].way = req[r].way
      /\ ghost'.named = ghost.named /\ ghost'.clash = ghost.clash
  BY Turns DEF Turn, Recorded
<1>2. \A x \in Requests : req'[x] # Unsent => req[x] # Unsent /\ req'[x].temps = req[x].temps /\ req'[x].way = req[x].way
  BY <1>1
<1>3. NamedInv' /\ ApartInv'
  BY <1>1, <1>2 DEF ClashInv, NamedInv, ApartInv, Unsent
<1>4. ASSUME NEW x \in Requests, req'[x] # Unsent, req'[x].way = "interceptor", req'[x].pc \in Ahead,
             NEW j \in 1 .. Len(req'[x].temps), j >= req'[x].i
      PROVE  req'[x].temps[j] \in DOMAIN temps' \/ req'[x].temps[j] \in ghost'.clash
  <2> DEFINE t == req[x].temps[j]
  <2>1. req[x] # Unsent /\ req'[x].temps = req[x].temps /\ j \in 1 .. Len(req[x].temps)
    BY <1>2, <1>4
  <2>2. req[x].pc \in Ahead /\ j >= req[x].i /\ req[x].i \in Nat /\ req'[x].i \in Nat
    <3>1. req[x].i \in Nat /\ req'[x].i \in Nat /\ Len(req[x].temps) \in Nat
      <4>1. Typed'
        BY NextTyped DEF Next, InterceptorStep, OtherStep
      <4>2. req[x] \in RequestRecord /\ req'[x] \in RequestRecord
        BY <1>4, <2>1, <4>1 DEF Typed, Unsent
      <4>3. QED
        BY <4>2, LenProperties DEF RequestRecord, TempSeqs
    <3>2. CASE x = r
      BY <1>4, <3>1, <3>2, Removes
    <3>3. CASE x # r
      BY <1>1, <1>4, <3>1, <3>3
    <3>4. QED
      BY <3>2, <3>3
  <2>3. t \in DOMAIN temps \/ t \in ghost.clash
    BY <1>2, <1>4, <2>1, <2>2 DEF ClashInv, ThereInv
  <2>4. CASE t \in DOMAIN temps /\ t \notin DOMAIN temps'
    <3>1. PICK m \in 1 .. Len(req[r].temps) : req[r].temps[m] = t
      BY <2>4, Removes
    <3>2. CASE x = r
      <4>1. t = req[r].temps[req[r].i] /\ req'[r].i > req[r].i
        BY <1>4, <2>4, <3>2, Removes
      <4>2. req[r].i \in 1 .. Len(req[r].temps) /\ req[r].i # j
        <5>1. req[r].i \in Nat \ {0}
          BY <1>1 DEF Typed, RequestRecord
        <5>2. j > req[r].i /\ j <= Len(req[r].temps) /\ Len(req[r].temps) \in Nat
          BY <1>4, <2>1, <2>2, <3>2, <4>1
        <5>3. QED
          BY <5>1, <5>2
      <4>3. QED
        BY <1>1, <2>1, <3>2, <4>1, <4>2 DEF ClashInv, ApartInv
    <3>3. CASE x # r
      BY <1>1, <2>1, <3>1, <3>3 DEF ClashInv, ApartInv
    <3>4. QED
      BY <3>2, <3>3
  <2>5. QED
    BY <1>1, <2>1, <2>3, <2>4
<1>5. ThereInv'
  BY <1>4 DEF ThereInv, Unsent, Ahead
<1>6. QED
  BY <1>3, <1>5 DEF ClashInv

\* A file is received: its name is new, or clashes.
LEMMA ReceiveClash ==
    ASSUME Typed, Phases, ClashInv, NEW r \in Requests, Receive(r)
    PROVE  ClashInv'
<1> DEFINE n == Len(req[r].temps) + 1
           t == TempName(req[r].files[n].name)
           ts == Append(req[r].temps, t)
<1>1. /\ req[r].pc = "receive" /\ req[r] # Unsent /\ req[r] \in RequestRecord /\ r \in DOMAIN req
      /\ req[r].temps \in Seq(TempSet) /\ Len(req[r].temps) \in Nat
      /\ req[r].files \in Seq(FileRecord) /\ n <= Len(req[r].files) /\ Len(req[r].files) \in Nat
      /\ \A j \in 1 .. Len(req[r].files) : req[r].files[j] \in FileRecord
  BY Sent DEF Receive, Typed
<1>2. t \in TempSet /\ t = <<clock, req[r].files[n].name>>
  <2>1. n \in 1 .. Len(req[r].files)
    BY <1>1
  <2>2. req[r].files[n].name \in Names
    BY <1>1, <2>1 DEF FileRecord
  <2>3. QED
    BY <2>2 DEF TempName, TempSet, Typed
<1>3. req'[r] = [req[r] EXCEPT !.temps = Append(@, t)] /\ \A x \in Requests \ {r} : req'[x] = req[x]
  BY DEF Receive, Typed
<1>4. DOMAIN temps' = DOMAIN temps \cup {t}
  BY DEF Receive, With
<1>5. /\ ghost'.named = ghost.named \cup {t}
      /\ ghost'.clash = IF t \in ghost.named THEN ghost.clash \cup {t} ELSE ghost.clash
  BY <1>2 DEF Receive, Typed, GhostSet
<1> HIDE DEF t
<1>6. Len(ts) = n /\ ts[n] = t /\ \A j \in 1 .. Len(req[r].temps) : ts[j] = req[r].temps[j]
  BY <1>1, <1>2, AppendProperties
<1> HIDE DEF ts
<1>7. req'[r].pc = "receive" /\ req'[r].temps = ts /\ req'[r] # Unsent /\ req'[r].i = req[r].i /\ req'[r].way = req[r].way
  BY <1>1, <1>3 DEF RequestRecord, Unsent, ts
<1>8. \A j \in 1 .. Len(ts) : j \in 1 .. Len(req[r].temps) \/ j = n
  BY <1>1, <1>6
<1>9. ASSUME NEW x \in Requests, req'[x] # Unsent, NEW j \in 1 .. Len(req'[x].temps)
      PROVE  \/ x = r /\ j = n /\ req'[x].temps[j] = t
             \/ req[x] # Unsent /\ j \in 1 .. Len(req[x].temps) /\ req'[x].temps[j] = req[x].temps[j]
                 /\ ~(x = r /\ j = n)
  <2>1. CASE x = r
    <3>1. j \in 1 .. Len(req[r].temps) => j # n
      BY <1>1
    <3>2. QED
      BY <1>1, <1>6, <1>7, <1>8, <1>9, <2>1, <3>1
  <2>2. CASE x # r
    BY <1>3, <1>9, <2>2
  <2>3. QED
    BY <2>1, <2>2
<1>10. NamedInv'
  BY <1>5, <1>9 DEF ClashInv, NamedInv, Unsent
<1>11. ApartInv'
  <2> SUFFICES ASSUME NEW x \in Requests, NEW y \in Requests, req'[x] # Unsent, req'[y] # Unsent,
                      NEW j \in 1 .. Len(req'[x].temps), NEW m \in 1 .. Len(req'[y].temps),
                      req'[x].temps[j] = req'[y].temps[m], x # y \/ j # m
               PROVE  req'[x].temps[j] \in ghost'.clash
    BY DEF ApartInv, Unsent
  <2>1. \A z \in Requests : \A k \in 1 .. Len(req[z].temps) : req[z] # Unsent => req[z].temps[k] \in ghost.named
    BY DEF ClashInv, NamedInv
  <2>2. CASE x = r /\ j = n
    BY <1>5, <1>9, <2>1, <2>2
  <2>3. CASE y = r /\ m = n
    BY <1>5, <1>9, <2>1, <2>3
  <2>4. CASE ~(x = r /\ j = n) /\ ~(y = r /\ m = n)
    BY <1>5, <1>9, <2>4 DEF ClashInv, ApartInv
  <2>5. QED
    BY <2>2, <2>3, <2>4
<1>12. ThereInv'
  <2> SUFFICES ASSUME NEW x \in Requests, req'[x] # Unsent, req'[x].way = "interceptor", req'[x].pc \in Ahead,
                      NEW j \in 1 .. Len(req'[x].temps), j >= req'[x].i
               PROVE  req'[x].temps[j] \in DOMAIN temps' \/ req'[x].temps[j] \in ghost'.clash
    BY DEF ThereInv, Unsent, Ahead
  <2>1. CASE x = r /\ j = n
    BY <1>4, <1>9, <2>1
  <2>2. CASE ~(x = r /\ j = n)
    <3>1. req[x] # Unsent /\ j \in 1 .. Len(req[x].temps) /\ req'[x].temps[j] = req[x].temps[j]
      BY <1>9, <2>2
    <3>2. req[x].pc \in Ahead /\ j >= req[x].i /\ req[x].way = "interceptor"
      BY <1>1, <1>3, <1>7 DEF Ahead
    <3>3. QED
      BY <1>4, <1>5, <3>1, <3>2 DEF ClashInv, ThereInv
  <2>3. QED
    BY <2>1, <2>2
<1>14. QED
  BY <1>10, <1>11, <1>12 DEF ClashInv

\* The requests in progress are lost.
LEMMA LoseClash ==
    ASSUME Typed, Phases, ClashInv, Lose, temps' = temps, ghost' = ghost
    PROVE  ClashInv'
<1>1. \A x \in Requests : req'[x] = req[x] \/ (req[x] # Unsent /\ req'[x].pc = "lost" /\ req'[x].temps = req[x].temps)
  BY Losses DEF Gone
<1>2. \A x \in Requests : req'[x] # Unsent => req[x] # Unsent /\ req'[x].temps = req[x].temps
  BY <1>1
<1>3. NamedInv' /\ ApartInv'
  BY <1>2 DEF ClashInv, NamedInv, ApartInv, Unsent
<1>4. ThereInv'
  BY <1>1 DEF ClashInv, ThereInv, Ahead, Unsent
<1>5. QED
  BY <1>3, <1>4 DEF ClashInv

\* A request is sent; it has no temporary files yet.
LEMMA SendClash ==
    ASSUME Typed, Phases, ClashInv, NEW r \in Requests, NEW way \in Ways, NEW fs \in Files(way), Send(r, way, fs)
    PROVE  ClashInv'
<1>1. /\ \A x \in Requests \ {r} : req'[x] = req[x]
      /\ req'[r].temps = <<>> /\ Len(req'[r].temps) = 0
  BY EmptySeq DEF Send, Typed
<1>2. temps' = temps /\ ghost'.named = ghost.named /\ ghost'.clash = ghost.clash
  BY DEF Send, Typed, GhostSet
<1>3. \A x \in Requests : req'[x] # Unsent => \A j \in 1 .. Len(req'[x].temps) : x # r /\ req'[x] = req[x]
  BY <1>1
<1>4. QED
  BY <1>2, <1>3 DEF ClashInv, NamedInv, ApartInv, ThereInv, Unsent, Ahead

THEOREM ClashesCorrect == Spec => []ClashInv
<1>1. Init => ClashInv
  BY DEF Init, ClashInv, NamedInv, ApartInv, ThereInv
<1>2. Typed /\ Phases /\ ClashInv /\ [Next]_vars => ClashInv'
  <2> SUFFICES ASSUME Typed, Phases, ClashInv, [Next]_vars
               PROVE  ClashInv'
    OBVIOUS
  <2>1. ASSUME NEW r \in Requests, StreamError(r)
        PROVE  ClashInv'
    BY <2>1, LoseClash DEF StreamError
  <2>2. CASE Restart
    BY <2>2, LoseClash DEF Restart
  <2>3. CASE Tick \/ UNCHANGED vars
    BY <2>3 DEF Tick, vars, ClashInv, NamedInv, ApartInv, ThereInv, Unsent, Ahead
  <2>4. QED
    BY <2>1, <2>2, <2>3, SendClash, ReceiveClash, TurnClash DEF Next, InterceptorStep, OtherStep
<1>3. QED
  BY <1>1, <1>2, TypeCorrect, PTL DEF Spec

\* While FileUploadInterceptor still has to store a temporary file, the file
\* is there: nobody removes it, unless within one millisecond two files came
\* under one name.
THEOREM FilesAreThere == Spec => []FilesToStoreAreThere
<1>1. Typed /\ Phases /\ ClashInv => FilesToStoreAreThere
  <2> SUFFICES ASSUME Typed, Phases, ClashInv, NEW r \in Requests, req[r].pc \in {"receive", "validate", "probe", "write"},
                      NEW j \in DOMAIN req[r].temps, j >= req[r].i
               PROVE  req[r].temps[j] \in DOMAIN temps \/ req[r].temps[j] \in ghost.clash
    BY DEF FilesToStoreAreThere
  <2>1. req[r] # Unsent /\ Phase(req[r]) /\ DOMAIN req[r].temps = 1 .. Len(req[r].temps)
    BY Sent
  <2>2. req[r].way = "interceptor"
    BY <2>1, EmptySeq DEF Phase
  <2>3. QED
    BY <2>1, <2>2 DEF ClashInv, ThereInv, Ahead
<1>2. QED
  BY <1>1, ClashesCorrect, TypeCorrect, PTL

-------------------------------------------------------------------------------
(* Where bytes come from *)

\* A temporary file has the name of its upload in its own, and its content
\* tells which upload it is.
TracedInv ==
    /\ \A r \in Requests : req[r] # Unsent =>
          \A j \in 1 .. Len(req[r].temps) : req[r].temps[j][2] = req[r].files[j].name
    /\ \A t \in DOMAIN temps :
          LET q == temps[t][1]  j == temps[t][2] IN
          req[q] # Unsent /\ j \in 1 .. Len(req[q].temps) /\ req[q].temps[j] = t

\* A step that names no temporary file.
LEMMA TracedStays ==
    ASSUME Typed, TracedInv, DOMAIN temps' \subseteq DOMAIN temps, \A t \in DOMAIN temps' : temps'[t] = temps[t],
           \A x \in Requests : req[x] # Unsent =>
               req'[x] # Unsent /\ req'[x].temps = req[x].temps /\ req'[x].files = req[x].files,
           \A x \in Requests : req[x] = Unsent /\ req'[x] # Unsent => Len(req'[x].temps) = 0
    PROVE  TracedInv'
<1>1. \A x \in Requests : req'[x] # Unsent =>
          \A j \in 1 .. Len(req'[x].temps) : req'[x].temps[j][2] = req'[x].files[j].name
  <2> SUFFICES ASSUME NEW x \in Requests, req'[x] # Unsent, NEW j \in 1 .. Len(req'[x].temps)
               PROVE  req'[x].temps[j][2] = req'[x].files[j].name
    OBVIOUS
  <2>1. CASE req[x] = Unsent
    BY <2>1
  <2>2. CASE req[x] # Unsent
    BY <2>2 DEF TracedInv
  <2>3. QED
    BY <2>1, <2>2
<1>2. ASSUME NEW t \in DOMAIN temps'
      PROVE  LET q == temps'[t][1]  j == temps'[t][2] IN
             req'[q] # Unsent /\ j \in 1 .. Len(req'[q].temps) /\ req'[q].temps[j] = t
  <2> DEFINE q == temps[t][1]  j == temps[t][2]
  <2>1. t \in DOMAIN temps /\ temps'[t] = temps[t] /\ q \in Requests
    BY DEF Typed, Content
  <2>2. req[q] # Unsent /\ j \in 1 .. Len(req[q].temps) /\ req[q].temps[j] = t
    BY <2>1 DEF TracedInv
  <2>3. req'[q] # Unsent /\ req'[q].temps = req[q].temps
    BY <2>1, <2>2
  <2>4. QED
    BY <2>1, <2>2, <2>3
<1>3. QED
  BY <1>1, <1>2 DEF TracedInv, Unsent

LEMMA ReceiveTraced ==
    ASSUME Typed, Phases, TracedInv, NEW r \in Requests, Receive(r)
    PROVE  TracedInv'
<1> DEFINE n == Len(req[r].temps) + 1
           t == TempName(req[r].files[n].name)
           ts == Append(req[r].temps, t)
<1>1. /\ req[r].pc = "receive" /\ req[r] # Unsent /\ req[r] \in RequestRecord /\ r \in DOMAIN req
      /\ req[r].temps \in Seq(TempSet) /\ Len(req[r].temps) \in Nat
      /\ req[r].files \in Seq(FileRecord) /\ n <= Len(req[r].files) /\ Len(req[r].files) \in Nat
      /\ \A j \in 1 .. Len(req[r].files) : req[r].files[j] \in FileRecord
  BY Sent DEF Receive, Typed
<1>2. t \in TempSet /\ t[2] = req[r].files[n].name
  <2>1. n \in 1 .. Len(req[r].files)
    BY <1>1
  <2>2. req[r].files[n].name \in Names
    BY <1>1, <2>1 DEF FileRecord
  <2>3. QED
    BY <2>2 DEF TempName, TempSet, Typed
<1>3. req'[r] = [req[r] EXCEPT !.temps = Append(@, t)] /\ \A x \in Requests \ {r} : req'[x] = req[x]
  BY DEF Receive, Typed
<1>4. /\ DOMAIN temps' = DOMAIN temps \cup {t} /\ temps'[t] = <<r, n>>
      /\ \A u \in DOMAIN temps : u # t => temps'[u] = temps[u]
  BY DEF Receive, With
<1> HIDE DEF t
<1>5. Len(ts) = n /\ ts[n] = t /\ \A j \in 1 .. Len(req[r].temps) : ts[j] = req[r].temps[j]
  BY <1>1, <1>2, AppendProperties
<1> HIDE DEF ts
<1>6. req'[r].temps = ts /\ req'[r] # Unsent /\ req'[r].files = req[r].files
  BY <1>1, <1>3 DEF RequestRecord, Unsent, ts
<1>7. (\A j \in 1 .. Len(ts) : j \in 1 .. Len(req[r].temps) \/ j = n) /\ n \in 1 .. Len(ts)
      /\ \A j \in 1 .. Len(req[r].temps) : j \in 1 .. Len(ts)
  BY <1>1, <1>5
<1>8. ASSUME NEW x \in Requests, req'[x] # Unsent, NEW j \in 1 .. Len(req'[x].temps)
      PROVE  req'[x].temps[j][2] = req'[x].files[j].name
  <2>1. CASE x # r
    BY <1>3, <1>8, <2>1 DEF TracedInv
  <2>2. CASE x = r /\ j = n
    BY <1>2, <1>5, <1>6, <2>2
  <2>3. CASE x = r /\ j # n
    <3>1. j \in 1 .. Len(req[r].temps)
      BY <1>6, <1>7, <1>8, <2>3
    <3>2. QED
      BY <1>1, <1>5, <1>6, <2>3, <3>1 DEF TracedInv
  <2>4. QED
    BY <2>1, <2>2, <2>3
<1>9. ASSUME NEW u \in DOMAIN temps'
      PROVE  LET q == temps'[u][1]  j == temps'[u][2] IN
             req'[q] # Unsent /\ j \in 1 .. Len(req'[q].temps) /\ req'[q].temps[j] = u
  <2>1. CASE u = t
    BY <1>4, <1>5, <1>6, <1>7, <2>1
  <2>2. CASE u # t
    <3> DEFINE q == temps[u][1]  j == temps[u][2]
    <3>1. u \in DOMAIN temps /\ temps'[u] = temps[u] /\ q \in Requests
      BY <1>4, <2>2 DEF Typed, Content
    <3>2. req[q] # Unsent /\ j \in 1 .. Len(req[q].temps) /\ req[q].temps[j] = u
      BY <3>1 DEF TracedInv
    <3> HIDE DEF q, j
    <3>3. CASE q = r
      BY <1>5, <1>6, <1>7, <3>1, <3>2, <3>3 DEF q, j
    <3>4. CASE q # r
      BY <1>3, <3>1, <3>2, <3>4 DEF q, j
    <3>5. QED
      BY <3>3, <3>4
  <2>3. QED
    BY <2>1, <2>2
<1>10. QED
  BY <1>8, <1>9 DEF TracedInv, Unsent

THEOREM TempsTraced == Spec => []TracedInv
<1>1. Init => TracedInv
  BY DEF Init, TracedInv, Nothing
<1>2. Typed /\ Phases /\ TracedInv /\ [Next]_vars => TracedInv'
  <2> SUFFICES ASSUME Typed, Phases, TracedInv, [Next]_vars
               PROVE  TracedInv'
    OBVIOUS
  <2>1. ASSUME NEW r \in Requests, NEW way \in Ways, NEW fs \in Files(way), Send(r, way, fs)
        PROVE  TracedInv'
    <3>1. /\ \A x \in Requests \ {r} : req'[x] = req[x]
          /\ req[r] = Unsent /\ Len(req'[r].temps) = 0 /\ temps' = temps
      BY <2>1, EmptySeq DEF Send, Typed
    <3>2. QED
      BY <3>1, TracedStays
  <2>2. ASSUME NEW r \in Requests, InterceptorStep(r) \/ OtherStep(r) \/ Fail(r)
        PROVE  TracedInv'
    <3>1. Turn(r) /\ DOMAIN temps' \subseteq DOMAIN temps /\ \A t \in DOMAIN temps' : temps'[t] = temps[t]
      BY <2>2, Turns, Removes
    <3>2. QED
      BY <3>1, TracedStays DEF Turn
  <2>3. ASSUME Lose, temps' = temps
        PROVE  TracedInv'
    <3>1. \A x \in Requests : req'[x] = req[x] \/ Gone(x)
      BY <2>3, Losses
    <3>2. QED
      BY <2>3, <3>1, TracedStays DEF Gone
  <2>4. CASE Restart \/ \E r \in Requests : StreamError(r)
    BY <2>3, <2>4 DEF Restart, StreamError
  <2>5. CASE Tick \/ UNCHANGED vars
    BY <2>5 DEF Tick, vars, TracedInv
  <2>6. QED
    BY <2>1, <2>2, <2>4, <2>5, ReceiveTraced DEF Next, InterceptorStep, OtherStep
<1>3. QED
  BY <1>1, <1>2, TypeCorrect, PTL DEF Spec

-------------------------------------------------------------------------------
(* Which files of the disk are whose *)

Storing == {"probe", "write", "copy", "unlink", "name"}

\* Once the rules were looked at all files obey them; nobody is rejected later.
Obeys(o) ==
    /\ o.way = "direct" \/ o.pc \in Storing => \A j \in 1 .. Len(o.files) : o.files[j].ok
    /\ o.pc \in Storing \cup {"receive", "validate"} => o.then # "rejected"

Lists(o, r, i) == \E s \in o.stored : s.by = <<r, i>>

\* The i-th file of the request r, which is o, is on the disk rightly.
Claims(o, r, i) ==
    /\ i \in 1 .. Len(o.files) /\ o.files[i].ok
    /\ o.pc \notin {"receive", "validate", "rejected"}
    /\ o.pc \in {"probe", "write", "copy", "name", "answered"} => Lists(o, r, i)
    /\ o.pc = "unlink" => i = o.i \/ Lists(o, r, i)
    /\ o.pc = "cleanup" => o.then # "rejected" /\ (o.then = "answered" => Lists(o, r, i))

\* It has opened the file p and not written it, or will not come to that.
HalfAt(o, p) ==
    /\ \A j \in 1 .. Len(o.files) : o.files[j].ok
    /\ \/ o.pc = "copy" /\ o.path = p
       \/ o.pc \in {"failed", "lost"} \/ (o.pc = "cleanup" /\ o.then = "failed")

\* One of its files has a name that was given to two temporary files.
Clouded(r) == \E t \in ghost.clash : \E j \in 1 .. Len(req[r].files) : req[r].files[j].name = t[2]

Rightful(p, x) ==
    /\ req[x[1]] # Unsent
    /\ Clouded(x[1]) \/ Claims(req[x[1]], x[1], x[2]) \/ (x[2] = 0 /\ HalfAt(req[x[1]], p))

\* The bytes that a request is about to write are its own, or of one of those.
Loads(r) ==
    \/ req[r].bytes = <<r, req[r].i>>
    \/ req[req[r].bytes[1]] # Unsent /\ Clouded(req[r].bytes[1])

ClaimInv ==
    /\ \A r \in Requests : req[r] # Unsent => Obeys(req[r])
    /\ \A r \in Requests : req[r] # Unsent /\ req[r].pc = "copy" => Loads(r)
    /\ \A p \in DOMAIN disk : Rightful(p, disk[p])

\* What a step of a request writes on the disk.
Writes(r) ==
    LET q == req[r] IN
    \/ disk' = disk /\ req'[r].pc # "copy" /\ (q.pc # "copy" \/ Fail(r))
    \/ /\ q.pc = "write" /\ disk' = With(disk, q.path, Half(r))
       /\ req'[r].pc = "copy" /\ req'[r].path = q.path /\ req'[r].i = q.i
       /\ \/ q.way # "interceptor" /\ req'[r].bytes = <<r, q.i>>
          \/ q.way = "interceptor" /\ q.temps[q.i] \in DOMAIN temps /\ req'[r].bytes = temps[q.temps[q.i]]
    \/ q.pc = "copy" /\ disk' = With(disk, q.path, q.bytes) /\ req'[r].pc # "copy"

LEMMA WritesSo ==
    ASSUME Typed, Phases, NEW r \in Requests, InterceptorStep(r) \/ OtherStep(r) \/ Fail(r)
    PROVE  Writes(r)
<1> DEFINE q == req[r]
<1>1. q \in RequestRecord /\ Phase(q) /\ r \in DOMAIN req
  <2>1. q # Unsent
    BY Turns DEF Turn
  <2>2. QED
    BY <2>1 DEF Typed, Phases
<1>2. q.then # "copy"
  BY <1>1 DEF RequestRecord
<1>3. CASE OpenStream(r)
  <2>1. req'[r] = [q EXCEPT !.pc = "copy", !.bytes = temps[q.temps[q.i]]]
    BY <1>1, <1>3 DEF OpenStream
  <2>2. q.pc = "write" /\ q.way = "interceptor" /\ q.temps[q.i] \in DOMAIN temps /\ disk' = With(disk, q.path, Half(r))
    BY <1>3 DEF OpenStream, AtStep
  <2>3. req'[r].pc = "copy" /\ req'[r].path = q.path /\ req'[r].i = q.i /\ req'[r].bytes = temps[q.temps[q.i]]
    BY <1>1, <2>1 DEF RequestRecord
  <2>4. QED
    BY <2>2, <2>3 DEF Writes
<1>4. CASE OpenFile(r)
  <2>1. req'[r] = [q EXCEPT !.pc = "copy", !.bytes = <<r, q.i>>]
    BY <1>1, <1>4 DEF OpenFile
  <2>2. q.pc = "write" /\ q.way # "interceptor" /\ disk' = With(disk, q.path, Half(r))
    BY <1>4 DEF OpenFile, AtStep
  <2>3. req'[r].pc = "copy" /\ req'[r].path = q.path /\ req'[r].i = q.i /\ req'[r].bytes = <<r, q.i>>
    BY <1>1, <2>1 DEF RequestRecord
  <2>4. QED
    BY <2>2, <2>3 DEF Writes
<1>5. CASE PutStream(r)
  <2>1. q.pc = "copy" /\ disk' = With(disk, q.path, q.bytes) /\ req'[r].pc = "unlink"
    BY <1>1, <1>5 DEF PutStream, AtStep, Step, RequestRecord
  <2>2. QED
    BY <2>1 DEF Writes
<1>6. CASE PutVariant(r)
  <2>1. q.pc = "copy" /\ disk' = With(disk, q.path, q.bytes) /\ req'[r].pc \in {"answered", "name"}
    BY <1>1, <1>6 DEF PutVariant, AtStep, RequestRecord
  <2>2. QED
    BY <2>1 DEF Writes
<1>7. CASE Fail(r)
  <2>1. req'[r].pc \in {"cleanup", "failed"}
    BY <1>1, <1>7 DEF Fail, Finish, RequestRecord
  <2>2. disk' = disk \/ (q.pc = "copy" /\ disk' = With(disk, q.path, q.bytes))
    BY <1>7 DEF Fail
  <2>3. QED
    BY <1>7, <2>1, <2>2 DEF Writes
<1>8. CASE Received(r) \/ MulterGivesUp(r) \/ End(r)
  <2>1. disk' = disk /\ q.pc \in {"receive", "cleanup"}
    BY <1>8 DEF Received, MulterGivesUp, End
  <2>2. req'[r].pc # "copy"
    BY <1>1, <1>2, <1>8 DEF Received, MulterGivesUp, End, Finish, RequestRecord
  <2>3. QED
    BY <2>1, <2>2 DEF Writes
<1>9. CASE Validate(r) \/ Probe(r) \/ ProbeFails(r) \/ Unlink(r) \/ Cleanup(r) \/ CleanupFails(r) \/ ValidateFile(r) \/ NameVariant(r)
  <2>1. disk' = disk
    BY <1>9 DEF Validate, Probe, ProbeFails, Unlink, Cleanup, CleanupFails, ValidateFile, NameVariant
  <2>2. q.pc # "copy"
    BY <1>9 DEF Validate, Probe, ProbeFails, Unlink, Cleanup, CleanupFails, ValidateFile, NameVariant, AtStep
  <2>3. req'[r].pc # "copy"
    <3>1. Validate(r) \/ Probe(r) \/ ProbeFails(r) => req'[r].pc # "copy"
      BY <1>1 DEF Validate, Probe, ProbeFails, Step, AtStep, RequestRecord
    <3>2. Unlink(r) => req'[r].pc # "copy"
      BY <1>1 DEF Unlink, RequestRecord
    <3>3. Cleanup(r) \/ CleanupFails(r) => req'[r].pc # "copy"
      BY <1>1 DEF Cleanup, CleanupFails, RequestRecord
    <3>4. ValidateFile(r) \/ NameVariant(r) => req'[r].pc # "copy"
      BY <1>1 DEF ValidateFile, NameVariant, Step, Finish, RequestRecord
    <3>5. QED
      BY <1>9, <3>1, <3>2, <3>3, <3>4
  <2>4. QED
    BY <2>1, <2>2, <2>3 DEF Writes
<1>10. QED
  BY <1>3, <1>4, <1>5, <1>6, <1>7, <1>8, <1>9 DEF InterceptorStep, OtherStep

\* The step of a request: what it claimed it still claims, and what it puts.
LEMMA InterceptorClaims ==
    ASSUME Typed, Phases, NEW r \in Requests, InterceptorStep(r), Obeys(req[r])
    PROVE  /\ Obeys(req'[r]) /\ \A i : Claims(req[r], r, i) => Claims(req'[r], r, i)
           /\ req[r].pc = "copy" => Claims(req'[r], r, req[r].i)
           /\ req[r].pc # "copy" => \A p : HalfAt(req[r], p) => HalfAt(req'[r], p)
<1> DEFINE q == req[r]
<1>1. /\ q # Unsent /\ q \in RequestRecord /\ Phase(q) /\ r \in DOMAIN req
      /\ Len(q.files) \in Nat /\ q.i \in Nat \ {0}
  <2>1. q # Unsent
    BY Turns DEF Turn
  <2>2. q.pc # "unsent"
    BY <2>1 DEF Typed, RequestRecord, Pcs
  <2>3. QED
    BY <2>1, <2>2, Sent DEF Typed, RequestRecord
<1>2. \A o \in RequestRecord : DOMAIN o.files = 1 .. Len(o.files)
  BY DEF RequestRecord, FileSeqs
<1> HIDE DEF q
<1>3. \A o : req' = [req EXCEPT ![r] = o] => req'[r] = o
  BY <1>1
<1>4. ASSUME Finish(r, "answered") \/ Finish(r, "rejected") \/ Finish(r, q.then), q.pc \in {"receive", "cleanup"},
             q.pc = "receive" => Finish(r, "answered") \/ Finish(r, "rejected"),
             q.pc = "cleanup" => Finish(r, q.then)
      PROVE  /\ Obeys(req'[r]) /\ \A i : Claims(q, r, i) => Claims(req'[r], r, i)
             /\ \A p : HalfAt(q, p) => HalfAt(req'[r], p)
  <2> DEFINE F(pc) == [q EXCEPT !.pc = pc, !.until = clock]
  <2>1. \A pc : Finish(r, pc) => req'[r] = F(pc)
    BY <1>1 DEF Finish, q
  <2>2. \A pc : /\ F(pc).pc = pc /\ F(pc).files = q.files /\ F(pc).way = q.way /\ F(pc).stored = q.stored
                /\ F(pc).then = q.then /\ F(pc).i = q.i
    BY <1>1 DEF RequestRecord
  <2>3. q.then \in {"answered", "rejected", "failed"}
    BY <1>1 DEF RequestRecord
  <2> HIDE DEF F
  <2>4. PICK pc \in {"answered", "rejected", q.then} : req'[r] = F(pc) /\ (q.pc = "cleanup" => pc = q.then)
    BY <1>4, <2>1
  <2>5. QED
    BY <1>4, <2>2, <2>3, <2>4 DEF Obeys, Claims, HalfAt, Lists, Storing, q
<1>5. CASE (Received(r) /\ q.files = <<>>) \/ MulterGivesUp(r) \/ End(r)
  BY <1>4, <1>5 DEF Received, MulterGivesUp, End, q
<1>6. CASE Received(r) /\ q.files # <<>>
  <2>1. PICK L : req'[r] = [q EXCEPT !.pc = "validate", !.left = L]
    BY <1>1, <1>6 DEF Received, q
  <2>2. QED
    BY <1>1, <1>6, <2>1 DEF Received, RequestRecord, Obeys, Claims, HalfAt, Storing, q
<1>7. CASE Validate(r)
  <2>1. q.pc = "validate"
    BY <1>7 DEF Validate, AtStep, q
  <2>2. IF Accepted(r) THEN req'[r] = [q EXCEPT !.pc = "probe"]
        ELSE req'[r] = [q EXCEPT !.pc = "cleanup", !.then = "rejected"]
    BY <1>1, <1>7 DEF Validate, Step, q
  <2>3. Accepted(r) => \A j \in 1 .. Len(q.files) : q.files[j].ok
    BY <1>1, <1>2 DEF Accepted, q
  <2>4. QED
    BY <1>1, <1>7, <2>1, <2>2, <2>3 DEF RequestRecord, Obeys, Claims, HalfAt, Storing, q
<1>8. CASE Probe(r) \/ ProbeFails(r)
  <2>1. /\ q.pc = "probe"
        /\ req'[r] = [q EXCEPT !.k = @ + 1] \/ \E p : req'[r] = [q EXCEPT !.pc = "write", !.path = p]
    BY <1>1, <1>8 DEF Probe, ProbeFails, AtStep, q
  <2>2. QED
    BY <1>1, <2>1 DEF RequestRecord, Obeys, Claims, HalfAt, Lists, Storing, q
<1>13. CASE OpenStream(r)
  <2>1. q.pc = "write" /\ \E b : req'[r] = [q EXCEPT !.pc = "copy", !.bytes = b]
    BY <1>1, <1>13 DEF OpenStream, AtStep, q
  <2>2. QED
    BY <1>1, <2>1 DEF RequestRecord, Obeys, Claims, HalfAt, Lists, Storing, q
<1>9. CASE PutStream(r)
  <2>1. q.pc = "copy" /\ q.way = "interceptor" /\ req'[r] = [q EXCEPT !.pc = "unlink"]
    BY <1>1, <1>9 DEF PutStream, Step, AtStep, q
  <2>2. q.i \in 1 .. Len(q.files)
    BY <1>1, <2>1 DEF Phase
  <2>3. QED
    BY <1>1, <2>1, <2>2 DEF RequestRecord, Obeys, Claims, Lists, Storing, q
<1>10. CASE Unlink(r)
  <2> DEFINE t == q.temps[q.i]
             last == q.i = Len(q.files)
             new == q.stored \cup {[path |-> q.path, by |-> <<r, q.i>>]}
             o == [q EXCEPT !.pc = IF last THEN "cleanup" ELSE "probe", !.i = IF last THEN @ ELSE @ + 1, !.k = 0,
                            !.left = @ \ {t}, !.stored = @ \cup {[path |-> q.path, by |-> <<r, q.i>>]}]
             u == [q EXCEPT !.pc = "cleanup", !.then = "failed"]
  <2>1. req' = [req EXCEPT ![r] = o] \/ req' = [req EXCEPT ![r] = u]
    BY <1>10 DEF Unlink, q
  <2>2. q.pc = "unlink" /\ \A p : ~HalfAt(q, p)
    BY <1>10 DEF Unlink, AtStep, HalfAt, q
  <2>3. o.pc \in {"cleanup", "probe"} /\ o.files = q.files /\ o.way = q.way /\ o.then = q.then /\ o.stored = new
    BY <1>1 DEF RequestRecord
  <2>4. u.pc = "cleanup" /\ u.files = q.files /\ u.way = q.way /\ u.then = "failed" /\ u.stored = q.stored
    BY <1>1 DEF RequestRecord
  <2> HIDE DEF o, u
  <2>5. \A i : i = q.i \/ Lists(q, r, i) => Lists(o, r, i)
    <3>1. [path |-> q.path, by |-> <<r, q.i>>] \in o.stored /\ q.stored \subseteq o.stored
      BY <2>3
    <3>2. QED
      BY <3>1 DEF Lists
  <2>6. Obeys(o) /\ Obeys(u)
    BY <2>2, <2>3, <2>4 DEF Obeys, Storing, q
  <2>7. \A i : Claims(q, r, i) => Claims(o, r, i) /\ Claims(u, r, i)
    BY <2>2, <2>3, <2>4, <2>5 DEF Claims, Obeys, Storing, q
  <2>8. QED
    BY <1>3, <2>1, <2>2, <2>6, <2>7 DEF q
<1>11. CASE Cleanup(r) \/ CleanupFails(r)
  <2>1. q.pc = "cleanup" /\ \E L : req'[r] = [q EXCEPT !.left = L]
    BY <1>1, <1>11 DEF Cleanup, CleanupFails, q
  <2>2. QED
    BY <1>1, <2>1 DEF RequestRecord, Obeys, Claims, HalfAt, Lists, Storing, q
<1>12. QED
  BY <1>5, <1>6, <1>7, <1>8, <1>9, <1>10, <1>11, <1>13 DEF InterceptorStep, q

LEMMA OthersClaim ==
    ASSUME Typed, Phases, NEW r \in Requests, OtherStep(r) \/ Fail(r), Obeys(req[r])
    PROVE  /\ Obeys(req'[r]) /\ \A i : Claims(req[r], r, i) => Claims(req'[r], r, i)
           /\ req[r].pc = "copy" => Claims(req'[r], r, req[r].i)
           /\ req[r].pc # "copy" \/ Fail(r) => \A p : HalfAt(req[r], p) => HalfAt(req'[r], p)
<1> DEFINE q == req[r]
<1>1. /\ q # Unsent /\ q \in RequestRecord /\ Phase(q) /\ r \in DOMAIN req
      /\ Len(q.files) \in Nat /\ q.i \in Nat \ {0}
  <2>1. q # Unsent
    BY Turns DEF Turn
  <2>2. q.pc # "unsent"
    BY <2>1 DEF Typed, RequestRecord, Pcs
  <2>3. QED
    BY <2>1, <2>2, Sent DEF Typed, RequestRecord
<1>2. \A o \in RequestRecord : DOMAIN o.files = 1 .. Len(o.files)
  BY DEF RequestRecord, FileSeqs
<1> HIDE DEF q
<1>3. \A o : req' = [req EXCEPT ![r] = o] => req'[r] = o
  BY <1>1
<1>4. OtherStep(r) => ~Fail(r)
  <2>1. Fail(r) => faults' # faults
    BY DEF Fail, Typed
  <2>2. OtherStep(r) => faults' = faults
    BY DEF OtherStep, ValidateFile, NameVariant, OpenFile, PutVariant, Quiet
  <2>3. QED
    BY <2>1, <2>2
<1>5. PutVariant(r) => q.pc = "copy" /\ q.way \in {"direct", "image", "doc"}
  BY DEF PutVariant, AtStep, q
<1>6. CASE OpenFile(r)
  <2>1. q.pc = "write" /\ \E b : req'[r] = [q EXCEPT !.pc = "copy", !.bytes = b]
    BY <1>1, <1>6 DEF OpenFile, AtStep, q
  <2>2. QED
    BY <1>1, <2>1 DEF RequestRecord, Obeys, Claims, HalfAt, Lists, Storing, q
<1>7. CASE ValidateFile(r)
  <2>1. q.pc = "validate"
    BY <1>7 DEF ValidateFile, AtStep, q
  <2>2. IF Accepted(r) THEN req'[r] = [q EXCEPT !.pc = "name"]
        ELSE req'[r] = [q EXCEPT !.pc = "rejected", !.until = clock]
    BY <1>1, <1>7 DEF ValidateFile, Step, Finish, q
  <2>3. Accepted(r) => \A j \in 1 .. Len(q.files) : q.files[j].ok
    BY <1>1, <1>2 DEF Accepted, q
  <2>4. QED
    BY <1>1, <2>1, <2>2, <2>3 DEF RequestRecord, Obeys, Claims, HalfAt, Storing, q
<1>8. CASE NameVariant(r)
  <2>1. q.pc = "name" /\ \E p : req'[r] = [q EXCEPT !.pc = "write", !.path = p]
    BY <1>1, <1>8 DEF NameVariant, AtStep, q
  <2>2. QED
    BY <1>1, <2>1 DEF RequestRecord, Obeys, Claims, HalfAt, Lists, Storing, q
<1>9. CASE PutVariant(r)
  <2> DEFINE last == q.i = Len(q.files)
             new == q.stored \cup {[path |-> q.path, by |-> <<r, q.i>>]}
             o == [q EXCEPT !.pc = IF last THEN "answered" ELSE "name", !.i = IF last THEN @ ELSE @ + 1,
                            !.until = clock, !.stored = @ \cup {[path |-> q.path, by |-> <<r, q.i>>]}]
  <2>1. req' = [req EXCEPT ![r] = o]
    BY <1>9 DEF PutVariant, q
  <2>2. o.pc \in {"answered", "name"} /\ o.files = q.files /\ o.way = q.way /\ o.then = q.then /\ o.stored = new
    BY <1>1 DEF RequestRecord
  <2> HIDE DEF o
  <2>3. \A i : i = q.i \/ Lists(q, r, i) => Lists(o, r, i)
    <3>1. [path |-> q.path, by |-> <<r, q.i>>] \in o.stored /\ q.stored \subseteq o.stored
      BY <2>2
    <3>2. QED
      BY <3>1 DEF Lists
  <2>4. q.i \in 1 .. Len(q.files)
    BY <1>1, <1>5, <1>9 DEF Phase
  <2>5. Obeys(o) /\ Claims(o, r, q.i) /\ \A i : Claims(q, r, i) => Claims(o, r, i)
    BY <1>5, <1>9, <2>2, <2>3, <2>4 DEF Obeys, Claims, Storing, q
  <2>6. QED
    BY <1>3, <1>4, <1>5, <1>9, <2>1, <2>5 DEF q, OtherStep
<1>10. CASE Fail(r)
  <2>1. /\ q.pc \notin {"receive", "cleanup", "unsent", "answered", "rejected", "failed", "lost"}
        /\ \/ req'[r] = [q EXCEPT !.pc = "cleanup", !.then = "failed"]
           \/ req'[r] = [q EXCEPT !.pc = "failed", !.until = clock]
    BY <1>1, <1>10 DEF Fail, Finish, InProgress, Over, q
  <2>2. q.pc = "copy" => q.i \in 1 .. Len(q.files)
    BY <1>1 DEF Phase, RequestRecord
  <2>3. QED
    BY <1>1, <2>1, <2>2 DEF RequestRecord, Obeys, Claims, HalfAt, Lists, Storing, q
<1>11. QED
  BY <1>6, <1>7, <1>8, <1>9, <1>10 DEF OtherStep, q

\* A file of the disk that is still there stays whose it was.
LEMMA RightfulStays ==
    ASSUME NEW p, NEW x \in Content, Rightful(p, x), ghost.clash \subseteq ghost'.clash,
           req'[x[1]] # Unsent, req'[x[1]].files = req[x[1]].files,
           Claims(req[x[1]], x[1], x[2]) => Claims(req'[x[1]], x[1], x[2]),
           x[2] = 0 /\ HalfAt(req[x[1]], p) => HalfAt(req'[x[1]], p)
    PROVE  Rightful(p, x)'
<1>1. CASE Clouded(x[1])
  <2>1. Clouded(x[1])'
    BY <1>1 DEF Clouded
  <2>2. QED
    BY <2>1 DEF Rightful, Unsent
<1>2. CASE Claims(req[x[1]], x[1], x[2])
  <2>1. Claims(req'[x[1]], x[1], x[2])
    BY <1>2
  <2>2. QED
    BY <2>1 DEF Rightful, Unsent, Claims, Lists
<1>3. CASE x[2] = 0 /\ HalfAt(req[x[1]], p)
  <2>1. HalfAt(req'[x[1]], p)
    BY <1>3
  <2>2. QED
    BY <1>3, <2>1 DEF Rightful, Unsent, HalfAt
<1>4. QED
  BY <1>1, <1>2, <1>3 DEF Rightful

\* Bytes that are still to be written stay whose they were.
LEMMA LoadsStay ==
    ASSUME NEW r \in Requests, Loads(r), ghost.clash \subseteq ghost'.clash, req'[r].bytes = req[r].bytes, req'[r].i = req[r].i,
           req[r].bytes[1] \in Requests,
           \A x \in Requests : req[x] # Unsent => req'[x] # Unsent /\ req'[x].files = req[x].files
    PROVE  Loads(r)'
<1>1. CASE req[r].bytes = <<r, req[r].i>>
  BY <1>1 DEF Loads
<1>2. CASE req[req[r].bytes[1]] # Unsent /\ Clouded(req[r].bytes[1])
  <2>1. req'[req'[r].bytes[1]] # Unsent /\ Clouded(req[r].bytes[1])'
    BY <1>2 DEF Clouded
  <2>2. QED
    BY <2>1 DEF Loads, Unsent
<1>3. QED
  BY <1>1, <1>2 DEF Loads

\* A file that was named twice is one of the request its bytes come from.
LEMMA ClashClouds ==
    ASSUME Typed, Phases, TracedInv, NEW r \in Requests, req[r] # Unsent, NEW j \in 1 .. Len(req[r].temps),
           req[r].temps[j] \in ghost.clash
    PROVE  Clouded(r) /\ j \in 1 .. Len(req[r].files)
<1>1. Phase(req[r]) /\ req[r] \in RequestRecord
  BY DEF Phases, Typed
<1>2. Len(req[r].temps) <= Len(req[r].files) /\ Len(req[r].temps) \in Nat /\ Len(req[r].files) \in Nat
  BY <1>1, LenProperties DEF Phase, RequestRecord, TempSeqs, FileSeqs
<1>3. j \in 1 .. Len(req[r].files)
  BY <1>2
<1>4. req[r].temps[j][2] = req[r].files[j].name
  BY DEF TracedInv
<1>5. QED
  BY <1>3, <1>4 DEF Clouded

\* The bytes that a request reads from its temporary file are its own, unless
\* two files have the name.
LEMMA LoadsRightly ==
    ASSUME Typed, Phases, ClashInv, TracedInv, NEW r \in Requests, req[r].pc = "write", req[r].way = "interceptor",
           req[r].temps[req[r].i] \in DOMAIN temps, NEW b, b = temps[req[r].temps[req[r].i]]
    PROVE  b = <<r, req[r].i>> \/ (b[1] \in Requests /\ req[b[1]] # Unsent /\ Clouded(b[1]))
<1> DEFINE t == req[r].temps[req[r].i]
<1>1. req[r] # Unsent /\ Phase(req[r]) /\ req[r] \in RequestRecord /\ Len(req[r].temps) \in Nat
  BY Sent
<1>2. PICK q \in Requests, j \in Nat : temps[t] = <<q, j>>
  BY DEF Typed, Content
<1>3. req[q] # Unsent /\ j \in 1 .. Len(req[q].temps) /\ req[q].temps[j] = t
  BY <1>2 DEF TracedInv
<1>4. req[r].i \in 1 .. Len(req[r].temps)
  BY <1>1 DEF Phase, RequestRecord
<1>5. CASE q = r /\ j = req[r].i
  BY <1>2, <1>5
<1>6. CASE ~(q = r /\ j = req[r].i)
  <2>1. req[q].temps[j] \in ghost.clash
    BY <1>1, <1>3, <1>4, <1>6 DEF ClashInv, ApartInv
  <2>2. Clouded(q)
    BY <1>3, <2>1, ClashClouds
  <2>3. QED
    BY <1>2, <1>3, <2>2
<1>7. QED
  BY <1>5, <1>6

LEMMA WithGives ==
    ASSUME NEW f, NEW x, NEW v
    PROVE  DOMAIN With(f, x, v) = DOMAIN f \cup {x} /\ With(f, x, v)[x] = v
  BY DEF With

\* A file that is there after another one is written was there before, or is
\* that one.
LEMMA WithFrom ==
    ASSUME NEW f, NEW x, NEW v, NEW y \in DOMAIN With(f, x, v)
    PROVE  (y = x /\ With(f, x, v)[y] = v) \/ (y \in DOMAIN f /\ y # x /\ With(f, x, v)[y] = f[y])
  BY DEF With

LEMMA TurnClaim ==
    ASSUME Typed, Phases, ClashInv, TracedInv, ClaimInv, Typed', NEW r \in Requests,
           InterceptorStep(r) \/ OtherStep(r) \/ Fail(r)
    PROVE  ClaimInv'
<1> DEFINE q == req[r]
<1>1. /\ \A x \in Requests \ {r} : req'[x] = req[x]
      /\ req[r] # Unsent /\ req'[r] # Unsent /\ req'[r].files = req[r].files /\ ghost'.clash = ghost.clash
  BY Turns DEF Turn, Recorded
<1>2. Obeys(req[r])
  BY <1>1 DEF ClaimInv
<1>3. /\ Obeys(req'[r]) /\ \A i : Claims(q, r, i) => Claims(req'[r], r, i)
      /\ q.pc = "copy" => Claims(req'[r], r, q.i)
      /\ q.pc # "copy" \/ Fail(r) => \A p : HalfAt(q, p) => HalfAt(req'[r], p)
  <2>1. CASE InterceptorStep(r) /\ ~Fail(r)
    BY <1>2, <2>1, InterceptorClaims
  <2>2. CASE OtherStep(r) \/ Fail(r)
    BY <1>2, <2>2, OthersClaim
  <2>3. QED
    BY <2>1, <2>2
<1>4. ASSUME NEW x \in Requests, req'[x] # Unsent
      PROVE  Obeys(req'[x])
  BY <1>1, <1>3, <1>4 DEF ClaimInv
<1>7. Writes(r)
  BY WritesSo
<1>8. q.bytes \in Content /\ q.bytes[1] \in Requests /\ q.i \in Nat \ {0}
  BY <1>1 DEF Typed, RequestRecord, Content
<1>9. \A x \in Requests : req[x] # Unsent => req'[x] # Unsent /\ req'[x].files = req[x].files
  BY <1>1
<1>10. ASSUME NEW x \in Requests, req'[x] # Unsent, req'[x].pc = "copy"
       PROVE  Loads(x)'
  <2>1. CASE x # r
    <3>1. req'[x] = req[x] /\ req[x].bytes[1] \in Requests
      BY <1>1, <1>10, <2>1 DEF Typed, RequestRecord, Content
    <3>2. Loads(x)
      BY <1>10, <3>1 DEF ClaimInv
    <3>3. QED
      BY <1>1, <1>9, <3>1, <3>2, LoadsStay
  <2>2. CASE x = r
    <3>1. /\ q.pc = "write" /\ req'[r].i = q.i
          /\ \/ q.way # "interceptor" /\ req'[r].bytes = <<r, q.i>>
             \/ q.way = "interceptor" /\ q.temps[q.i] \in DOMAIN temps /\ req'[r].bytes = temps[q.temps[q.i]]
      BY <1>7, <1>10, <2>2 DEF Writes
    <3> DEFINE b == req'[r].bytes
    <3>2. b = <<r, q.i>> \/ (b[1] \in Requests /\ req[b[1]] # Unsent /\ Clouded(b[1]))
      BY <3>1, LoadsRightly
    <3>3. CASE b = <<r, q.i>>
      BY <2>2, <3>1, <3>3 DEF Loads
    <3>4. CASE b[1] \in Requests /\ req[b[1]] # Unsent /\ Clouded(b[1])
      <4>1. req'[b[1]] # Unsent /\ req'[b[1]].files = req[b[1]].files
        BY <1>9, <3>4
      <4>2. \E t \in ghost'.clash : \E j \in 1 .. Len(req'[b[1]].files) : req'[b[1]].files[j].name = t[2]
        BY <1>1, <3>4, <4>1 DEF Clouded
      <4>3. QED
        BY <2>2, <4>1, <4>2 DEF Loads, Clouded, Unsent
    <3>5. QED
      BY <3>2, <3>3, <3>4
  <2>3. QED
    BY <2>1, <2>2
<1>11. ASSUME NEW p \in DOMAIN disk, disk'[p] = disk[p],
              disk[p][1] = r /\ disk[p][2] = 0 /\ HalfAt(q, p) => HalfAt(req'[r], p)
       PROVE  Rightful(p, disk[p])'
  <2>1. PICK x \in Content : disk[p] = x
    BY DEF Typed
  <2>2. Rightful(p, x) /\ x[1] \in Requests /\ req[x[1]] # Unsent
    BY <2>1 DEF ClaimInv, Rightful, Content
  <2>3. /\ req'[x[1]] # Unsent /\ req'[x[1]].files = req[x[1]].files
        /\ Claims(req[x[1]], x[1], x[2]) => Claims(req'[x[1]], x[1], x[2])
        /\ x[2] = 0 /\ HalfAt(req[x[1]], p) => HalfAt(req'[x[1]], p)
    BY <1>1, <1>3, <1>11, <2>1, <2>2
  <2>4. Rightful(p, x)'
    BY <1>1, <2>2, <2>3, RightfulStays
  <2>5. QED
    BY <1>11, <2>1, <2>4 DEF Rightful
<1>5. ASSUME NEW p \in DOMAIN disk'
      PROVE  Rightful(p, disk[p])'
  <2>1. CASE disk' = disk /\ (q.pc # "copy" \/ Fail(r))
    BY <1>3, <1>5, <1>11, <2>1
  <2>2. CASE /\ q.pc = "write" /\ disk' = With(disk, q.path, Half(r))
             /\ req'[r].pc = "copy" /\ req'[r].path = q.path
    <3>1. CASE p = q.path
      <4>1. disk'[p] = Half(r)
        BY <2>2, <3>1 DEF With
      <4>2. \A j \in 1 .. Len(q.files) : q.files[j].ok
        BY <1>2, <2>2 DEF Obeys, Storing
      <4>3. HalfAt(req'[r], p)
        BY <1>1, <2>2, <3>1, <4>2 DEF HalfAt
      <4>4. disk'[p][1] = r /\ disk'[p][2] = 0
        BY <4>1 DEF Half
      <4>5. QED
        BY <1>1, <4>3, <4>4 DEF Rightful, HalfAt, Unsent
    <3>2. CASE p # q.path
      <4>1. p \in DOMAIN disk /\ disk'[p] = disk[p]
        BY <1>5, <2>2, <3>2, WithFrom
      <4>2. QED
        BY <1>3, <1>11, <2>2, <4>1
    <3>3. QED
      BY <3>1, <3>2
  <2>3. CASE q.pc = "copy" /\ disk' = With(disk, q.path, q.bytes)
    <3>1. CASE p = q.path
      <4>1. disk'[p] = q.bytes
        BY <2>3, <3>1 DEF With
      <4>2. Loads(r)
        BY <1>1, <2>3 DEF ClaimInv
      <4>3. CASE q.bytes = <<r, q.i>>
        <5>1. Claims(req'[r], r, q.i)
          BY <1>3, <2>3
        <5>2. disk'[p][1] = r /\ disk'[p][2] = q.i
          BY <4>1, <4>3
        <5>3. QED
          BY <1>1, <5>1, <5>2 DEF Rightful, Claims, Lists, Unsent
      <4>4. CASE req[q.bytes[1]] # Unsent /\ Clouded(q.bytes[1])
        <5> DEFINE x == q.bytes[1]
        <5>1. req'[x] # Unsent /\ req'[x].files = req[x].files
          BY <1>8, <1>9, <4>4
        <5>2. \E t \in ghost'.clash : \E j \in 1 .. Len(req'[x].files) : req'[x].files[j].name = t[2]
          BY <1>1, <4>4, <5>1 DEF Clouded
        <5>3. disk'[p][1] = x
          BY <4>1
        <5> HIDE DEF x
        <5>4. QED
          BY <5>1, <5>2, <5>3 DEF Rightful, Clouded, Unsent
      <4>5. QED
        BY <4>2, <4>3, <4>4 DEF Loads
    <3>2. CASE p # q.path
      <4>1. p \in DOMAIN disk /\ disk'[p] = disk[p]
        BY <1>5, <2>3, <3>2, WithFrom
      <4>2. ~HalfAt(q, p)
        BY <2>3, <3>2 DEF HalfAt
      <4>3. QED
        BY <1>11, <4>1, <4>2
    <3>3. QED
      BY <3>1, <3>2
  <2>4. QED
    BY <1>7, <2>1, <2>2, <2>3 DEF Writes
<1>6. QED
  BY <1>4, <1>5, <1>10 DEF ClaimInv, Obeys, Unsent, Storing

\* A step that puts nothing on the disk.
LEMMA ClaimStays ==
    ASSUME Typed, ClaimInv, disk' = disk, ghost.clash \subseteq ghost'.clash,
           \A x \in Requests : req[x] # Unsent =>
               /\ req'[x] # Unsent /\ req'[x].files = req[x].files
               /\ \A i : Claims(req[x], x, i) => Claims(req'[x], x, i)
               /\ \A p : HalfAt(req[x], p) => HalfAt(req'[x], p),
           \A x \in Requests : req'[x] # Unsent => Obeys(req'[x]),
           \A x \in Requests : req'[x] # Unsent /\ req'[x].pc = "copy" => req'[x] = req[x]
    PROVE  ClaimInv'
<1>1. ASSUME NEW p \in DOMAIN disk'
      PROVE  Rightful(p, disk[p])'
  <2>1. PICK x \in Content : disk[p] = x
    BY <1>1 DEF Typed
  <2>2. Rightful(p, x) /\ x[1] \in Requests /\ req[x[1]] # Unsent
    BY <1>1, <2>1 DEF ClaimInv, Rightful, Content
  <2>3. /\ req'[x[1]] # Unsent /\ req'[x[1]].files = req[x[1]].files
        /\ Claims(req[x[1]], x[1], x[2]) => Claims(req'[x[1]], x[1], x[2])
        /\ HalfAt(req[x[1]], p) => HalfAt(req'[x[1]], p)
    BY <2>2
  <2>4. Rightful(p, x)'
    BY <2>2, <2>3, RightfulStays
  <2>5. QED
    BY <2>1, <2>4 DEF Rightful
<1>2. ASSUME NEW x \in Requests, req'[x] # Unsent, req'[x].pc = "copy"
      PROVE  Loads(x)'
  <2>1. req'[x] = req[x] /\ req[x].bytes[1] \in Requests
    BY <1>2 DEF Typed, RequestRecord, Content
  <2>2. Loads(x)
    BY <1>2, <2>1 DEF ClaimInv
  <2>3. QED
    BY <2>1, <2>2, LoadsStay
<1>3. QED
  BY <1>1, <1>2 DEF ClaimInv, Obeys, Unsent, Storing

LEMMA SendClaim ==
    ASSUME Typed, ClaimInv, NEW r \in Requests, NEW way \in Ways, NEW fs \in Files(way), Send(r, way, fs)
    PROVE  ClaimInv'
<1>1. /\ \A x \in Requests \ {r} : req'[x] = req[x]
      /\ req[r] = Unsent /\ disk' = disk /\ ghost'.clash = ghost.clash
      /\ req'[r].way = way /\ req'[r].files = fs /\ req'[r].then = "answered" /\ req'[r].pc \in {"receive", "name", "validate"}
      /\ req'[r].pc = "name" => way = "direct"
  BY DEF Send, Typed, GhostSet
<1>2. way = "direct" => \A j \in 1 .. Len(fs) : fs[j].ok
  <2> SUFFICES ASSUME way = "direct"
               PROVE  \A j \in 1 .. Len(fs) : fs[j].ok
    OBVIOUS
  <2>1. fs \in [1 .. 1 -> [name : Names, dir : {""}, ok : {TRUE}]]
    BY FilesOfWays
  <2>2. Len(fs) = 1
    BY <2>1, FunctionIsSequence
  <2>3. QED
    BY <2>1, <2>2
<1>3. Obeys(req'[r])
  BY <1>1, <1>2 DEF Obeys, Storing
<1>4. \A x \in Requests : req'[x] # Unsent => Obeys(req'[x])
  BY <1>1, <1>3 DEF ClaimInv
<1>5. \A x \in Requests : (req[x] # Unsent => req'[x] = req[x]) /\ (req'[x].pc = "copy" => req'[x] = req[x])
  BY <1>1
<1>6. QED
  BY <1>1, <1>4, <1>5, ClaimStays

LEMMA ReceiveClaim ==
    ASSUME Typed, Phases, ClaimInv, NEW r \in Requests, Receive(r)
    PROVE  ClaimInv'
<1>1. req[r].pc = "receive" /\ req[r] # Unsent /\ req[r] \in RequestRecord /\ disk' = disk
  BY Sent DEF Receive
<1>2. \A x \in Requests \ {r} : req'[x] = req[x]
  BY DEF Receive, Typed
<1>3. \E ts : req'[r] = [req[r] EXCEPT !.temps = ts]
  BY DEF Receive, Typed
<1>4. /\ req'[r] # Unsent /\ req'[r].files = req[r].files /\ req'[r].pc = "receive"
      /\ req'[r].way = req[r].way /\ req'[r].then = req[r].then
  BY <1>1, <1>3 DEF RequestRecord, Unsent
<1>5. ghost.clash \subseteq ghost'.clash
  BY DEF Receive, Typed, GhostSet
<1>6. Obeys(req'[r]) /\ (\A i : ~Claims(req[r], r, i)) /\ \A p : ~HalfAt(req[r], p)
  BY <1>1, <1>4 DEF ClaimInv, Obeys, Claims, HalfAt, Storing
<1>7. QED
  BY <1>1, <1>2, <1>4, <1>5, <1>6, ClaimStays DEF ClaimInv

\* The requests in progress are lost, and with them what they would still do.
LEMMA LoseObeys ==
    ASSUME Typed, Phases, ClaimInv, Lose
    PROVE  /\ \A x \in Requests : req[x] # Unsent =>
                 /\ req'[x] # Unsent /\ req'[x].files = req[x].files
                 /\ \A i : Claims(req[x], x, i) => Claims(req'[x], x, i)
                 /\ \A p : HalfAt(req[x], p) => HalfAt(req'[x], p)
           /\ \A x \in Requests : req'[x] # Unsent => req[x] # Unsent /\ Obeys(req'[x]) /\ req'[x].pc # "copy"
<1>1. \A x \in Requests : req'[x] = req[x] \/ Gone(x)
  BY Losses
<1>2. \A x \in Requests : Gone(x) =>
          /\ req[x] # Unsent /\ req'[x] # Unsent /\ req'[x].files = req[x].files
          /\ \A i : Claims(req[x], x, i) => Claims(req'[x], x, i)
          /\ \A p : HalfAt(req[x], p) => HalfAt(req'[x], p)
          /\ Obeys(req[x]) => Obeys(req'[x])
  BY DEF Gone, Claims, HalfAt, Obeys, Storing
<1>4. \A x \in Requests : req'[x] # Unsent => req'[x].pc # "copy"
  <2> SUFFICES ASSUME NEW x \in Requests, req'[x] # Unsent, req'[x].pc = "copy"
               PROVE  FALSE
    OBVIOUS
  <2>1. req'[x] = req[x]
    BY <1>1 DEF Gone
  <2>2. InProgress(x)
    BY <2>1 DEF InProgress, Over
  <2>3. req[x] # Unsent /\ req[x] \in RequestRecord
    BY <2>1 DEF Typed, Unsent
  <2>4. req'[x].pc = "lost"
    BY <2>2, <2>3 DEF Lose, RequestRecord
  <2>5. QED
    BY <2>4
<1>3. QED
  BY <1>1, <1>2, <1>4 DEF ClaimInv

LEMMA StreamErrorClaim ==
    ASSUME Typed, Phases, ClaimInv, NEW r \in Requests, StreamError(r)
    PROVE  ClaimInv'
<1>1. Lose /\ ghost'.clash = ghost.clash /\ (disk' = disk \/ disk' = With(disk, req[r].path, Half(r)))
  BY DEF StreamError, Typed
<1>2. req[r] # Unsent /\ req[r].pc \in {"write", "copy"}
  BY Sent DEF StreamError, AtStep
<1>3. \A x \in Requests : req[x] # Unsent =>
          /\ req'[x] # Unsent /\ req'[x].files = req[x].files
          /\ \A i : Claims(req[x], x, i) => Claims(req'[x], x, i)
          /\ \A p : HalfAt(req[x], p) => HalfAt(req'[x], p)
  BY <1>1, LoseObeys
<1>4. \A x \in Requests : req'[x] # Unsent => Obeys(req'[x]) /\ req'[x].pc # "copy"
  BY <1>1, LoseObeys
<1>5. ASSUME NEW p \in DOMAIN disk'
      PROVE  Rightful(p, disk[p])'
  <2>1. CASE disk'[p] = Half(r)
    <3>1. \A j \in 1 .. Len(req[r].files) : req[r].files[j].ok
      BY <1>2 DEF ClaimInv, Obeys, Storing
    <3>2. req'[r].pc = "lost" /\ req'[r] # Unsent
      <4>1. req[r] \in RequestRecord /\ InProgress(r)
        BY <1>2 DEF Typed, InProgress, Over
      <4>2. req'[r] = [req[r] EXCEPT !.pc = "lost", !.until = clock]
        BY <1>1, <4>1 DEF Lose
      <4>3. QED
        BY <4>1, <4>2 DEF RequestRecord, Unsent
    <3>3. HalfAt(req'[r], p)
      BY <1>2, <1>3, <3>1, <3>2 DEF HalfAt
    <3>4. disk'[p][1] = r /\ disk'[p][2] = 0
      BY <2>1 DEF Half
    <3>5. QED
      BY <3>2, <3>3, <3>4 DEF Rightful, HalfAt, Unsent
  <2>2. CASE p \in DOMAIN disk /\ disk'[p] = disk[p]
    <3>1. PICK x \in Content : disk[p] = x
      BY <2>2 DEF Typed
    <3>2. Rightful(p, x) /\ x[1] \in Requests /\ req[x[1]] # Unsent
      BY <2>2, <3>1 DEF ClaimInv, Rightful, Content
    <3>3. /\ req'[x[1]] # Unsent /\ req'[x[1]].files = req[x[1]].files
          /\ Claims(req[x[1]], x[1], x[2]) => Claims(req'[x[1]], x[1], x[2])
          /\ HalfAt(req[x[1]], p) => HalfAt(req'[x[1]], p)
      BY <1>3, <3>2
    <3>4. Rightful(p, x)'
      BY <1>1, <3>2, <3>3, RightfulStays
    <3>5. QED
      BY <2>2, <3>1, <3>4 DEF Rightful
  <2>3. (p \in DOMAIN disk /\ disk'[p] = disk[p]) \/ disk'[p] = Half(r)
    <3>1. CASE disk' = disk
      BY <1>5, <3>1
    <3>2. CASE disk' = With(disk, req[r].path, Half(r))
      BY <1>5, <3>2, WithFrom
    <3>3. QED
      BY <1>1, <3>1, <3>2
  <2>4. QED
    BY <2>1, <2>2, <2>3
<1>6. QED
  BY <1>4, <1>5 DEF ClaimInv, Obeys, Unsent, Storing

THEOREM ClaimsCorrect == Spec => []ClaimInv
<1>1. Init => ClaimInv
  BY DEF Init, ClaimInv, Nothing
<1>2. Typed /\ Phases /\ ClashInv /\ TracedInv /\ ClaimInv /\ [Next]_vars => ClaimInv'
  <2> SUFFICES ASSUME Typed, Phases, ClashInv, TracedInv, ClaimInv, [Next]_vars
               PROVE  ClaimInv'
    OBVIOUS
  <2>1. ASSUME NEW r \in Requests, InterceptorStep(r) \/ OtherStep(r) \/ Fail(r)
        PROVE  ClaimInv'
    <3>1. Typed'
      BY <2>1, NextTyped DEF Next, InterceptorStep, OtherStep
    <3>2. QED
      BY <2>1, <3>1, TurnClaim
  <2>2. CASE Restart
    <3>1. Lose /\ disk' = disk /\ ghost'.clash = ghost.clash
      BY <2>2 DEF Restart, Typed
    <3>2. QED
      BY <3>1, LoseObeys, ClaimStays
  <2>3. CASE Tick \/ UNCHANGED vars
    <3>1. disk' = disk /\ req' = req /\ ghost' = ghost
      BY <2>3 DEF Tick, vars
    <3>2. \A x \in Requests : Loads(x)' = Loads(x)
      BY <3>1 DEF Loads, Clouded, Unsent
    <3>3. \A p \in DOMAIN disk : Rightful(p, disk[p])' = Rightful(p, disk[p])
      BY <3>1 DEF Rightful, Clouded, Claims, HalfAt, Lists, Unsent
    <3>4. QED
      BY <3>1, <3>2, <3>3 DEF ClaimInv, Obeys, Unsent, Storing
  <2>4. QED
    BY <2>1, <2>2, <2>3, SendClaim, ReceiveClaim, StreamErrorClaim DEF Next, InterceptorStep, OtherStep
<1>3. QED
  BY <1>1, <1>2, TypeCorrect, ClashesCorrect, TempsTraced, PTL DEF Spec

\* Every file of the disk obeys the rules of its route and was answered to
\* whoever sent it, unless its request is in progress, failed or was lost, or
\* one of its files shares a temporary name; a file without all its bytes is
\* there only of such a request: none of a request that FileUploadInterceptor
\* or FileValidator rejects is ever stored.
THEOREM FilesClaimed == Spec => []EveryFileIsClaimed
<1>1. Typed /\ Phases /\ ClaimInv => EveryFileIsClaimed
  <2> SUFFICES ASSUME Typed, Phases, ClaimInv, NEW p \in DOMAIN disk
               PROVE  LET r == disk[p][1]  i == disk[p][2]  ended == InProgress(r) \/ req[r].pc \in {"failed", "lost"} IN
                      \/ \E t \in ghost.clash : \E j \in DOMAIN req[r].files : req[r].files[j].name = t[2]
                      \/ i = 0 /\ ended /\ \A j \in DOMAIN req[r].files : req[r].files[j].ok
                      \/ i # 0 /\ req[r].files[i].ok /\ (ended \/ (req[r].pc = "answered" /\ \E s \in req[r].stored : s.by = disk[p]))
    BY DEF EveryFileIsClaimed
  <2>1. PICK r \in Requests, i \in Nat : disk[p] = <<r, i>>
    BY DEF Typed, Content
  <2>2. req[r] # Unsent /\ (Clouded(r) \/ Claims(req[r], r, i) \/ (i = 0 /\ HalfAt(req[r], p)))
    BY <2>1 DEF ClaimInv, Rightful
  <2>3. req[r] \in RequestRecord /\ DOMAIN req[r].files = 1 .. Len(req[r].files) /\ req[r].pc \in Pcs
    BY <2>2 DEF Typed, RequestRecord, FileSeqs
  <2>4. CASE Clouded(r)
    BY <2>1, <2>3, <2>4 DEF Clouded
  <2>5. CASE Claims(req[r], r, i)
    <3>1. i # 0 /\ req[r].files[i].ok /\ req[r].pc # "rejected" /\ (req[r].pc = "answered" => Lists(req[r], r, i))
      BY <2>5 DEF Claims
    <3>2. InProgress(r) \/ req[r].pc \in {"failed", "lost", "answered"}
      BY <2>3, <3>1 DEF InProgress, Over, Pcs
    <3>3. QED
      BY <2>1, <3>1, <3>2 DEF Lists
  <2>7. CASE i = 0 /\ HalfAt(req[r], p)
    <3>1. InProgress(r) \/ req[r].pc \in {"failed", "lost"}
      BY <2>7 DEF HalfAt, InProgress, Over
    <3>2. QED
      BY <2>1, <2>3, <2>7, <3>1 DEF HalfAt
  <2>6. QED
    BY <2>1, <2>2, <2>4, <2>5, <2>7
<1>2. QED
  BY <1>1, TypeCorrect, ClaimsCorrect, PTL

-------------------------------------------------------------------------------
(* What is under the names that were answered *)

Free == {"interceptor", "direct"}
Dated == {"image", "doc"}
Placing == {"name", "write", "copy"}

\* What the request r, which is o, has on the disk to answer.
Put(o, r) == [path |-> o.path, by |-> <<r, o.i>>]
Puts(o, r) == o.stored \cup IF o.pc = "unlink" THEN {Put(o, r)} ELSE {}

\* The name p of its n-th file was made while it was there, at c or before.
InTime(o, p, n, c) == p[1] = o.files[n].dir /\ p[2] \in o.since .. c

Placed(o, r, s, c) ==
    /\ s.by[1] = r /\ s.by[2] \in 1 .. Len(o.files)
    /\ o.way \in Free => s.path[2] = 0
    /\ o.way \in Dated => InTime(o, s.path, s.by[2], IF o.pc = "answered" THEN o.until ELSE c)
    /\ o.way # "interceptor" /\ o.pc \in Placing => s.by[2] < o.i

\* The name of the file it is at.
NamedWell(o, c) ==
    /\ o.way \in Free => o.path[2] = 0
    /\ o.way \in Dated => InTime(o, o.path, o.i, c)

Timed(o, r, c) ==
    /\ o.since \in 1 .. c
    /\ o.way \in {"direct", "doc"} => Len(o.files) = 1
    /\ \A s \in Puts(o, r) : Placed(o, r, s, c)
    /\ o.pc \in {"receive", "validate"} => o.stored = {}
    /\ o.pc \in {"write", "copy"} => NamedWell(o, c)

StampInv == clock >= 1 /\ \A r \in Requests : req[r] # Unsent => Timed(req[r], r, clock)

\* Requests that are in progress at once have met.
MetInv == \A r, q \in Requests : r # q /\ InProgress(r) /\ InProgress(q) => q \in ghost.met[r]

\* An image takes the place of one of its own, or has just opened it.
Own(o, r, s, w) ==
    /\ w[1] = r /\ o.way = "image"
    /\ \/ w[2] > s.by[2] /\ o.files[w[2]].dir = o.files[s.by[2]].dir
       \/ w[2] = 0 /\ (o.pc \in {"failed", "lost"} \/ (o.pc = "copy" /\ o.path = s.path))

\* The exceptions that AnsweredFilesAreKept names, before r is answered too.
Excused(r, s, w) ==
    \/ w = s.by
    \/ <<w[1], s.path>> \in ghost.blind
    \/ Own(req[r], r, s, w)
    \/ /\ w[1] # r /\ req[w[1]] # Unsent
       /\ \/ req[w[1]].way = "direct"
          \/ req[r].way \in Free /\ w[1] \in ghost.met[r]
          \/ req[r].way \in Dated /\ (req[r].pc = "answered" => req[w[1]].since <= req[r].until)

\* The request q is about to put its file under the name p.
Aims(q, p) == q.way = "interceptor" /\ q.pc \in {"write", "copy"} /\ q.path = p

\* Whoever found the name free before it was taken has met the request.
KeptInv ==
    ghost.clash = {} => \A r \in Requests : req[r] # Unsent => \A s \in Puts(req[r], r) :
        /\ s.path \in DOMAIN disk /\ Excused(r, s, disk[s.path])
        /\ \A q \in Requests : req[q] # Unsent /\ Aims(req[q], s.path) =>
               (r # q /\ q \in ghost.met[r]) \/ <<q, s.path>> \in ghost.blind

\* What a step may do to the request x.
Follows(x) ==
    LET o == req[x]  u == req'[x] IN
    /\ u # Unsent /\ u.files = o.files /\ u.way = o.way /\ u.since = o.since
    /\ u.pc = "answered" => u.until = clock \/ (o.pc = "answered" /\ u.until = o.until)
    /\ \A s \in Puts(u, x) : s \in Puts(o, x) \/
           (InProgress(x) /\ o.pc = "copy" /\ s = Put(o, x) /\ disk' = With(disk, o.path, o.bytes) /\ u.pc \notin {"write", "copy"})
    /\ u.way = "interceptor" /\ u.pc \in {"write", "copy"} =>
           /\ InProgress(x)
           /\ (o.pc \in {"write", "copy"} /\ u.path = o.path) \/ u.path \notin DOMAIN disk \/ <<x, u.path>> \in ghost'.blind
    /\ o.pc = "copy" /\ o.way = "image" =>
           u.pc \in {"failed", "lost"} \/ (u.pc = "copy" /\ u.path = o.path) \/ disk' = With(disk, o.path, o.bytes)
    /\ o.pc \in {"failed", "lost"} => u.pc = o.pc

LEMMA Same ==
    ASSUME NEW x \in Requests, req[x] # Unsent, req'[x] = req[x]
    PROVE  Follows(x)
  BY DEF Follows, InProgress, Over

\* The step of a request moves it and keeps its times right.
Moves(r) == Follows(r) /\ Timed(req'[r], r, clock)

LEMMA TimedStays ==
    ASSUME NEW o, NEW u, NEW r, NEW c, Timed(o, r, c), o.pc # "answered",
           u.files = o.files, u.way = o.way, u.since = o.since, Puts(u, r) \subseteq Puts(o, r),
           u.pc = "answered" => u.until = c,
           u.way # "interceptor" /\ u.pc \in Placing => Puts(u, r) = {} \/ (o.pc \in Placing /\ u.i = o.i),
           u.pc \in {"receive", "validate"} => u.stored = {},
           u.pc \in {"write", "copy"} => NamedWell(u, c)
    PROVE  Timed(u, r, c)
<1>1. ASSUME NEW s \in Puts(u, r)
      PROVE  Placed(u, r, s, c)
  <2>1. Placed(o, r, s, c)
    BY DEF Timed
  <2>2. QED
    BY <2>1 DEF Placed, InTime
<1>2. QED
  BY <1>1 DEF Timed

LEMMA TurnMoves ==
    ASSUME Typed, Phases, ClashInv, TracedInv, NEW r \in Requests,
           Receive(r) \/ InterceptorStep(r) \/ OtherStep(r) \/ Fail(r), Timed(req[r], r, clock)
    PROVE  Moves(r)
<1> DEFINE q == req[r]
<1>1. InProgress(r)
  BY DEF InterceptorStep, OtherStep, Receive, Received, MulterGivesUp, Validate, Probe, ProbeFails, OpenStream, PutStream, Unlink,
         Cleanup, CleanupFails, End, ValidateFile, NameVariant, OpenFile, PutVariant, Fail, AtStep, InProgress, Over
<1>2. /\ q # Unsent /\ q \in RequestRecord /\ Phase(q) /\ r \in DOMAIN req
      /\ Len(q.files) \in Nat /\ q.i \in Nat \ {0} /\ clock \in Nat /\ Timed(q, r, clock)
  <2>1. q.pc # "unsent"
    BY <1>1 DEF InProgress, Over
  <2>2. QED
    BY <2>1, Sent DEF Typed, RequestRecord
<1> HIDE DEF q
<1>3. \A o : req' = [req EXCEPT ![r] = o] => req'[r] = o
  BY <1>2
<1>4. q.pc \notin {"answered", "failed", "lost"} /\ q.since \in 1 .. clock
  BY <1>1, <1>2 DEF Over, Timed, InProgress, q
<1>5. ASSUME NEW u, req'[r] = u, u.files = q.files, u.way = q.way, u.since = q.since, u.stored = q.stored,
             u.pc \in {"receive", "validate", "probe", "cleanup", "answered", "rejected", "failed"},
             u.pc = "answered" => u.until = clock,
             u.pc \in {"receive", "validate"} => q.stored = {},
             q.way = "image" /\ q.pc = "copy" => u.pc = "failed"
      PROVE  Moves(r)
  <2>1. Puts(u, r) \subseteq Puts(q, r)
    BY <1>5 DEF Puts
  <2>2. Timed(u, r, clock)
    BY <1>2, <1>4, <1>5, <2>1, TimedStays DEF Placing
  <2>3. Follows(r)
    BY <1>4, <1>5, <2>1 DEF Follows, Unsent, q
  <2>4. QED
    BY <1>5, <2>2, <2>3 DEF Moves
<1>6. ASSUME NEW u, req'[r] = u, u.files = q.files, u.way = q.way, u.since = q.since, u.stored = q.stored,
             u.pc \in Placing, q.pc # "copy", q.stored = {} \/ q.way = "interceptor" \/ (q.pc \in Placing /\ u.i = q.i),
             u.pc \in {"write", "copy"} => NamedWell(u, clock),
             u.way = "interceptor" /\ u.pc \in {"write", "copy"} =>
                 (q.pc \in {"write", "copy"} /\ u.path = q.path) \/ u.path \notin DOMAIN disk \/ <<r, u.path>> \in ghost'.blind
      PROVE  Moves(r)
  <2>0. u.pc \in {"name", "write", "copy"}
    BY <1>6 DEF Placing
  <2>1. Puts(u, r) = q.stored /\ Puts(u, r) \subseteq Puts(q, r)
    BY <1>6, <2>0 DEF Puts
  <2>2. Timed(u, r, clock)
    BY <1>2, <1>4, <1>6, <2>0, <2>1, TimedStays
  <2>3. Follows(r)
    BY <1>1, <1>4, <1>6, <2>0, <2>1 DEF Follows, Unsent, q
  <2>4. QED
    BY <1>6, <2>2, <2>3 DEF Moves
<1>7. q.pc \in {"receive", "validate"} => q.stored = {}
  BY <1>2 DEF Timed
<1>8. ASSUME NEW pc \in {"answered", "rejected", "failed"}, Finish(r, pc), q.pc # "copy" \/ pc = "failed"
      PROVE  Moves(r)
  <2> DEFINE u == [q EXCEPT !.pc = pc, !.until = clock]
  <2>1. req'[r] = u
    BY <1>2, <1>8 DEF Finish, q
  <2>2. u.pc = pc /\ u.files = q.files /\ u.way = q.way /\ u.stored = q.stored /\ u.since = q.since /\ u.until = clock
    BY <1>2 DEF RequestRecord
  <2> HIDE DEF u
  <2>3. QED
    BY <1>5, <1>8, <2>1, <2>2
<1>9. CASE Receive(r)
  <2>1. q.pc = "receive" /\ \E ts : req'[r] = [q EXCEPT !.temps = ts]
    BY <1>2, <1>9 DEF Receive, q
  <2>2. PICK ts : req'[r] = [q EXCEPT !.temps = ts]
    BY <2>1
  <2>3. QED
    BY <1>2, <1>5, <1>7, <2>1, <2>2 DEF RequestRecord, q
<1>10. CASE Received(r)
  <2>1. q.pc = "receive"
    BY <1>10 DEF Received, q
  <2>2. CASE q.files = <<>>
    BY <1>8, <1>10, <2>1, <2>2 DEF Received, q
  <2>3. CASE q.files # <<>>
    <3>1. PICK L : req'[r] = [q EXCEPT !.pc = "validate", !.left = L]
      BY <1>2, <1>10, <2>3 DEF Received, q
    <3>2. QED
      BY <1>2, <1>5, <1>7, <2>1, <3>1 DEF RequestRecord, q
  <2>4. QED
    BY <2>2, <2>3
<1>11. CASE MulterGivesUp(r) \/ End(r)
  <2>1. q.then \in {"answered", "rejected", "failed"}
    BY <1>2 DEF RequestRecord
  <2>2. q.pc # "copy"
    BY <1>11 DEF MulterGivesUp, End, q
  <2>3. QED
    BY <1>8, <1>11, <2>1, <2>2 DEF MulterGivesUp, End, q
<1>12. CASE Validate(r)
  <2>1. q.pc = "validate" /\ (req'[r] = [q EXCEPT !.pc = "probe"] \/ req'[r] = [q EXCEPT !.pc = "cleanup", !.then = "rejected"])
    BY <1>2, <1>12 DEF Validate, Step, AtStep, q
  <2>2. QED
    BY <1>2, <1>5, <1>7, <2>1 DEF RequestRecord, q
<1>13. ASSUME req'[r] = [q EXCEPT !.pc = "write", !.path = Candidate(r)], q.pc = "probe", q.way = "interceptor",
              Candidate(r) \notin DOMAIN disk \/ <<r, Candidate(r)>> \in ghost'.blind
       PROVE  Moves(r)
  <2> DEFINE p == Candidate(r)
             u == [q EXCEPT !.pc = "write", !.path = p]
  <2>1. p[2] = 0
    BY DEF Candidate
  <2>2. req'[r] = u /\ (p \notin DOMAIN disk \/ <<r, p>> \in ghost'.blind)
    BY <1>13
  <2> HIDE DEF p
  <2>3. /\ u.pc = "write" /\ u.files = q.files /\ u.way = q.way /\ u.stored = q.stored /\ u.since = q.since
        /\ u.path = p
    BY <1>2 DEF RequestRecord
  <2> HIDE DEF u
  <2>4. NamedWell(u, clock)
    BY <1>13, <2>1, <2>3 DEF NamedWell, Dated
  <2>5. QED
    BY <1>6, <1>13, <2>2, <2>3, <2>4 DEF Placing
<1>14. CASE Probe(r)
  <2>1. q.pc = "probe" /\ q.way = "interceptor"
    BY <1>14 DEF Probe, AtStep, q
  <2>2. CASE Candidate(r) \in DOMAIN disk
    <3>1. req'[r] = [q EXCEPT !.k = @ + 1]
      BY <1>2, <1>14, <2>2 DEF Probe, q
    <3>2. QED
      BY <1>2, <1>5, <2>1, <3>1 DEF RequestRecord, q
  <2>3. CASE Candidate(r) \notin DOMAIN disk
    BY <1>2, <1>13, <1>14, <2>1, <2>3 DEF Probe, q
  <2>4. QED
    BY <2>2, <2>3
<1>15. CASE ProbeFails(r)
  <2>1. q.pc = "probe" /\ q.way = "interceptor" /\ req'[r] = [q EXCEPT !.pc = "write", !.path = Candidate(r)]
    BY <1>2, <1>15 DEF ProbeFails, AtStep, q
  <2>2. ghost' = [ghost EXCEPT !.blind = @ \cup {<<r, Candidate(r)>>}]
    BY <1>15 DEF ProbeFails
  <2>3. <<r, Candidate(r)>> \in ghost'.blind
    BY <2>2 DEF Typed, GhostSet
  <2>4. QED
    BY <1>13, <2>1, <2>3
<1>16. ASSUME NEW b, req'[r] = [q EXCEPT !.pc = "copy", !.bytes = b], q.pc = "write"
       PROVE  Moves(r)
  <2> DEFINE u == [q EXCEPT !.pc = "copy", !.bytes = b]
  <2>1. /\ u.pc = "copy" /\ u.files = q.files /\ u.way = q.way /\ u.stored = q.stored /\ u.since = q.since
        /\ u.path = q.path /\ u.i = q.i
    BY <1>2 DEF RequestRecord
  <2>2. req'[r] = u
    BY <1>16
  <2> HIDE DEF u
  <2>3. NamedWell(q, clock)
    BY <1>2, <1>16 DEF Timed
  <2>4. NamedWell(u, clock)
    BY <2>1, <2>3 DEF NamedWell, InTime
  <2>5. QED
    BY <1>6, <1>16, <2>1, <2>2, <2>4 DEF Placing
<1>17. CASE OpenStream(r)
  <2>1. q.pc = "write" /\ req'[r] = [q EXCEPT !.pc = "copy", !.bytes = temps[q.temps[q.i]]]
    BY <1>2, <1>17 DEF OpenStream, AtStep, q
  <2>2. QED
    BY <1>16, <2>1
<1>18. CASE OpenFile(r)
  <2>1. q.pc = "write" /\ req'[r] = [q EXCEPT !.pc = "copy", !.bytes = <<r, q.i>>]
    BY <1>2, <1>18 DEF OpenFile, AtStep, q
  <2>2. QED
    BY <1>16, <2>1
<1>19. CASE PutStream(r)
  <2> DEFINE u == [q EXCEPT !.pc = "unlink"]
  <2>1. q.pc = "copy" /\ q.way = "interceptor" /\ req'[r] = u /\ disk' = With(disk, q.path, q.bytes)
    BY <1>2, <1>19 DEF PutStream, Step, AtStep, q
  <2>2. /\ u.pc = "unlink" /\ u.files = q.files /\ u.way = q.way /\ u.stored = q.stored /\ u.since = q.since
        /\ u.i = q.i /\ u.path = q.path
    BY <1>2 DEF RequestRecord
  <2>3. q.i \in 1 .. Len(q.files)
    BY <1>2, <2>1 DEF Phase
  <2> HIDE DEF u
  <2>4. Puts(u, r) = q.stored \cup {Put(q, r)} /\ Puts(q, r) = q.stored
    BY <2>1, <2>2 DEF Puts, Put
  <2>5. q.path[2] = 0
    BY <1>2, <2>1 DEF Timed, NamedWell, Free
  <2>6. Placed(u, r, Put(q, r), clock)
    BY <2>1, <2>2, <2>3, <2>5 DEF Placed, Dated, Put
  <2>7. \A s \in q.stored : Placed(u, r, s, clock)
    BY <1>2, <2>1, <2>2, <2>4 DEF Placed, Dated, Timed
  <2>8. Timed(u, r, clock)
    BY <1>2, <2>1, <2>2, <2>4, <2>6, <2>7 DEF Timed
  <2>9. Follows(r)
    BY <1>1, <2>1, <2>2, <2>4 DEF Follows, Unsent, q
  <2>10. QED
    BY <2>1, <2>8, <2>9 DEF Moves
<1>20. CASE PutVariant(r)
  <2> DEFINE last == q.i = Len(q.files)
             u == [q EXCEPT !.pc = IF last THEN "answered" ELSE "name", !.i = IF last THEN @ ELSE @ + 1,
                            !.until = clock, !.stored = @ \cup {[path |-> q.path, by |-> <<r, q.i>>]}]
  <2>1. q.pc = "copy" /\ q.way \in {"image", "doc", "direct"} /\ req'[r] = u /\ disk' = With(disk, q.path, q.bytes)
    BY <1>2, <1>20 DEF PutVariant, AtStep, q
  <2>2. /\ u.pc = (IF last THEN "answered" ELSE "name") /\ u.i = (IF last THEN q.i ELSE q.i + 1) /\ u.until = clock
        /\ u.files = q.files /\ u.way = q.way /\ u.since = q.since /\ u.stored = q.stored \cup {Put(q, r)}
    BY <1>2 DEF RequestRecord, Put
  <2>3. q.i \in 1 .. Len(q.files)
    BY <1>2, <2>1 DEF Phase
  <2> HIDE DEF u, last
  <2>30. u.pc \in {"answered", "name"} /\ q.i \in Nat
    BY <1>2, <2>2
  <2>31. (u.pc = "answered" /\ u.i = q.i) \/ (u.pc = "name" /\ u.i = q.i + 1)
    BY <2>2
  <2>4. Puts(u, r) = q.stored \cup {Put(q, r)} /\ Puts(q, r) = q.stored
    BY <2>1, <2>2, <2>30 DEF Puts
  <2>5. NamedWell(q, clock)
    BY <1>2, <2>1 DEF Timed
  <2>6. Placed(u, r, Put(q, r), clock)
    <3>1. Put(q, r).by[1] = r /\ Put(q, r).by[2] = q.i /\ Put(q, r).path = q.path
      BY DEF Put
    <3>2. u.way \in Free => q.path[2] = 0
      BY <2>2, <2>5 DEF NamedWell
    <3>3. u.way \in Dated => InTime(u, q.path, q.i, IF u.pc = "answered" THEN u.until ELSE clock)
      BY <2>2, <2>5 DEF NamedWell, InTime
    <3>4. QED
      BY <2>2, <2>3, <2>30, <2>31, <3>1, <3>2, <3>3 DEF Placed, Placing
  <2>7. ASSUME NEW s \in q.stored
        PROVE  Placed(u, r, s, clock)
    <3>1. Placed(q, r, s, clock) /\ s.by[2] < q.i /\ s.by[2] \in Nat
      BY <1>2, <2>1, <2>4 DEF Placed, Placing, Timed
    <3>2. u.way \in Dated => InTime(u, s.path, s.by[2], IF u.pc = "answered" THEN u.until ELSE clock)
      BY <2>1, <2>2, <3>1 DEF Placed, InTime
    <3>3. s.by[2] < q.i + 1
      BY <2>30, <3>1
    <3>4. QED
      BY <2>2, <2>31, <3>1, <3>2, <3>3 DEF Placed, Placing
  <2>8. Timed(u, r, clock)
    BY <1>2, <2>2, <2>4, <2>6, <2>7, <2>30 DEF Timed
  <2>9. Follows(r)
    BY <1>1, <2>1, <2>2, <2>4, <2>30 DEF Follows, Unsent, q
  <2>10. QED
    BY <2>1, <2>8, <2>9 DEF Moves
<1>21. CASE Unlink(r)
  <2> DEFINE t == q.temps[q.i]
             last == q.i = Len(q.files)
             o == [q EXCEPT !.pc = IF last THEN "cleanup" ELSE "probe", !.i = IF last THEN @ ELSE @ + 1, !.k = 0,
                            !.left = @ \ {t}, !.stored = @ \cup {[path |-> q.path, by |-> <<r, q.i>>]}]
             u == [q EXCEPT !.pc = "cleanup", !.then = "failed"]
  <2>1. req' = [req EXCEPT ![r] = o] \/ req' = [req EXCEPT ![r] = u]
    BY <1>21 DEF Unlink, q
  <2>2. q.pc = "unlink" /\ q.way = "interceptor"
    BY <1>21 DEF Unlink, AtStep, q
  <2>3. /\ o.pc \in {"cleanup", "probe"} /\ o.files = q.files /\ o.way = q.way /\ o.since = q.since
        /\ o.stored = q.stored \cup {Put(q, r)}
    BY <1>2 DEF RequestRecord, Put
  <2>4. u.pc = "cleanup" /\ u.files = q.files /\ u.way = q.way /\ u.stored = q.stored /\ u.since = q.since
    BY <1>2 DEF RequestRecord
  <2> HIDE DEF o, u
  <2>5. CASE req' = [req EXCEPT ![r] = u]
    BY <1>3, <1>5, <2>2, <2>4, <2>5 DEF q
  <2>6. CASE req' = [req EXCEPT ![r] = o]
    <3>1. req'[r] = o
      BY <1>3, <2>6
    <3>2. Puts(o, r) = Puts(q, r)
      BY <2>2, <2>3 DEF Puts
    <3>3. Timed(o, r, clock)
      BY <1>2, <1>4, <2>2, <2>3, <3>2, TimedStays DEF Placing
    <3>4. Follows(r)
      BY <1>4, <2>2, <2>3, <3>1, <3>2 DEF Follows, Unsent, q
    <3>5. QED
      BY <3>1, <3>3, <3>4 DEF Moves
  <2>7. QED
    BY <2>1, <2>5, <2>6
<1>22. CASE Cleanup(r) \/ CleanupFails(r)
  <2>1. q.pc = "cleanup" /\ \E L : req'[r] = [q EXCEPT !.left = L]
    BY <1>2, <1>22 DEF Cleanup, CleanupFails, q
  <2>2. QED
    BY <1>2, <1>5, <2>1 DEF RequestRecord, q
<1>23. CASE ValidateFile(r)
  <2>1. q.pc = "validate"
    BY <1>23 DEF ValidateFile, AtStep, q
  <2>2. CASE ~Accepted(r)
    BY <1>8, <1>23, <2>1, <2>2 DEF ValidateFile, q
  <2>3. CASE Accepted(r)
    <3> DEFINE u == [q EXCEPT !.pc = "name"]
    <3>1. req'[r] = u
      BY <1>2, <1>23, <2>3 DEF ValidateFile, Step, q
    <3>2. u.pc = "name" /\ u.files = q.files /\ u.way = q.way /\ u.stored = q.stored /\ u.since = q.since
      BY <1>2 DEF RequestRecord
    <3> HIDE DEF u
    <3>3. QED
      BY <1>6, <1>7, <2>1, <3>1, <3>2 DEF Placing
  <2>4. QED
    BY <2>2, <2>3
<1>24. CASE NameVariant(r)
  <2> DEFINE p == IF q.way = "direct" THEN OwnName(File(r)) ELSE Stamped(File(r))
             u == [q EXCEPT !.pc = "write", !.path = p]
  <2>1. q.pc = "name" /\ q.way \in {"image", "doc", "direct"}
    BY <1>24 DEF NameVariant, AtStep, q
  <2>2. req'[r] = u
    BY <1>2, <1>24 DEF NameVariant, q
  <2>5. /\ q.way = "direct" => p[2] = 0
        /\ q.way # "direct" => p[1] = q.files[q.i].dir /\ p[2] = clock
    BY DEF Stamped, OwnName, File, q
  <2> HIDE DEF p
  <2>3. /\ u.pc = "write" /\ u.files = q.files /\ u.way = q.way /\ u.stored = q.stored /\ u.since = q.since
        /\ u.i = q.i /\ u.path = p
    BY <1>2 DEF RequestRecord
  <2> HIDE DEF u
  <2>6. NamedWell(u, clock)
    BY <1>2, <1>4, <2>1, <2>3, <2>5 DEF NamedWell, InTime, Free, Dated
  <2>7. QED
    BY <1>6, <2>1, <2>2, <2>3, <2>6 DEF Placing
<1>25. CASE Fail(r)
  <2>1. (req'[r] = [q EXCEPT !.pc = "cleanup", !.then = "failed"] /\ q.way = "interceptor") \/ Finish(r, "failed")
    BY <1>2, <1>25 DEF Fail, q
  <2>2. CASE req'[r] = [q EXCEPT !.pc = "cleanup", !.then = "failed"] /\ q.way = "interceptor"
    BY <1>2, <1>5, <2>2 DEF RequestRecord, q
  <2>3. QED
    BY <1>8, <2>1, <2>2 DEF q
<1>26. QED
  BY <1>9, <1>10, <1>11, <1>12, <1>14, <1>15, <1>17, <1>18, <1>19, <1>20, <1>21, <1>22, <1>23, <1>24, <1>25
     DEF InterceptorStep, OtherStep

\* A request overwrites what it has put, or what others have with an excuse.
LEMMA WriteExcused ==
    ASSUME Typed, Phases, StampInv, KeptInv, ghost.clash = {},
           NEW r \in Requests, req[r].pc \in {"write", "copy"}, NEW w \in {<<r, 0>>, <<r, req[r].i>>},
           NEW x \in Requests, req[x] # Unsent, NEW s \in Puts(req[x], x), s.path = req[r].path
    PROVE  Excused(x, s, w) \/ (x = r /\ req[r].way = "image" /\ w = <<r, 0>>)
<1> DEFINE o == req[r]
<1>1. o # Unsent /\ o \in RequestRecord /\ w[1] = r
  BY Sent
<1>2. Placed(req[x], x, s, clock) /\ Timed(o, r, clock) /\ Timed(req[x], x, clock) /\ NamedWell(o, clock) /\ clock \in Nat
  BY <1>1 DEF StampInv, Timed, Typed
<1>3. req[x] \in RequestRecord /\ req[x].way \in Free \cup Dated /\ o.way \in Free \cup Dated /\ req[x].until \in Nat
  BY <1>1, UploadsAssumption DEF Typed, RequestRecord, Free, Dated
<1>4. req[x].way \in Dated => s.path[2] \in req[x].since .. (IF req[x].pc = "answered" THEN req[x].until ELSE clock)
  BY <1>2 DEF Placed, InTime
<1>5. req[x].since \in 1 .. clock /\ o.since \in 1 .. clock
  BY <1>2 DEF Timed
<1>6. CASE o.way = "interceptor"
  <2>1. Aims(o, s.path) /\ o.path[2] = 0
    BY <1>2, <1>6 DEF Aims, NamedWell, Free
  <2>2. (x # r /\ r \in ghost.met[x]) \/ <<r, s.path>> \in ghost.blind
    BY <1>1, <2>1 DEF KeptInv
  <2>3. req[x].way \in Free
    BY <1>3, <1>4, <1>5, <2>1
  <2>4. QED
    BY <1>1, <2>2, <2>3 DEF Excused
<1>7. CASE x = r /\ o.way # "interceptor"
  <2>1. s.by[2] < o.i /\ s.by[2] \in 1 .. Len(o.files) /\ o.i \in Nat
    BY <1>1, <1>2, <1>7 DEF Placed, Placing, RequestRecord
  <2>2. o.i <= Len(o.files) /\ Len(o.files) \in Nat
    BY <1>1, <1>7, LenProperties DEF Phases, Phase, RequestRecord, FileSeqs
  <2>3. o.way = "image"
    <3>1. o.way \in {"direct", "doc"} => Len(o.files) = 1
      BY <1>2 DEF Timed
    <3> DEFINE b == s.by[2]  l == Len(o.files)  i == o.i
    <3>4. b < i /\ b \in 1 .. l /\ i \in Nat /\ i <= l /\ l \in Nat
      BY <2>1, <2>2
    <3> HIDE DEF b, l, i
    <3>5. l # 1
      BY <3>4
    <3>2. Len(o.files) # 1
      BY <3>5 DEF l
    <3>3. QED
      BY <1>3, <1>7, <3>1, <3>2 DEF Free, Dated
  <2>4. o.files[o.i].dir = o.files[s.by[2]].dir
    BY <1>2, <1>7, <2>3 DEF Placed, NamedWell, InTime, Dated
  <2>5. w = <<r, o.i>> => Own(o, r, s, w)
    BY <2>1, <2>3, <2>4 DEF Own
  <2>6. QED
    BY <1>7, <2>3, <2>5 DEF Excused
<1>8. CASE x # r /\ o.way = "direct"
  BY <1>1, <1>8 DEF Excused
<1>9. CASE x # r /\ o.way \in Dated
  <2>1. s.path[2] \in o.since .. clock
    BY <1>2, <1>9 DEF NamedWell, InTime
  <2>2. req[x].way \in Dated
    BY <1>2, <1>3, <1>5, <2>1 DEF Placed
  <2>3. req[x].pc = "answered" => o.since <= req[x].until
    BY <1>3, <1>4, <1>5, <2>1, <2>2
  <2>4. QED
    BY <1>1, <1>9, <2>2, <2>3 DEF Excused
<1>10. QED
  BY <1>3, <1>6, <1>7, <1>8, <1>9 DEF Free

\* What is excused stays excused, whatever else requests do.
LEMMA ExcusedStays ==
    ASSUME StampInv, NEW x \in Requests, NEW s, NEW w \in Content, Excused(x, s, w), req[x] # Unsent, clock \in Nat,
           \A y \in Requests : req[y] # Unsent => Follows(y),
           ghost.met[x] \subseteq ghost'.met[x], ghost.blind \subseteq ghost'.blind,
           Own(req[x], x, s, w) => Own(req'[x], x, s, w)
    PROVE  Excused(x, s, w)'
<1> DEFINE y == w[1]
<1>1. y \in Requests /\ Follows(x)
  BY DEF Content
<1>2. req'[x].way = req[x].way /\ (req'[x].pc = "answered" => req'[x].until = clock \/ (req[x].pc = "answered" /\ req'[x].until = req[x].until))
  BY <1>1 DEF Follows
<1>3. CASE w = s.by
  BY <1>3 DEF Excused
<1>4. CASE <<w[1], s.path>> \in ghost.blind
  BY <1>4 DEF Excused
<1>5. CASE Own(req[x], x, s, w)
  <2>1. Own(req'[x], x, s, w)
    BY <1>5
  <2>2. Own(req[x], x, s, w)'
    BY <2>1 DEF Own
  <2>3. QED
    BY <2>2 DEF Excused
<1>6. CASE /\ y # x /\ req[y] # Unsent
           /\ \/ req[y].way = "direct"
              \/ req[x].way \in Free /\ y \in ghost.met[x]
              \/ req[x].way \in Dated /\ (req[x].pc = "answered" => req[y].since <= req[x].until)
  <2>1. req'[y] # Unsent /\ req'[y].way = req[y].way /\ req'[y].since = req[y].since /\ req[y].since <= clock
    <3>1. Follows(y) /\ Timed(req[y], y, clock)
      BY <1>1, <1>6 DEF StampInv
    <3>2. req[y].since \in 1 .. clock
      BY <3>1 DEF Timed
    <3>3. QED
      BY <3>1, <3>2 DEF Follows
  <2>2. req[x].way \in Dated /\ (req[x].pc = "answered" => req[y].since <= req[x].until)
        => (req'[x].pc = "answered" => req'[y].since <= req'[x].until)
    BY <1>2, <2>1
  <2>3. /\ y # x /\ req'[y] # Unsent
        /\ \/ req'[y].way = "direct"
           \/ req'[x].way \in Free /\ y \in ghost'.met[x]
           \/ req'[x].way \in Dated /\ (req'[x].pc = "answered" => req'[y].since <= req'[x].until)
    BY <1>2, <1>6, <2>1, <2>2
  <2> HIDE DEF y
  <2>4. QED
    BY <2>3 DEF Excused, y, Unsent, Free, Dated
<1>7. QED
  BY <1>3, <1>4, <1>5, <1>6 DEF Excused

\* What is on the disk changes by what one request writes.
Written(r, w) ==
    /\ req[r].pc \in {"write", "copy"} /\ w \in {<<r, 0>>, <<r, req[r].i>>}
    /\ disk' = With(disk, req[r].path, w)
    /\ w = <<r, 0>> => (req'[r].pc = "copy" /\ req'[r].path = req[r].path) \/ req'[r].pc \in {"failed", "lost"}
                         \/ req[r].way # "image"

\* A step after which what was answered is still there.
LEMMA KeptStays ==
    ASSUME Typed, Phases, ClaimInv, StampInv, MetInv, KeptInv,
           ghost.clash \subseteq ghost'.clash, ghost.blind \subseteq ghost'.blind,
           \A x \in Requests : req[x] # Unsent => Follows(x) /\ ghost.met[x] \subseteq ghost'.met[x],
           \A x \in Requests : req[x] = Unsent /\ req'[x] # Unsent => Puts(req'[x], x) = {} /\ req'[x].pc \notin {"write", "copy"},
           ghost.clash = {} => disk' = disk \/ \E r \in Requests : \E w : Written(r, w)
    PROVE  KeptInv'
<1> SUFFICES ASSUME ghost'.clash = {}, NEW x \in Requests, req'[x] # Unsent, NEW s \in Puts(req'[x], x)
             PROVE  /\ s.path \in DOMAIN disk' /\ Excused(x, s, disk[s.path])'
                    /\ \A q \in Requests : req'[q] # Unsent /\ Aims(req'[q], s.path) =>
                           (x # q /\ q \in ghost'.met[x]) \/ <<q, s.path>> \in ghost'.blind
  BY DEF KeptInv, Unsent, Puts, Put, Aims
<1>1. ghost.clash = {} /\ req[x] # Unsent /\ Follows(x) /\ ghost.met[x] \subseteq ghost'.met[x]
  OBVIOUS
<1>2. /\ disk' = disk \/ \E r \in Requests : \E w : Written(r, w)
      /\ DOMAIN disk \subseteq DOMAIN disk'
  BY <1>1 DEF Written, With
<1>6. req[x].pc = "copy" => req[x].bytes = <<x, req[x].i>> /\ req[x].i \in Nat \ {0}
  BY <1>1 DEF ClaimInv, Loads, Clouded, Typed, RequestRecord
<1>3. CASE s \in Puts(req[x], x)
  <2>1. s.path \in DOMAIN disk /\ Excused(x, s, disk[s.path])
    BY <1>1, <1>3 DEF KeptInv
  <2>2. ASSUME NEW q \in Requests, req'[q] # Unsent, Aims(req'[q], s.path)
        PROVE  (x # q /\ q \in ghost'.met[x]) \/ <<q, s.path>> \in ghost'.blind
    <3>1. req[q] # Unsent /\ Follows(q)
      BY <2>2 DEF Aims
    <3>2. \/ req[q].way = "interceptor" /\ req[q].pc \in {"write", "copy"} /\ req[q].path = s.path
          \/ <<q, s.path>> \in ghost'.blind
      BY <2>1, <2>2, <3>1 DEF Aims, Follows
    <3>3. CASE req[q].way = "interceptor" /\ req[q].pc \in {"write", "copy"} /\ req[q].path = s.path
      BY <1>1, <1>3, <3>1, <3>3 DEF KeptInv, Aims
    <3>4. QED
      BY <3>2, <3>3
  <2>3. PICK v \in Content : disk[s.path] = v
    BY <2>1 DEF Typed
  <2>4. Excused(x, s, v)
    BY <2>1, <2>3
  <2>5. ASSUME disk'[s.path] = v, Own(req[x], x, s, v), ~Own(req'[x], x, s, v)
        PROVE  disk' = With(disk, s.path, req[x].bytes) /\ req[x].pc = "copy" /\ req[x].path = s.path
    <3>1. req'[x].way = req[x].way /\ req'[x].files = req[x].files
      BY <1>1 DEF Follows
    <3>2. req[x].way = "image" /\ req[x].pc = "copy" /\ req[x].path = s.path
      BY <1>1, <2>5, <3>1 DEF Own, Follows
    <3>3. QED
      BY <1>1, <2>5, <3>1, <3>2 DEF Own, Follows
  <2>6. ASSUME NEW y \in Content, Excused(x, s, y), disk'[s.path] = y, Own(req[x], x, s, y) => Own(req'[x], x, s, y)
        PROVE  Excused(x, s, disk[s.path])'
    <3>1. Excused(x, s, y)'
      BY <1>1, <2>6, ExcusedStays DEF Typed
    <3>2. QED
      BY <2>6, <3>1 DEF Excused
  <2>7. ASSUME NEW r \in Requests, NEW w, Written(r, w), req[r].path = s.path
        PROVE  Excused(x, s, disk[s.path])'
    <3>1. disk'[s.path] = w /\ req[r].pc \in {"write", "copy"} /\ w \in {<<r, 0>>, <<r, req[r].i>>}
      BY <2>7 DEF Written, With
    <3>2. w \in Content /\ w[1] = r /\ req[r].i # 0
      BY <3>1, Sent DEF Content, RequestRecord
    <3>3. Excused(x, s, w) \/ (x = r /\ req[r].way = "image" /\ w = <<r, 0>>)
      BY <1>1, <1>3, <2>7, <3>1, WriteExcused
    <3>4. CASE x = r /\ req[r].way = "image" /\ w = <<r, 0>>
      <4>1. req'[x].pc \in {"failed", "lost"} \/ (req'[x].pc = "copy" /\ req'[x].path = s.path)
        BY <2>7, <3>4 DEF Written
      <4>2. Own(req'[x], x, s, w)
        BY <1>1, <3>4, <4>1 DEF Own, Follows
      <4>3. Own(req[x], x, s, w)'
        BY <4>2 DEF Own
      <4>4. QED
        BY <3>1, <4>3 DEF Excused
    <3>5. CASE Excused(x, s, w) /\ ~(x = r /\ req[r].way = "image" /\ w = <<r, 0>>)
      <4>1. Own(req[x], x, s, w) => Own(req'[x], x, s, w)
        BY <1>1, <3>1, <3>2, <3>5 DEF Own, Follows
      <4>2. QED
        BY <2>6, <3>1, <3>2, <3>5, <4>1
    <3>6. QED
      BY <3>3, <3>4, <3>5
  <2>8. ASSUME disk'[s.path] = v, Own(req[x], x, s, v) => Own(req'[x], x, s, v)
        PROVE  Excused(x, s, disk[s.path])'
    BY <2>3, <2>4, <2>6, <2>8
  <2>9. ASSUME disk' = With(disk, s.path, req[x].bytes) /\ req[x].pc = "copy" /\ req[x].path = s.path
        PROVE  Excused(x, s, disk[s.path])'
    <3>1. Written(x, <<x, req[x].i>>)
      BY <1>1, <1>6, <2>9 DEF Written
    <3>2. QED
      BY <2>7, <2>9, <3>1
  <2>10. disk'[s.path] = v => Excused(x, s, disk[s.path])'
    BY <2>5, <2>8, <2>9
  <2>11. ASSUME disk' = disk
         PROVE  Excused(x, s, disk[s.path])'
    <3>1. disk'[s.path] = v
      BY <2>3, <2>11
    <3>2. QED
      BY <2>10, <3>1
  <2>12. ASSUME NEW r \in Requests, NEW w, Written(r, w)
         PROVE  Excused(x, s, disk[s.path])'
    <3>1. CASE req[r].path = s.path
      BY <2>7, <2>12, <3>1
    <3>2. CASE req[r].path # s.path
      <4>1. disk'[s.path] = v
        BY <2>1, <2>3, <2>12, <3>2 DEF Written, With
      <4>2. QED
        BY <2>10, <4>1
    <3>3. QED
      BY <3>1, <3>2
  <2>13. QED
    BY <1>2, <2>1, <2>2, <2>11, <2>12
<1>4. CASE s \notin Puts(req[x], x)
  <2>1. /\ InProgress(x) /\ req[x].pc = "copy" /\ s = Put(req[x], x) /\ disk' = With(disk, req[x].path, req[x].bytes)
        /\ req'[x].pc \notin {"write", "copy"}
    BY <1>1, <1>4 DEF Follows
  <2>2. s.path = req[x].path /\ s.by = <<x, req[x].i>>
    BY <2>1 DEF Put
  <2>3. s.path \in DOMAIN disk' /\ disk'[s.path] = s.by
    BY <1>1, <1>6, <2>1, <2>2 DEF With
  <2>4. Excused(x, s, disk[s.path])'
    BY <2>3 DEF Excused
  <2>5. ASSUME NEW q \in Requests, req'[q] # Unsent, Aims(req'[q], s.path)
        PROVE  x # q /\ q \in ghost'.met[x]
    <3>1. req[q] # Unsent /\ Follows(q) /\ x # q
      BY <2>1, <2>5 DEF Aims
    <3>2. InProgress(q)
      BY <2>5, <3>1 DEF Aims, Follows
    <3>3. QED
      BY <2>1, <3>1, <3>2 DEF MetInv
  <2>6. QED
    BY <2>3, <2>4, <2>5
<1>5. QED
  BY <1>3, <1>4

LEMMA StampsStay ==
    ASSUME clock' >= 1, \A x \in Requests : req'[x] # Unsent => Timed(req'[x], x, clock')
    PROVE  StampInv'
<1>1. ASSUME NEW x \in Requests, req'[x] # Unsent
      PROVE  Timed(req[x], x, clock)'
  <2>1. Timed(req'[x], x, clock')
    BY <1>1
  <2>2. QED
    BY <2>1 DEF Timed, Placed, InTime, NamedWell, Puts, Put, Free, Dated, Placing
<1>2. QED
  BY <1>1 DEF StampInv, Unsent

LEMMA MetStays ==
    ASSUME MetInv, ghost'.met = ghost.met, \A x \in Requests : InProgress(x)' => InProgress(x)
    PROVE  MetInv'
  BY DEF MetInv

\* The step of one request.
LEMMA TurnKeeps ==
    ASSUME Typed, Phases, ClashInv, TracedInv, ClaimInv, StampInv, MetInv, KeptInv, NEW r \in Requests,
           Receive(r) \/ InterceptorStep(r) \/ OtherStep(r) \/ Fail(r)
    PROVE  StampInv' /\ MetInv' /\ KeptInv'
<1>1. InProgress(r)
  BY DEF InterceptorStep, OtherStep, Receive, Received, MulterGivesUp, Validate, Probe, ProbeFails, OpenStream, PutStream, Unlink,
         Cleanup, CleanupFails, End, ValidateFile, NameVariant, OpenFile, PutVariant, Fail, AtStep, InProgress, Over
<1>2. req[r] # Unsent /\ req[r].pc # "unsent"
  BY <1>1 DEF InProgress, Over, Unsent
<1>3. /\ \A x \in Requests \ {r} : req'[x] = req[x]
      /\ ghost'.met = ghost.met /\ ghost.clash \subseteq ghost'.clash /\ ghost.blind \subseteq ghost'.blind
  <2>1. CASE Receive(r)
    BY <2>1 DEF Receive, Typed, GhostSet
  <2>2. CASE ~Receive(r)
    BY <2>2, Turns DEF Turn, Recorded
  <2>3. QED
    BY <2>1, <2>2
<1>4. clock' = clock
  BY DEF InterceptorStep, OtherStep, Receive, Received, MulterGivesUp, Validate, Probe, ProbeFails, OpenStream, PutStream, Unlink,
         Cleanup, CleanupFails, End, ValidateFile, NameVariant, OpenFile, PutVariant, Fail, Quiet
<1>5. Moves(r)
  BY <1>2, TurnMoves DEF StampInv
<1>6. StampInv'
  BY <1>3, <1>4, <1>5, StampsStay DEF StampInv, Moves
<1>7. MetInv'
  BY <1>1, <1>3, MetStays DEF InProgress, Over
<1>8. \A x \in Requests : req[x] # Unsent => Follows(x)
  BY <1>3, <1>5, Same DEF Moves
<1>9. ghost.clash = {} => disk' = disk \/ \E x \in Requests : \E w : Written(x, w)
  <2> SUFFICES ASSUME ghost.clash = {}
               PROVE  disk' = disk \/ \E x \in Requests : \E w : Written(x, w)
    OBVIOUS
  <2>1. CASE Receive(r)
    BY <2>1 DEF Receive
  <2>2. CASE ~Receive(r)
    <3>1. Writes(r)
      BY <2>2, WritesSo
    <3>2. CASE /\ req[r].pc = "write" /\ disk' = With(disk, req[r].path, Half(r))
               /\ req'[r].pc = "copy" /\ req'[r].path = req[r].path
      <4>1. Written(r, <<r, 0>>)
        BY <3>2 DEF Written, Half
      <4>2. QED
        BY <4>1
    <3>3. CASE req[r].pc = "copy" /\ disk' = With(disk, req[r].path, req[r].bytes)
      <4>1. req[r].bytes = <<r, req[r].i>> /\ req[r].i # 0
        BY <1>2, <3>3 DEF ClaimInv, Loads, Clouded, Typed, RequestRecord
      <4>2. Written(r, <<r, req[r].i>>)
        BY <3>3, <4>1 DEF Written
      <4>3. QED
        BY <4>2
    <3>4. QED
      BY <3>1, <3>2, <3>3 DEF Writes
  <2>3. QED
    BY <2>1, <2>2
<1>10. \A x \in Requests : req[x] = Unsent => req'[x] = Unsent
  BY <1>2, <1>3
<1>11. KeptInv'
  BY <1>3, <1>8, <1>9, <1>10, KeptStays
<1>12. QED
  BY <1>6, <1>7, <1>11

LEMMA SendKeeps ==
    ASSUME Typed, Phases, ClaimInv, StampInv, MetInv, KeptInv,
           NEW r \in Requests, NEW way \in Ways, NEW fs \in Files(way), Send(r, way, fs)
    PROVE  StampInv' /\ MetInv' /\ KeptInv'
<1>1. /\ \A x \in Requests \ {r} : req'[x] = req[x]
      /\ req[r] = Unsent /\ disk' = disk /\ clock' = clock /\ ghost'.clash = ghost.clash /\ ghost'.blind = ghost.blind
      /\ req'[r].pc \in {"receive", "validate", "name"} /\ req'[r].stored = {} /\ req'[r].since = clock
      /\ req'[r].way = way /\ req'[r].files = fs
  BY DEF Send, Typed, GhostSet
<1>2. /\ \A x \in Requests \ {r} : ghost.met[x] \subseteq ghost'.met[x] /\ (InProgress(x) => r \in ghost'.met[x])
      /\ \A x \in Requests : InProgress(x) => x \in ghost'.met[r]
      /\ ~InProgress(r)
  BY DEF Send, Typed, InProgress, Over, Unsent, GhostSet
<1>3. Puts(req'[r], r) = {} /\ req'[r].pc \notin {"write", "copy"}
  BY <1>1 DEF Puts
<1>4. Timed(req'[r], r, clock)
  <2>1. way \in {"direct", "doc"} => Len(fs) = 1
    BY FilesOfWays, FunctionIsSequence
  <2>2. QED
    BY <1>1, <1>3, <2>1 DEF Timed, StampInv, Typed
<1>5. StampInv'
  BY <1>1, <1>4, StampsStay DEF StampInv
<1>6. MetInv'
  BY <1>1, <1>2 DEF MetInv, InProgress, Over
<1>7. KeptInv'
  <2>1. \A x \in Requests : req[x] # Unsent => Follows(x)
    BY <1>1, Same
  <2>2. \A x \in Requests : req[x] = Unsent /\ req'[x] # Unsent => Puts(req'[x], x) = {} /\ req'[x].pc \notin {"write", "copy"}
    BY <1>1, <1>3
  <2>3. \A x \in Requests : req[x] # Unsent => ghost.met[x] \subseteq ghost'.met[x]
    BY <1>1, <1>2
  <2>4. QED
    BY <1>1, <2>1, <2>2, <2>3, KeptStays
<1>8. QED
  BY <1>5, <1>6, <1>7

LEMMA LoseFollows ==
    ASSUME Typed, Phases, StampInv, Lose
    PROVE  \A x \in Requests : IF req[x] = Unsent THEN req'[x] = Unsent
               ELSE /\ req'[x] # Unsent /\ Follows(x) /\ Timed(req'[x], x, clock)
                    /\ req'[x].pc = "lost" \/ (~InProgress(x) /\ req'[x] = req[x])
<1> SUFFICES ASSUME NEW x \in Requests
             PROVE  IF req[x] = Unsent THEN req'[x] = Unsent
                    ELSE /\ req'[x] # Unsent /\ Follows(x) /\ Timed(req'[x], x, clock)
                         /\ req'[x].pc = "lost" \/ (~InProgress(x) /\ req'[x] = req[x])
  OBVIOUS
<1>1. CASE InProgress(x)
  <2> DEFINE o == req[x]
             u == [o EXCEPT !.pc = "lost", !.until = clock]
  <2>1. o # Unsent /\ o \in RequestRecord /\ o.pc \notin {"answered", "failed", "lost"}
    BY <1>1, Sent DEF InProgress, Over
  <2>2. req'[x] = u
    BY <1>1 DEF Lose
  <2>3. u.pc = "lost" /\ u.files = o.files /\ u.way = o.way /\ u.since = o.since /\ u.stored = o.stored
    BY <2>1 DEF RequestRecord
  <2>4. Timed(o, x, clock)
    BY <2>1 DEF StampInv
  <2> HIDE DEF u, o
  <2>5. Puts(u, x) \subseteq Puts(o, x)
    BY <2>3 DEF Puts
  <2>6. Timed(u, x, clock)
    BY <2>1, <2>3, <2>4, <2>5, TimedStays DEF Placing
  <2>7. u # Unsent
    BY <2>3 DEF Unsent
  <2>8. Follows(x)
    BY <2>1, <2>2, <2>3, <2>5, <2>7 DEF Follows, o
  <2>9. QED
    BY <2>1, <2>2, <2>3, <2>6, <2>7, <2>8 DEF o
<1>2. CASE ~InProgress(x)
  BY <1>2, Same DEF Lose, StampInv
<1>3. QED
  BY <1>1, <1>2

LEMMA LoseKeeps ==
    ASSUME Typed, Phases, ClaimInv, StampInv, MetInv, KeptInv, Lose, clock' = clock, ghost' = ghost,
           disk' = disk \/ \E r \in Requests : req[r].pc \in {"write", "copy"} /\ disk' = With(disk, req[r].path, Half(r))
    PROVE  StampInv' /\ MetInv' /\ KeptInv'
<1>1. \A x \in Requests : IF req[x] = Unsent THEN req'[x] = Unsent
          ELSE /\ req'[x] # Unsent /\ Follows(x) /\ Timed(req'[x], x, clock)
               /\ req'[x].pc = "lost" \/ (~InProgress(x) /\ req'[x] = req[x])
  BY LoseFollows
<1>2. StampInv'
  BY <1>1, StampsStay DEF StampInv
<1>3. MetInv'
  <2>1. \A x \in Requests : InProgress(x)' => InProgress(x)
    BY <1>1 DEF InProgress, Over
  <2>2. QED
    BY <2>1, MetStays
<1>4. KeptInv'
  <2>1. ASSUME NEW r \in Requests, req[r].pc \in {"write", "copy"}, disk' = With(disk, req[r].path, Half(r))
        PROVE  Written(r, <<r, 0>>)
    <3>1. req[r] # Unsent /\ InProgress(r)
      BY <2>1, Sent DEF InProgress, Over
    <3>2. req'[r].pc = "lost"
      BY <1>1, <3>1
    <3>3. QED
      BY <2>1, <3>2 DEF Written, Half
  <2>2. disk' = disk \/ \E r \in Requests : \E w : Written(r, w)
    BY <2>1
  <2>3. QED
    BY <1>1, <2>2, KeptStays
<1>5. QED
  BY <1>2, <1>3, <1>4

LEMMA TickKeeps ==
    ASSUME Typed, Phases, ClaimInv, StampInv, MetInv, KeptInv, Tick \/ UNCHANGED vars
    PROVE  StampInv' /\ MetInv' /\ KeptInv'
<1>1. disk' = disk /\ req' = req /\ ghost' = ghost /\ clock \in Nat /\ clock' \in {clock, clock + 1}
  BY DEF Tick, vars, Typed
<1>2. ASSUME NEW x \in Requests, req[x] # Unsent
      PROVE  Timed(req[x], x, clock')
  <2>1. Timed(req[x], x, clock)
    BY <1>2 DEF StampInv
  <2>2. ASSUME NEW s \in Puts(req[x], x)
        PROVE  Placed(req[x], x, s, clock')
    <3>1. Placed(req[x], x, s, clock)
      BY <2>1 DEF Timed
    <3>2. QED
      BY <1>1, <3>1 DEF Placed, InTime
  <2>3. QED
    BY <1>1, <2>1, <2>2 DEF Timed, NamedWell, InTime
<1>3. StampInv'
  BY <1>1, <1>2, StampsStay DEF StampInv
<1>4. MetInv'
  BY <1>1, MetStays DEF InProgress
<1>5. KeptInv'
  <2>1. \A x \in Requests : req[x] # Unsent => Follows(x)
    BY <1>1, Same
  <2>2. QED
    BY <1>1, <2>1, KeptStays
<1>6. QED
  BY <1>3, <1>4, <1>5

\* The files of an answered request are kept as they were sent, but for the
\* requests and the failed checks that the property names:
\* FileUploadInterceptor's search for a free name and the time in the names of
\* FileService keep all others off.
THEOREM FilesKept == Spec => []AnsweredFilesAreKept
<1>1. Init => StampInv /\ MetInv /\ KeptInv
  BY DEF Init, StampInv, MetInv, KeptInv, InProgress, Over, Unsent
<1>2. Typed /\ Phases /\ ClashInv /\ TracedInv /\ ClaimInv /\ StampInv /\ MetInv /\ KeptInv /\ [Next]_vars
      => StampInv' /\ MetInv' /\ KeptInv'
  <2> SUFFICES ASSUME Typed, Phases, ClashInv, TracedInv, ClaimInv, StampInv, MetInv, KeptInv, [Next]_vars
               PROVE  StampInv' /\ MetInv' /\ KeptInv'
    OBVIOUS
  <2>1. ASSUME NEW r \in Requests, StreamError(r)
        PROVE  StampInv' /\ MetInv' /\ KeptInv'
    <3>1. Lose /\ clock' = clock /\ ghost' = ghost /\ req[r].pc \in {"write", "copy"}
          /\ (disk' = disk \/ disk' = With(disk, req[r].path, Half(r)))
      BY <2>1 DEF StreamError, AtStep
    <3>2. QED
      BY <3>1, LoseKeeps
  <2>2. CASE Restart
    <3>1. Lose /\ disk' = disk /\ clock' = clock /\ ghost' = ghost
      BY <2>2 DEF Restart
    <3>2. QED
      BY <3>1, LoseKeeps
  <2>3. QED
    BY <2>1, <2>2, SendKeeps, TurnKeeps, TickKeeps DEF Next, InterceptorStep, OtherStep
<1>3. Typed /\ StampInv /\ KeptInv => AnsweredFilesAreKept
  <2> SUFFICES ASSUME Typed, StampInv, KeptInv, NEW r \in Requests, req[r].pc = "answered", NEW s \in req[r].stored,
                      ghost.clash = {}
               PROVE  LET w == IF s.path \in DOMAIN disk THEN disk[s.path] ELSE Half(r)  q == w[1] IN
                      \/ w = s.by
                      \/ <<q, s.path>> \in ghost.blind
                      \/ q = r /\ req[r].way = "image" /\ w[2] > s.by[2] /\ req[r].files[w[2]].dir = req[r].files[s.by[2]].dir
                      \/ q # r /\ \/ req[q].way = "direct"
                                  \/ req[r].way \in {"interceptor", "direct"} /\ q \in ghost.met[r]
                                  \/ req[r].way \in {"image", "doc"} /\ req[q].since <= req[r].until
    BY DEF AnsweredFilesAreKept
  <2>1. req[r] # Unsent /\ s \in Puts(req[r], r)
    BY DEF Unsent, Puts
  <2>2. s.path \in DOMAIN disk /\ Excused(r, s, disk[s.path])
    BY <2>1 DEF KeptInv
  <2>3. QED
    BY <2>2 DEF Excused, Own, Free, Dated
<1>4. QED
  BY <1>1, <1>2, <1>3, TypeCorrect, ClashesCorrect, TempsTraced, ClaimsCorrect, PTL DEF Spec
===============================================================================
