--------------------------- MODULE FileStoreProofs ---------------------------
(***************************************************************************)
(* Proofs about FileStore, for any number of requests and uploads.         *)
(***************************************************************************)
EXTENDS FileStore, TLAPS

-------------------------------------------------------------------------------
(* The inductive invariant *)

\* Public ids that were not drawn yet are unused.
FreshIsUnused ==
    \A f \in Files : f >= nextFile =>
        /\ f \notin rows /\ blob[f] = "absent" /\ put[f] = "none"
        /\ f \notin gone /\ f \notin cut
        /\ \A r \in Requests : req[r] # Idle => req[r].f # f

\* An upload that has not saved its row is the only one to know its file, and
\* the file is whole or explained.
SavingIsPrivate ==
    \A r \in Requests : req[r].pc = "save" =>
        /\ req[r].f \notin rows /\ req[r].f \notin gone /\ req[r].f \notin cut
        /\ \A q \in Requests \ {r} : req[q] # Idle => req[q].f # req[r].f
        /\ blob[req[r].f] = "whole" \/ put[req[r].f] # "none"
               \/ req[r].f \in broken

\* A delete that unlinked its file met a write that had created it.
DeletingIsClean ==
    \A r \in Requests : req[r].pc = "delete" =>
        blob[req[r].f] = "absent" /\ put[req[r].f] # "issued"

\* Where a write stands.
WritesAreTracked ==
    \A f \in Files :
        /\ put[f] = "issued" => blob[f] = "absent"
        /\ put[f] = "issued" /\ f \notin rows => f \in unsaved \cup At("save", Requests)
        /\ put[f] = "writing" /\ blob[f] # "partial" =>
               f \in cut \cup gone \cup At("delete", Requests)

Inv ==
    /\ TypeOK
    /\ FreshIsUnused
    /\ SavingIsPrivate
    /\ DeletingIsClean
    /\ WritesAreTracked
    /\ DeletedMeansGone
    /\ MissingFilesAreExplained
    /\ OrphansComeFromUploads

\* The handlers at a step, spelled out.
LEMMA AtDef ==
    ASSUME NEW pc, NEW Q, NEW f
    PROVE f \in At(pc, Q) <=> \E r \in Q : req[r].pc = pc /\ req[r].f = f
  BY DEF At

LEMMA HandlerFields ==
    ASSUME TypeOK, NEW r \in Requests
    PROVE /\ \/ req[r] = Idle
             \/ req[r].f \in Files /\ req[r].pc \in {"save", "unlink", "delete"}
          /\ req[r].pc \in {"idle", "save", "unlink", "delete"}
          /\ req[r].pc = "idle" <=> req[r] = Idle
  BY DEF TypeOK, Handler, Idle

\* Every variable keeps its type.
THEOREM TypeCorrect == Spec => []TypeOK
<1>1. Init => TypeOK
  BY FilesAssumption DEF Init, TypeOK, Handler
<1>2. TypeOK /\ [Next]_vars => TypeOK'
  <2> SUFFICES ASSUME TypeOK, [Next]_vars PROVE TypeOK'
    OBVIOUS
  <2> USE FilesAssumption, HandlerFields DEF TypeOK, Handler, Files, Answer
  <2>1. ASSUME NEW r \in Requests, StartUpload(r) PROVE TypeOK'
    BY <2>1 DEF StartUpload, history
  <2>2. ASSUME NEW r \in Requests, SaveRow(r) PROVE TypeOK'
    BY <2>2 DEF SaveRow, history
  <2>3. ASSUME NEW r \in Requests, Unlink(r) PROVE TypeOK'
    BY <2>3 DEF Unlink, history
  <2>4. ASSUME NEW r \in Requests, UnlinkMissing(r) PROVE TypeOK'
    BY <2>4 DEF UnlinkMissing, history
  <2>5. ASSUME NEW r \in Requests, DeleteRow(r) PROVE TypeOK'
    BY <2>5 DEF DeleteRow
  <2>6. ASSUME NEW r \in Requests, FailIO(r) PROVE TypeOK'
    BY <2>6 DEF FailIO, At
  <2>7. ASSUME NEW r \in Requests, NEW f \in Files, FindRow(r, f)
      PROVE TypeOK'
    BY <2>7 DEF FindRow, history
  <2>8. ASSUME NEW f \in Files, PutOpen(f) PROVE TypeOK'
    BY <2>8 DEF PutOpen, history
  <2>9. ASSUME NEW f \in Files, PutFinish(f) PROVE TypeOK'
    BY <2>9 DEF PutFinish, history
  <2>10. ASSUME NEW f \in Files, PutFail(f) PROVE TypeOK'
    BY <2>10 DEF PutFail
  <2>11. ASSUME Crash PROVE TypeOK'
    <3>1. \A pc \in {"save", "delete"} : At(pc, Requests) \subseteq Files
      BY AtDef
    <3>2. QED
      BY <2>11, <3>1 DEF Crash
  <2>12. CASE UNCHANGED vars
    BY <2>12 DEF vars
  <2>13. QED
    BY <2>1, <2>2, <2>3, <2>4, <2>5, <2>6, <2>7, <2>8, <2>9, <2>10, <2>11, <2>12 DEF
       Next, Handling
<1>3. QED
  BY <1>1, <1>2, PTL DEF Spec

\* The invariant holds at every step.
THEOREM Invariant == Spec => []Inv
<1>1. Init => Inv
  BY FilesAssumption DEF Init, Inv, TypeOK, Handler, Idle, FreshIsUnused,
     SavingIsPrivate, DeletingIsClean, WritesAreTracked, DeletedMeansGone,
     MissingFilesAreExplained, OrphansComeFromUploads
<1>2. Inv /\ TypeOK' /\ [Next]_vars => Inv'
  <2> SUFFICES ASSUME Inv, TypeOK', [Next]_vars PROVE Inv'
    OBVIOUS
  <2> USE FilesAssumption DEF Inv
  <2>1. ASSUME NEW r \in Requests, StartUpload(r) PROVE Inv'
    <3> USE <2>1, HandlerFields DEF StartUpload, Answer, history, Idle
    <3>1. FreshIsUnused'
      BY DEF Files, FreshIsUnused
    <3>2. SavingIsPrivate'
      BY DEF TypeOK, SavingIsPrivate, FreshIsUnused
    <3>3. DeletingIsClean'
      BY DEF TypeOK, DeletingIsClean, FreshIsUnused
    <3>4. WritesAreTracked'
      BY DEF TypeOK, At, WritesAreTracked, FreshIsUnused
    <3>5. DeletedMeansGone'
      BY DEF TypeOK, DeletedMeansGone, FreshIsUnused, DeletingIsClean
    <3>6. MissingFilesAreExplained'
      BY DEF At, MissingFilesAreExplained, SavingIsPrivate
    <3>7. OrphansComeFromUploads'
      BY DEF At, OrphansComeFromUploads, SavingIsPrivate
    <3>8. QED
      BY <3>1, <3>2, <3>3, <3>4, <3>5, <3>6, <3>7
  <2>2. ASSUME NEW r \in Requests, SaveRow(r) PROVE Inv'
    <3> USE <2>2, HandlerFields DEF SaveRow, Answer, history, Idle
    <3>1. FreshIsUnused'
      BY DEF FreshIsUnused, WritesAreTracked
    <3>2. SavingIsPrivate'
      BY DEF TypeOK, SavingIsPrivate
    <3>3. DeletingIsClean'
      BY DEF DeletingIsClean
    <3>4. WritesAreTracked'
      BY DEF At, WritesAreTracked
    <3>5. DeletedMeansGone'
      BY DEF DeletedMeansGone, SavingIsPrivate
    <3>6. MissingFilesAreExplained'
      BY DEF At, MissingFilesAreExplained, SavingIsPrivate
    <3>7. OrphansComeFromUploads'
      BY DEF At, OrphansComeFromUploads
    <3>8. QED
      BY <3>1, <3>2, <3>3, <3>4, <3>5, <3>6, <3>7
  <2>3. ASSUME NEW r \in Requests, Unlink(r) PROVE Inv'
    <3> USE <2>3, HandlerFields DEF Unlink, Answer, history, Idle
    <3>1. FreshIsUnused'
      BY DEF FreshIsUnused
    <3>2. SavingIsPrivate'
      BY DEF SavingIsPrivate
    <3>3. DeletingIsClean'
      BY DEF TypeOK, DeletingIsClean, WritesAreTracked
    <3>4. WritesAreTracked'
      BY DEF TypeOK, At, WritesAreTracked
    <3>5. DeletedMeansGone'
      BY DEF DeletedMeansGone
    <3>6. MissingFilesAreExplained'
      BY DEF TypeOK, At, MissingFilesAreExplained
    <3>7. OrphansComeFromUploads'
      BY DEF At, OrphansComeFromUploads
    <3>8. QED
      BY <3>1, <3>2, <3>3, <3>4, <3>5, <3>6, <3>7
  <2>4. ASSUME NEW r \in Requests, UnlinkMissing(r) PROVE Inv'
    <3> USE <2>4, HandlerFields DEF UnlinkMissing, Answer, history, Idle
    <3>1. FreshIsUnused'
      BY DEF FreshIsUnused, WritesAreTracked
    <3>2. SavingIsPrivate'
      BY DEF SavingIsPrivate
    <3>3. DeletingIsClean'
      BY DEF DeletingIsClean
    <3>4. WritesAreTracked'
      BY DEF At, WritesAreTracked
    <3>5. DeletedMeansGone'
      BY DEF DeletedMeansGone
    <3>6. MissingFilesAreExplained'
      BY DEF At, MissingFilesAreExplained, SavingIsPrivate
    <3>7. OrphansComeFromUploads'
      BY DEF At, OrphansComeFromUploads
    <3>8. QED
      BY <3>1, <3>2, <3>3, <3>4, <3>5, <3>6, <3>7
  <2>5. ASSUME NEW r \in Requests, DeleteRow(r) PROVE Inv'
    <3> USE <2>5, HandlerFields DEF DeleteRow, Answer, history, Idle
    <3>1. FreshIsUnused'
      BY DEF FreshIsUnused
    <3>2. SavingIsPrivate'
      BY DEF SavingIsPrivate
    <3>3. DeletingIsClean'
      BY DEF DeletingIsClean
    <3>4. WritesAreTracked'
      BY DEF At, WritesAreTracked, DeletingIsClean
    <3>5. DeletedMeansGone'
      BY DEF DeletedMeansGone, DeletingIsClean
    <3>6. MissingFilesAreExplained'
      BY DEF At, MissingFilesAreExplained
    <3>7. OrphansComeFromUploads'
      BY DEF At, OrphansComeFromUploads, DeletingIsClean
    <3>8. QED
      BY <3>1, <3>2, <3>3, <3>4, <3>5, <3>6, <3>7
  <2>6. ASSUME NEW r \in Requests, FailIO(r) PROVE Inv'
    <3> USE <2>6, HandlerFields DEF FailIO, Answer, history, Idle
    <3>1. FreshIsUnused'
      BY AtDef DEF FreshIsUnused
    <3>2. SavingIsPrivate'
      BY AtDef DEF SavingIsPrivate
    <3>3. DeletingIsClean'
      BY DEF DeletingIsClean
    <3>4. WritesAreTracked'
      BY DEF At, WritesAreTracked
    <3>5. DeletedMeansGone'
      BY DEF DeletedMeansGone
    <3>6. MissingFilesAreExplained'
      BY DEF At, MissingFilesAreExplained, SavingIsPrivate
    <3>7. OrphansComeFromUploads'
      BY DEF At, OrphansComeFromUploads
    <3>8. QED
      BY <3>1, <3>2, <3>3, <3>4, <3>5, <3>6, <3>7
  <2>7. ASSUME NEW r \in Requests, NEW f \in Files, FindRow(r, f) PROVE Inv'
    <3> USE <2>7, HandlerFields DEF FindRow, Answer, history, Idle
    <3>1. FreshIsUnused'
      BY DEF FreshIsUnused
    <3>2. SavingIsPrivate'
      BY DEF SavingIsPrivate
    <3>3. DeletingIsClean'
      BY DEF DeletingIsClean
    <3>4. WritesAreTracked'
      BY DEF At, WritesAreTracked
    <3>5. DeletedMeansGone'
      BY DEF DeletedMeansGone
    <3>6. MissingFilesAreExplained'
      BY DEF At, MissingFilesAreExplained, SavingIsPrivate
    <3>7. OrphansComeFromUploads'
      BY DEF At, OrphansComeFromUploads
    <3>8. QED
      BY <3>1, <3>2, <3>3, <3>4, <3>5, <3>6, <3>7
  <2>8. ASSUME NEW f \in Files, PutOpen(f) PROVE Inv'
    <3> USE <2>8, HandlerFields DEF PutOpen, Answer, history, Idle
    <3>1. FreshIsUnused'
      BY DEF FreshIsUnused
    <3>2. SavingIsPrivate'
      BY DEF SavingIsPrivate
    <3>3. DeletingIsClean'
      BY DEF DeletingIsClean
    <3>4. WritesAreTracked'
      BY DEF TypeOK, At, WritesAreTracked
    <3>5. DeletedMeansGone'
      BY DEF DeletedMeansGone
    <3>6. MissingFilesAreExplained'
      BY DEF At, MissingFilesAreExplained, FreshIsUnused
    <3>7. OrphansComeFromUploads'
      BY DEF At, OrphansComeFromUploads, WritesAreTracked
    <3>8. QED
      BY <3>1, <3>2, <3>3, <3>4, <3>5, <3>6, <3>7
  <2>9. ASSUME NEW f \in Files, PutFinish(f) PROVE Inv'
    <3> USE <2>9, HandlerFields DEF PutFinish, Answer, history, Idle
    <3>1. FreshIsUnused'
      BY DEF FreshIsUnused
    <3>2. SavingIsPrivate'
      BY AtDef DEF TypeOK, Files, At, SavingIsPrivate, FreshIsUnused,
         DeletingIsClean, WritesAreTracked
    <3>3. DeletingIsClean'
      BY DEF DeletingIsClean
    <3>4. WritesAreTracked'
      BY DEF TypeOK, At, WritesAreTracked
    <3>5. DeletedMeansGone'
      BY DEF DeletedMeansGone
    <3>6. MissingFilesAreExplained'
      BY AtDef DEF TypeOK, Files, At, MissingFilesAreExplained, WritesAreTracked,
         DeletedMeansGone
    <3>7. OrphansComeFromUploads'
      BY DEF At, OrphansComeFromUploads
    <3>8. QED
      BY <3>1, <3>2, <3>3, <3>4, <3>5, <3>6, <3>7
  <2>10. ASSUME NEW f \in Files, PutFail(f) PROVE Inv'
    <3> USE <2>10, HandlerFields DEF PutFail, Answer, history, Idle
    <3>1. FreshIsUnused'
      BY DEF FreshIsUnused
    <3>2. SavingIsPrivate'
      BY DEF SavingIsPrivate
    <3>3. DeletingIsClean'
      BY DEF DeletingIsClean
    <3>4. WritesAreTracked'
      BY DEF At, WritesAreTracked
    <3>5. DeletedMeansGone'
      BY DEF DeletedMeansGone
    <3>6. MissingFilesAreExplained'
      BY DEF At, MissingFilesAreExplained
    <3>7. OrphansComeFromUploads'
      BY DEF At, OrphansComeFromUploads
    <3>8. QED
      BY <3>1, <3>2, <3>3, <3>4, <3>5, <3>6, <3>7
  <2>11. ASSUME Crash PROVE Inv'
    <3> USE <2>11, HandlerFields DEF Crash, Answer, history, Idle
    <3>1. FreshIsUnused'
      BY AtDef DEF FreshIsUnused, DeletingIsClean
    <3>2. SavingIsPrivate'
      BY DEF SavingIsPrivate
    <3>3. DeletingIsClean'
      BY DEF DeletingIsClean
    <3>4. WritesAreTracked'
      BY DEF WritesAreTracked
    <3>5. DeletedMeansGone'
      BY DEF TypeOK, DeletedMeansGone
    <3>6. MissingFilesAreExplained'
      BY DEF TypeOK, MissingFilesAreExplained
    <3>7. OrphansComeFromUploads'
      BY DEF OrphansComeFromUploads
    <3>8. QED
      BY <3>1, <3>2, <3>3, <3>4, <3>5, <3>6, <3>7
  <2>12. CASE UNCHANGED vars
    BY <2>12 DEF vars, At, FreshIsUnused, SavingIsPrivate, DeletingIsClean,
       WritesAreTracked, DeletedMeansGone, MissingFilesAreExplained,
       OrphansComeFromUploads
  <2>13. QED
    BY <2>1, <2>2, <2>3, <2>4, <2>5, <2>6, <2>7, <2>8, <2>9, <2>10, <2>11, <2>12 DEF
       Next, Handling
<1>3. QED
  BY <1>1, <1>2, TypeCorrect, PTL DEF Spec

\* After a successful deletion the row and the file are gone for good, for any
\* number of uploads and requests and wherever the unawaited write stands.
THEOREM DeletionIsFinal == Spec => []DeletedMeansGone
  BY Invariant, PTL DEF Inv

\* Rows without a whole file come only from writes that fail or go on and from
\* deletions that stop half-way.
THEOREM MissingFilesExplained == Spec => []MissingFilesAreExplained
  BY Invariant, PTL DEF Inv

\* Files without a row come only from uploads.
THEOREM OrphansExplained == Spec => []OrphansComeFromUploads
  BY Invariant, PTL DEF Inv

===============================================================================
