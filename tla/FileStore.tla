------------------------------- MODULE FileStore -------------------------------
(***************************************************************************)
(* upload and delete of file.service.ts: a row of `files` and a file on    *)
(* the public disk for every public id.                                    *)
(*                                                                         *)
(* upload starts to write the file and does not wait for it: while it is   *)
(* being written the row is saved and the client answered.  A failed write *)
(* is noticed by nobody.  delete finds the row, unlinks the file, which    *)
(* fails if there is none, and deletes the row.                            *)
(*                                                                         *)
(* Abstractions.  A file is named by its public id, a fresh random one     *)
(* for every upload.  Its content is absent, partial or whole; a write     *)
(* that goes on after the file was unlinked fills a file without a name.   *)
(* A rejected type or size changes nothing and is left out.                *)
(***************************************************************************)
EXTENDS Naturals

CONSTANTS
    Requests,   \* the HTTP requests that can be in progress together
    MaxFiles    \* bound on the uploads ever started

Files == 1 .. MaxFiles

ASSUME FilesAssumption == MaxFiles \in Nat

VARIABLES
    rows,       \* public ids with a row in `files`
    blob,       \* what stands on the disk under the path of a file
    put,        \* the unawaited write of an upload
    req,        \* the handler that runs in each request
    nextFile,   \* the next public id
    \* history variables, read by properties only
    broken,     \* files whose write failed or was cut off by a restart
    unsaved,    \* uploads that ended without a row
    cut,        \* files that were unlinked by a delete that went no further
    gone        \* files whose deletion was answered with success

history == <<broken, unsaved, cut, gone>>
vars == <<rows, blob, put, req, nextFile, broken, unsaved, cut, gone>>

Idle == [pc |-> "idle"]
Handler == {Idle} \cup [pc : {"save", "unlink", "delete"}, f : Files]

-------------------------------------------------------------------------------

Init ==
    /\ rows = {}
    /\ blob = [f \in Files |-> "absent"]
    /\ put = [f \in Files |-> "none"]
    /\ req = [r \in Requests |-> Idle]
    /\ nextFile = 1
    /\ broken = {}
    /\ unsaved = {}
    /\ cut = {}
    /\ gone = {}

Answer(r) == req' = [req EXCEPT ![r] = Idle]

\* Mutant: the write is skipped.
StartUpload_NoPut(r) ==
    /\ req[r] = Idle /\ nextFile \in Files
    /\ req' = [req EXCEPT ![r] = [pc |-> "save", f |-> nextFile]]
    /\ nextFile' = nextFile + 1
    /\ UNCHANGED <<rows, blob, put, history>>

\* upload up to its first await: the write is started.
StartUpload(r) ==
    /\ req[r] = Idle /\ nextFile \in Files
    /\ put' = [put EXCEPT ![nextFile] = "issued"]
    /\ req' = [req EXCEPT ![r] = [pc |-> "save", f |-> nextFile]]
    /\ nextFile' = nextFile + 1
    /\ UNCHANGED <<rows, blob, history>>

\* The dimensions are known (or could not be read) and the row is saved; the
\* client learns the public id.
SaveRow(r) ==
    /\ req[r].pc = "save"
    /\ rows' = rows \cup {req[r].f}
    /\ Answer(r)
    /\ UNCHANGED <<blob, put, nextFile, history>>

-------------------------------------------------------------------------------
(* LocalStorageDriver.put, on its own *)

\* The directory exists and writeFile has created the file.
PutOpen(f) ==
    /\ put[f] = "issued"
    /\ put' = [put EXCEPT ![f] = "writing"]
    /\ blob' = [blob EXCEPT ![f] = "partial"]
    /\ UNCHANGED <<rows, req, nextFile, history>>

\* The content is written, under the name of the file if it still has one.
PutFinish(f) ==
    /\ put[f] = "writing"
    /\ put' = [put EXCEPT ![f] = "none"]
    /\ blob' = [blob EXCEPT ![f] = IF @ = "partial" THEN "whole" ELSE @]
    /\ UNCHANGED <<rows, req, nextFile, history>>

\* mkdir, open or write fails; the rejection is not handled.
PutFail(f) ==
    /\ put[f] # "none"
    /\ put' = [put EXCEPT ![f] = "none"]
    /\ broken' = broken \cup {f}
    /\ UNCHANGED <<rows, blob, req, nextFile, unsaved, cut, gone>>

-------------------------------------------------------------------------------
(* delete *)

\* Mutant: the row is found and deleted before the file.
FindRow_DeleteRow(r, f) ==
    /\ req[r] = Idle /\ f \in rows
    /\ rows' = rows \ {f}
    /\ req' = [req EXCEPT ![r] = [pc |-> "unlink", f |-> f]]
    /\ UNCHANGED <<blob, put, nextFile, history>>

\* The row is found; without one the answer is 404.
FindRow(r, f) ==
    /\ req[r] = Idle /\ f \in rows
    /\ req' = [req EXCEPT ![r] = [pc |-> "unlink", f |-> f]]
    /\ UNCHANGED <<rows, blob, put, nextFile, history>>

\* Mutant: a missing file is not an error (rm with force).
Unlink_Force(r) ==
    /\ req[r].pc = "unlink"
    /\ blob' = [blob EXCEPT ![req[r].f] = "absent"]
    /\ req' = [req EXCEPT ![r].pc = "delete"]
    /\ UNCHANGED <<rows, put, nextFile, history>>

\* The file is unlinked, even if it is still being written.
Unlink(r) ==
    /\ req[r].pc = "unlink" /\ blob[req[r].f] # "absent"
    /\ blob' = [blob EXCEPT ![req[r].f] = "absent"]
    /\ req' = [req EXCEPT ![r].pc = "delete"]
    /\ UNCHANGED <<rows, put, nextFile, history>>

\* There is no file: ENOENT, the client gets a 500 and the row stays.
UnlinkMissing(r) ==
    /\ req[r].pc = "unlink" /\ blob[req[r].f] = "absent"
    /\ Answer(r)
    /\ UNCHANGED <<rows, blob, put, nextFile, history>>

\* The row is deleted: "Successfully deleted".
DeleteRow(r) ==
    /\ req[r].pc = "delete"
    /\ rows' = rows \ {req[r].f}
    /\ gone' = gone \cup {req[r].f}
    /\ Answer(r)
    /\ UNCHANGED <<blob, put, nextFile, broken, unsaved, cut>>

-------------------------------------------------------------------------------
(* The rest of the world *)

\* The files of the handlers of Q that have reached pc.
At(pc, Q) == {req[r].f : r \in {q \in Q : req[q].pc = pc}}

\* An awaited call fails; nothing that was done is undone.
FailIO(r) ==
    /\ req[r] # Idle
    /\ unsaved' = unsaved \cup At("save", {r})
    /\ cut' = cut \cup At("delete", {r})
    /\ Answer(r)
    /\ UNCHANGED <<rows, blob, put, nextFile, broken, gone>>

\* The process restarts: handlers and writes stop where they are.
Crash ==
    /\ (\E r \in Requests : req[r] # Idle) \/ (\E f \in Files : put[f] # "none")
    /\ unsaved' = unsaved \cup At("save", Requests)
    /\ cut' = cut \cup At("delete", Requests)
    /\ broken' = broken \cup {f \in Files : put[f] # "none"}
    /\ put' = [f \in Files |-> "none"]
    /\ req' = [r \in Requests |-> Idle]
    /\ UNCHANGED <<rows, blob, nextFile, gone>>

-------------------------------------------------------------------------------

Handling(r) ==
    \/ SaveRow(r)
    \/ Unlink(r)
    \/ UnlinkMissing(r)
    \/ DeleteRow(r)
    \/ FailIO(r)

Next ==
    \/ \E r \in Requests : StartUpload(r) \/ Handling(r)
    \/ \E r \in Requests, f \in Files : FindRow(r, f)
    \/ \E f \in Files : PutOpen(f) \/ PutFinish(f) \/ PutFail(f)
    \/ Crash

Spec == Init /\ [][Next]_vars

-------------------------------------------------------------------------------

TypeOK ==
    /\ rows \subseteq Files
    /\ blob \in [Files -> {"absent", "partial", "whole"}]
    /\ put \in [Files -> {"none", "issued", "writing"}]
    /\ req \in [Requests -> Handler]
    /\ nextFile \in 1 .. (MaxFiles + 1)
    /\ broken \subseteq Files
    /\ unsaved \subseteq Files
    /\ cut \subseteq Files
    /\ gone \subseteq Files

\* After "Successfully deleted" there is neither row nor file, and the write
\* of the upload, which nobody awaited, cannot bring the file back: unlink
\* succeeds only on a file that the write has already created.
DeletedMeansGone ==
    \A f \in gone : f \notin rows /\ blob[f] = "absent" /\ put[f] # "issued"

\* A row whose file is not whole is explained: the write is still going on or
\* failed, or a delete has unlinked the file and not yet, or never, got to the
\* row (upload answers before the write ends; delete is two steps).
MissingFilesAreExplained ==
    \A f \in rows : blob[f] # "whole" =>
        put[f] # "none" \/ f \in broken \cup cut \cup At("delete", Requests)

\* A file without a row belongs to an upload that has not saved its row yet or
\* failed to: a deletion, interrupted anywhere or repeated, leaves no file.
OrphansComeFromUploads ==
    \A f \in Files \ rows : blob[f] # "absent" =>
        f \in unsaved \cup At("save", Requests)

===============================================================================
