-------------------------------- MODULE Uploads --------------------------------
(***************************************************************************)
(* Requests that upload files to one local disk, each by one of four ways: *)
(*   interceptor  FileUploadInterceptor: one or several files, through     *)
(*                temporary files, under names that are free               *)
(*   direct       FileStorageInterceptor, FileToDiskPipe: one file under   *)
(*                its own name                                             *)
(*   image        FileService.uploadImage: the image, its sizes, its       *)
(*                thumbnail, under names that hold the time                *)
(*   doc          FileService.uploadFile: one file, the same way           *)
(*                                                                         *)
(* A path is <<directory, time, name>>, time 0 where the name holds none.  *)
(* A name is a sequence: Append(n, k) is n with "(k)" before its           *)
(* extension.  The content of a file is <<request, index>>, the upload its *)
(* bytes come from, or <<request, 0>> while the request has opened it, that *)
(* is made and emptied it, and not written all its bytes.  A file that two *)
(* requests write at once holds the bytes of the one that is done last.    *)
(* The clock counts the milliseconds of Date.now().                        *)
(***************************************************************************)
EXTENDS Naturals, Sequences, FiniteSets

CONSTANTS
    Requests,
    Ways,       \* the ways above that are used
    Names,      \* original names of uploaded files
    Dirs,       \* what uploadImage may be asked for: the sequences of directories it writes,
                \* that of the image itself first, one for each size; the client names the sizes
    MaxFiles,   \* bound on the files of a request
    MaxClock,   \* bound on the clock
    MaxFaults   \* bound on failed calls and restarts

ASSUME UploadsAssumption ==
    /\ Ways \subseteq {"interceptor", "direct", "image", "doc"}
    /\ Dirs \subseteq Seq(STRING) \ {<<>>}
    /\ MaxFiles \in Nat /\ MaxClock \in Nat \ {0} /\ MaxFaults \in Nat

VARIABLES
    disk,       \* the files of the disk, a function from their paths to contents
    temps,      \* the files of the temporary directory
    clock,
    req,        \* the requests
    faults,     \* failed calls and restarts so far
    ghost       \* history, read by properties only

vars == <<disk, temps, clock, req, faults, ghost>>

With(f, x, v) == [y \in DOMAIN f \cup {x} |-> IF y = x THEN v ELSE f[y]]
Without(f, S) == [y \in DOMAIN f \ S |-> f[y]]
Nothing == [x \in {} |-> <<>>]

Unsent == [pc |-> "unsent"]
Over == {"unsent", "answered", "rejected", "failed", "lost"}
InProgress(r) == req[r].pc \notin Over

\* The files a request may bring: [name, dir, ok], ok saying whether the
\* rules of the route accept it.
Files(way) ==
    CASE way = "interceptor" -> UNION {[1 .. n -> [name : Names, dir : {""}, ok : BOOLEAN]] : n \in 0 .. MaxFiles}
      [] way = "direct" -> [1 .. 1 -> [name : Names, dir : {""}, ok : {TRUE}]]
      [] way = "doc" -> [1 .. 1 -> [name : Names, dir : {"docs"}, ok : BOOLEAN]]
      [] way = "image" -> {[i \in 1 .. Len(ds) |-> [name |-> n, dir |-> ds[i], ok |-> b]] :
                               n \in Names, ds \in Dirs, b \in BOOLEAN}

Init ==
    /\ disk = Nothing /\ temps = Nothing
    /\ clock = 1
    /\ req = [r \in Requests |-> Unsent]
    /\ faults = 0
    /\ ghost = [met |-> [r \in Requests |-> {}], named |-> {}, clash |-> {}, stuck |-> {}, blind |-> {}]

-------------------------------------------------------------------------------
File(r) == req[r].files[req[r].i]
Step(r, pc) == req' = [req EXCEPT ![r].pc = pc]
Half(r) == <<r, 0>>
AtStep(r, ways, pc) == req[r].pc = pc /\ req[r].way \in ways
Quiet == UNCHANGED <<clock, faults, ghost>>

\* A request that ends keeps what its properties need.
Finish(r, pc) == req' = [req EXCEPT ![r] = [@ EXCEPT !.pc = pc, !.until = clock]]

Send(r, way, fs) ==
    LET others == {x \in Requests : InProgress(x)} IN
    /\ req[r] = Unsent
    /\ req' = [req EXCEPT ![r] = [pc |-> CASE way = "interceptor" -> "receive" [] way = "direct" -> "name" [] OTHER -> "validate",
                                  way |-> way, files |-> fs, i |-> 1, k |-> 0, path |-> <<>>, bytes |-> Half(r),
                                  temps |-> <<>>, left |-> {}, then |-> "answered",
                                  stored |-> {}, since |-> clock, until |-> 0]]
    /\ ghost' = [ghost EXCEPT !.met = [x \in Requests |->
                    IF x = r THEN others ELSE IF x \in others THEN @[x] \cup {r} ELSE @[x]]]
    /\ UNCHANGED <<disk, temps, clock, faults>>

-------------------------------------------------------------------------------
(* FileUploadInterceptor *)

\* Mutant: temporary files have the names of the uploads.
TempName_NoTime(name) == <<0, name>>

\* The temporary name multer gives to a file.
TempName(name) == <<clock, name>>

\* multer writes the next file of the request.
Receive(r) ==
    LET i == Len(req[r].temps) + 1  t == TempName(req[r].files[i].name)
        stamp == <<clock, req[r].files[i].name>> IN
    /\ req[r].pc = "receive" /\ i <= Len(req[r].files)
    /\ temps' = With(temps, t, <<r, i>>)
    /\ req' = [req EXCEPT ![r].temps = Append(@, t)]
    /\ ghost' = [ghost EXCEPT !.named = @ \cup {stamp},
                              !.clash = IF stamp \in ghost.named THEN @ \cup {stamp} ELSE @]
    /\ UNCHANGED <<disk, clock, faults>>

\* All files are there; without any the handler runs right away.
Received(r) ==
    /\ req[r].pc = "receive" /\ Len(req[r].temps) = Len(req[r].files)
    /\ IF req[r].files = <<>> THEN Finish(r, "answered")
       ELSE req' = [req EXCEPT ![r].pc = "validate", ![r].left = {req[r].temps[i] : i \in DOMAIN req[r].temps}]
    /\ UNCHANGED <<disk, temps>> /\ Quiet

\* multer gives up (a file too many, a field it does not know, a failed
\* write): the request is a bad one, and the files that were written are
\* removed.  The one whose own write failed stays, and so do those whose
\* removal fails.
MulterGivesUp(r) ==
    LET written == {req[r].temps[i] : i \in DOMAIN req[r].temps} IN
    /\ req[r].pc = "receive" /\ faults < MaxFaults
    /\ \E stay \in SUBSET written :
           /\ temps' = Without(temps, written \ stay)
           /\ ghost' = [ghost EXCEPT !.stuck = @ \cup stay]
    /\ Finish(r, "rejected")
    /\ faults' = faults + 1
    /\ UNCHANGED <<disk, clock>>

\* Mutant: only the first file is looked at.
Accepted_First(r) == req[r].files[1].ok

\* Every file obeys the rules.
Accepted(r) == \A i \in DOMAIN req[r].files : req[r].files[i].ok

\* The rules, before any file is stored.
Validate(r) ==
    /\ AtStep(r, {"interceptor"}, "validate")
    /\ IF Accepted(r) THEN Step(r, "probe")
       ELSE req' = [req EXCEPT ![r].pc = "cleanup", ![r].then = "rejected"]
    /\ UNCHANGED <<disk, temps>> /\ Quiet

\* The name with the counter in it; the first candidate is the name itself.
Candidate(r) ==
    LET n == File(r).name IN <<"", 0, IF req[r].k = 0 THEN n ELSE Append(n, req[r].k)>>

\* Mutant: the candidate after a taken one is not asked for.
Probe_Once(r) ==
    /\ AtStep(r, {"interceptor"}, "probe")
    /\ LET k == IF Candidate(r) \in DOMAIN disk THEN 1 ELSE 0
           n == File(r).name IN
       req' = [req EXCEPT ![r].pc = "write", ![r].path = <<"", 0, IF k = 0 THEN n ELSE Append(n, k)>>]
    /\ UNCHANGED <<disk, temps>> /\ Quiet

\* exists: a taken name makes the counter go on.
Probe(r) ==
    /\ AtStep(r, {"interceptor"}, "probe")
    /\ IF Candidate(r) \in DOMAIN disk
       THEN req' = [req EXCEPT ![r].k = @ + 1]
       ELSE req' = [req EXCEPT ![r].pc = "write", ![r].path = Candidate(r)]
    /\ UNCHANGED <<disk, temps>> /\ Quiet

\* exists answers that there is no file for every error: a taken name counts
\* as free.
ProbeFails(r) ==
    /\ AtStep(r, {"interceptor"}, "probe") /\ Candidate(r) \in DOMAIN disk
    /\ req' = [req EXCEPT ![r].pc = "write", ![r].path = Candidate(r)]
    /\ faults < MaxFaults /\ faults' = faults + 1
    /\ ghost' = [ghost EXCEPT !.blind = @ \cup {<<r, Candidate(r)>>}]
    /\ UNCHANGED <<disk, temps, clock>>

\* The stream of the temporary file and the file on the disk are opened.
OpenStream(r) ==
    LET t == req[r].temps[req[r].i] IN
    /\ AtStep(r, {"interceptor"}, "write") /\ t \in DOMAIN temps
    /\ disk' = With(disk, req[r].path, Half(r))
    /\ req' = [req EXCEPT ![r].pc = "copy", ![r].bytes = temps[t]]
    /\ UNCHANGED temps /\ Quiet

\* The bytes are there.
PutStream(r) ==
    /\ AtStep(r, {"interceptor"}, "copy")
    /\ disk' = With(disk, req[r].path, req[r].bytes)
    /\ Step(r, "unlink")
    /\ UNCHANGED temps /\ Quiet

\* The temporary file is removed and the file is one of those that were
\* stored; if it is gone, unlink fails and with it the request.
Unlink(r) ==
    LET o == req[r]  t == o.temps[o.i]  last == o.i = Len(o.files) IN
    /\ AtStep(r, {"interceptor"}, "unlink")
    /\ temps' = Without(temps, {t})
    /\ req' = [req EXCEPT ![r] =
          IF t \in DOMAIN temps
          THEN [o EXCEPT !.pc = IF last THEN "cleanup" ELSE "probe", !.i = IF last THEN @ ELSE @ + 1, !.k = 0,
                         !.left = @ \ {t}, !.stored = @ \cup {[path |-> o.path, by |-> <<r, o.i>>]}]
          ELSE [o EXCEPT !.pc = "cleanup", !.then = "failed"]]
    /\ UNCHANGED disk /\ Quiet

\* Mutant: only a request that is answered cleans up.
Cleanup_Answered(r) ==
    /\ req[r].pc = "cleanup"
    /\ temps' = IF req[r].then = "answered" THEN Without(temps, req[r].left) ELSE temps
    /\ req' = [req EXCEPT ![r].left = {}]
    /\ UNCHANGED disk /\ Quiet

\* finally: what is left is removed, one file after the other.
Cleanup(r) ==
    /\ req[r].pc = "cleanup"
    /\ \E t \in req[r].left :
           /\ temps' = Without(temps, {t})
           /\ req' = [req EXCEPT ![r].left = @ \ {t}]
    /\ UNCHANGED disk /\ Quiet

\* The error of a removal is ignored, and the file stays.
CleanupFails(r) ==
    /\ req[r].pc = "cleanup"
    /\ faults < MaxFaults /\ faults' = faults + 1
    /\ \E t \in req[r].left :
           /\ req' = [req EXCEPT ![r].left = @ \ {t}]
           /\ ghost' = [ghost EXCEPT !.stuck = @ \cup {t}]
    /\ UNCHANGED <<disk, temps, clock>>

End(r) ==
    /\ req[r].pc = "cleanup" /\ req[r].left = {}
    /\ Finish(r, req[r].then)
    /\ UNCHANGED <<disk, temps>> /\ Quiet

-------------------------------------------------------------------------------
(* FileService.uploadImage and uploadFile; FileStorageInterceptor and      *)
(* FileToDiskPipe, which put whatever is there                             *)

ValidateFile(r) ==
    /\ AtStep(r, {"image", "doc"}, "validate")
    /\ IF Accepted(r) THEN Step(r, "name") ELSE Finish(r, "rejected")
    /\ UNCHANGED <<disk, temps>> /\ Quiet

Stamped(f) == <<f.dir, clock, f.name>>
OwnName(f) == <<f.dir, 0, f.name>>

\* The name of the next variant, then sharp works on it.
NameVariant(r) ==
    /\ AtStep(r, {"image", "doc", "direct"}, "name")
    /\ req' = [req EXCEPT ![r].pc = "write",
                          ![r].path = IF req[r].way = "direct" THEN OwnName(File(r)) ELSE Stamped(File(r))]
    /\ UNCHANGED <<disk, temps>> /\ Quiet

\* put opens the file, and then writes it.
OpenFile(r) ==
    /\ AtStep(r, {"image", "doc", "direct"}, "write")
    /\ disk' = With(disk, req[r].path, Half(r))
    /\ req' = [req EXCEPT ![r].pc = "copy", ![r].bytes = <<r, req[r].i>>]
    /\ UNCHANGED temps /\ Quiet

\* The variant is put; after the last one the paths are answered.
PutVariant(r) ==
    LET o == req[r]  last == o.i = Len(o.files) IN
    /\ AtStep(r, {"image", "doc", "direct"}, "copy")
    /\ disk' = With(disk, o.path, o.bytes)
    /\ req' = [req EXCEPT ![r] =
                 [o EXCEPT !.pc = IF last THEN "answered" ELSE "name", !.i = IF last THEN @ ELSE @ + 1,
                           !.until = clock, !.stored = @ \cup {[path |-> o.path, by |-> <<r, o.i>>]}]]
    /\ UNCHANGED temps /\ Quiet

-------------------------------------------------------------------------------
(* What goes wrong *)

\* An awaited call fails: a custom rule, the making of a name, mkdir, sharp, the
\* opening or writing of the file, chmod when all its bytes are there, unlink.
\* The interceptor cleans up, the others just end.
Fail(r) ==
    /\ InProgress(r) /\ req[r].pc \notin {"receive", "cleanup"}
    /\ req[r].pc = "probe" => req[r].k = 0
    /\ faults < MaxFaults /\ faults' = faults + 1
    /\ IF req[r].way = "interceptor"
       THEN req' = [req EXCEPT ![r].pc = "cleanup", ![r].then = "failed"]
       ELSE Finish(r, "failed")
    /\ \/ disk' = disk
       \/ req[r].pc = "copy" /\ disk' = With(disk, req[r].path, req[r].bytes)
    /\ UNCHANGED <<temps, clock, ghost>>

\* The process stops and starts again: requests are lost, files stay.
Lose == req' = [r \in Requests |-> IF InProgress(r) THEN [req[r] EXCEPT !.pc = "lost", !.until = clock] ELSE req[r]]

Restart ==
    /\ faults < MaxFaults /\ faults' = faults + 1
    /\ Lose
    /\ UNCHANGED <<disk, temps, clock, ghost>>

\* Nobody listens to the errors of the stream, and one ends the process: the
\* temporary file is gone when it is opened, or its opening or reading fails.
\* By then putStream may have opened its own file.
StreamError(r) ==
    LET gone == req[r].pc = "write" /\ req[r].temps[req[r].i] \notin DOMAIN temps IN
    /\ AtStep(r, {"interceptor"}, "write") \/ AtStep(r, {"interceptor"}, "copy")
    /\ IF gone THEN UNCHANGED faults ELSE faults < MaxFaults /\ faults' = faults + 1
    /\ disk' \in {disk, With(disk, req[r].path, Half(r))}
    /\ Lose
    /\ UNCHANGED <<temps, clock, ghost>>

Tick ==
    /\ clock < MaxClock /\ clock' = clock + 1
    /\ UNCHANGED <<disk, temps, req, faults, ghost>>

Next ==
    \/ \E r \in Requests :
        \/ \E way \in Ways : \E fs \in Files(way) : Send(r, way, fs)
        \/ Receive(r) \/ Received(r) \/ MulterGivesUp(r) \/ Validate(r) \/ Probe(r) \/ ProbeFails(r)
        \/ OpenStream(r) \/ PutStream(r) \/ Unlink(r) \/ Cleanup(r) \/ CleanupFails(r) \/ End(r)
        \/ ValidateFile(r) \/ NameVariant(r) \/ OpenFile(r) \/ PutVariant(r)
        \/ Fail(r) \/ StreamError(r)
    \/ Restart \/ Tick

Spec == Init /\ [][Next]_vars

-------------------------------------------------------------------------------
(* Properties *)

\* However requests end, the temporary directory holds only files of requests
\* in progress, of requests that were lost with the process, and files that
\* could not be removed when their request ended: rejected and failed
\* requests leave no other, and none is made anew after its removal.
TempsAreCleaned ==
    \A t \in DOMAIN temps : t \in ghost.stuck \/
        \E r \in Requests : (InProgress(r) \/ req[r].pc = "lost") /\ \E i \in DOMAIN req[r].temps : req[r].temps[i] = t

\* Every file of the disk obeys the rules of its route and was answered to
\* whoever sent it, unless its request is still in progress, failed, or was
\* lost; only of such a request is there a file without all its bytes: a
\* request that is rejected leaves none, of several files either.  Where two
\* files had one temporary name, the bytes of one may have been stored for the
\* other.
EveryFileIsClaimed ==
    \A p \in DOMAIN disk :
        LET r == disk[p][1]  i == disk[p][2]  ended == InProgress(r) \/ req[r].pc \in {"failed", "lost"} IN
        \/ \E t \in ghost.clash : \E j \in DOMAIN req[r].files : req[r].files[j].name = t[2]
        \/ i = 0 /\ ended /\ \A j \in DOMAIN req[r].files : req[r].files[j].ok
        \/ i # 0 /\ req[r].files[i].ok /\ (ended \/ (req[r].pc = "answered" /\ \E s \in req[r].stored : s.by = disk[p]))

\* The files of an answered request are kept as they were sent, unless a
\* request that overlapped it found the name free as well, one of those that
\* do not look for a free name took it, or (images and documents) was there
\* within the same tick; or the check for the name failed, and its file was
\* put without; or the request, one for an image, asked for one directory
\* twice; or two files had one temporary name.
AnsweredFilesAreKept ==
    \A r \in Requests : req[r].pc = "answered" =>
        \A s \in req[r].stored :
            LET w == IF s.path \in DOMAIN disk THEN disk[s.path] ELSE Half(r)  q == w[1] IN
            \/ w = s.by
            \/ ghost.clash # {}
            \/ <<q, s.path>> \in ghost.blind
            \/ q = r /\ req[r].way = "image" /\ w[2] > s.by[2] /\ req[r].files[w[2]].dir = req[r].files[s.by[2]].dir
            \/ q # r /\ \/ req[q].way = "direct"
                        \/ req[r].way \in {"interceptor", "direct"} /\ q \in ghost.met[r]
                        \/ req[r].way \in {"image", "doc"} /\ req[q].since <= req[r].until

\* No request, however it ends, removes a temporary file that another one, or
\* itself, still has to store, unless within one millisecond two files came
\* under one name.  So besides a stream that cannot be opened or read, only
\* such a clash ends the process.
FilesToStoreAreThere ==
    \A r \in Requests : req[r].pc \in {"receive", "validate", "probe", "write"} =>
        \A i \in DOMAIN req[r].temps : i >= req[r].i =>
            req[r].temps[i] \in DOMAIN temps \/ req[r].temps[i] \in ghost.clash
===============================================================================
