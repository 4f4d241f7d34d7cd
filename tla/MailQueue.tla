-------------------------------- MODULE MailQueue --------------------------------
(* email.processor.ts and the services behind it: one worker (concurrency 1)  *)
(* that works off the jobs BullMQ keeps in Redis.  The state of a job is     *)
(* waiting, active, delayed (until its backoff is over), completed or failed. *)
EXTENDS ServerState

BesidesMail == UNCHANGED <<settingVars, auditVars, roleVars, tokenVars, ghost>>

\* emailQueue.add, after the link was signed and cached; the call is answered.
AddJob(c) ==
    /\ At(c, "mail", "start")
    /\ jobs' = [jobs EXCEPT ![call[c].n] =
                  [state |-> "waiting", attempts |-> Attempts, refused |-> 0, stalled |-> 0, sent |-> 0]]
    /\ Return(c)
    /\ UNCHANGED worker /\ BesidesMail

\* The worker, which has no other job, takes one.
Pick(n) ==
    /\ worker = Rest /\ jobs[n].state = "waiting"
    /\ worker' = [job |-> n, handed |-> FALSE]
    /\ jobs' = [jobs EXCEPT ![n].state = "active"]
    /\ UNCHANGED callVars /\ BesidesMail

\* Mutant: nobody waits for the mail to be sent.
Send_NotAwaited(n) ==
    /\ worker.job = n /\ n # 0 /\ ~worker.handed
    /\ worker' = [worker EXCEPT !.handed = TRUE]
    /\ UNCHANGED jobs
    /\ UNCHANGED callVars /\ BesidesMail

\* sendMail: the mail is handed over.
Send(n) ==
    /\ worker.job = n /\ n # 0 /\ ~worker.handed
    /\ worker' = [worker EXCEPT !.handed = TRUE]
    /\ jobs' = [jobs EXCEPT ![n].sent = @ + 1]
    /\ UNCHANGED callVars /\ BesidesMail

\* process returns: the job is completed.
Complete(n) ==
    /\ worker.job = n /\ worker.handed
    /\ worker' = Rest
    /\ jobs' = [jobs EXCEPT ![n].state = "completed"]
    /\ UNCHANGED callVars /\ BesidesMail

\* process throws, whether the mail went out or not: another attempt after
\* the backoff, if there is one left.
Refuse(n) ==
    /\ worker.job = n /\ n # 0
    /\ worker' = Rest
    /\ jobs' = [jobs EXCEPT ![n].refused = @ + 1,
                            ![n].state = IF jobs[n].refused + 1 < jobs[n].attempts THEN "delayed" ELSE "failed"]
    /\ UNCHANGED callVars /\ BesidesMail

BackoffOver(n) ==
    /\ jobs[n].state = "delayed"
    /\ jobs' = [jobs EXCEPT ![n].state = "waiting"]
    /\ UNCHANGED <<callVars, worker>> /\ BesidesMail

\* Mutant: nobody looks for stalled jobs.
Stalled_Never(n) ==
    /\ FALSE
    /\ UNCHANGED vars

\* The check for jobs no worker holds: they wait again, if they have not
\* stalled too often.
Stalled(n) ==
    /\ jobs[n].state = "active" /\ worker.job # n
    /\ jobs' = [jobs EXCEPT ![n].stalled = @ + 1,
                            ![n].state = IF jobs[n].stalled < MaxStalled THEN "waiting" ELSE "failed"]
    /\ UNCHANGED <<callVars, worker>> /\ BesidesMail

JobStep(n) == Pick(n) \/ Send(n) \/ Complete(n) \/ Refuse(n) \/ BackoffOver(n) \/ Stalled(n)

-------------------------------------------------------------------------------
Settled(n) == jobs[n].state \in {"completed", "failed"}

\* A completed job has sent its mail; one that was given up has been refused
\* as often as it may, or has stalled once too often; and however attempts,
\* stalls and restarts mix, a mail goes out at most once for each attempt and
\* each stall the job is allowed.
SentAsReported ==
    \A n \in DOMAIN jobs : jobs[n] # NoJob =>
        /\ jobs[n].state = "completed" => jobs[n].sent > 0
        /\ jobs[n].state = "failed" => jobs[n].refused = Attempts \/ jobs[n].stalled > MaxStalled
        /\ jobs[n].sent <= Attempts + MaxStalled

\* Every mail a call has queued is sent or given up, whatever other jobs do
\* and however often the server restarts.
MailsAreSettled == \A n \in 1 .. MaxCalls : jobs[n] # NoJob ~> Settled(n)
===============================================================================
