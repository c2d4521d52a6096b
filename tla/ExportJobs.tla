------------------------------ MODULE ExportJobs ------------------------------
(***************************************************************************)
(* Organization exports: organizations/export_tasks.py and                 *)
(* organizations/api_export.py.                                            *)
(*                                                                         *)
(* An HTTP request creates or retries an ExportJob row and publishes a     *)
(* Celery message; a worker takes the message, tries the PostgreSQL        *)
(* session advisory lock of the job, builds the archive, replaces the      *)
(* object under the job's deterministic key and marks the row READY.  Two  *)
(* periodic tasks run beside them: recover_stale_exports resets and        *)
(* republishes jobs without recent activity, cleanup_expired_exports       *)
(* deletes the objects of READY jobs whose retention is over.              *)
(*                                                                         *)
(* One action is one committed database statement or transaction, one      *)
(* object store call or one broker call: everything between two of them is *)
(* invisible to the other processes.  Row locks are held for exactly one   *)
(* action, so they need no variable.                                       *)
(*                                                                         *)
(* Times are ages.  activity[j] is the time since the "activity_at" that   *)
(* is_export_job_stale reads (queued_at or created_at of a PENDING job,    *)
(* heartbeat_at of a PROCESSING one, which is set in the same statement as *)
(* the status), saturated at AgeCap and 0 in the other statuses, that      *)
(* nobody asks the age of; expires[j] is the time left before expires_at.  *)
(* The default storage is S3 with overwriting on, so save() returns the    *)
(* name it was given.  object_key is not a variable: it is the job's       *)
(* deterministic key exactly while the row is READY, and empty otherwise.  *)
(***************************************************************************)
EXTENDS Naturals, FiniteSets

CONSTANTS
    Jobs,           \* export rows that may be created
    Workers,        \* Celery worker processes of the exports queue
    Requests,       \* concurrent HTTP requests
    Recoveries,     \* concurrent runs of recover_stale_exports
    Cleaners,       \* concurrent runs of cleanup_expired_exports
    NoJob, NoWorker,
    TaskTimeLimit,  \* CELERY_TASK_TIME_LIMIT
    StaleAfter,     \* EXPORT_STALE_AFTER_SECONDS
    Retention,      \* EXPORT_RETENTION_DAYS
    QueueCap,       \* bound: messages of one job waiting in the broker
    MaxFaults,      \* bound: crashes, timeouts, lost messages, failed calls
    ConnectionLoss  \* whether a running task can lose its database connection

ASSUME ConstantsAssumption ==
    /\ NoJob \notin Jobs
    /\ NoWorker \notin Workers
    /\ Requests \cap Recoveries = {}
    /\ TaskTimeLimit \in Nat /\ StaleAfter \in Nat /\ Retention \in Nat
    /\ QueueCap \in Nat /\ MaxFaults \in Nat
    /\ ConnectionLoss \in BOOLEAN

(* settings/base.py refuses to start otherwise. *)
ASSUME StaleAfterAssumption == StaleAfter > TaskTimeLimit

VARIABLES
    status, activity, expires,    \* ExportJob rows
    stored,                       \* jobs whose object exists in the bucket
    queue, lock,                  \* broker messages, advisory lock owners
    wpc, wjob, wage, wsaved, wconn, \* workers: saved_key, live connection
    ppc, pjob, ptodo, page,       \* requests and recovery runs
    cpc, cjob, ctodo,             \* cleanup runs
    faults,                       \* faults still allowed to happen
    interrupted                   \* history: see MarkReadyInterrupted

rowVars == <<status, activity, expires>>
workerVars == <<wpc, wjob, wage, wsaved, wconn>>
publisherVars == <<ppc, pjob, ptodo, page>>
cleanerVars == <<cpc, cjob, ctodo>>
vars == <<rowVars, stored, queue, lock, workerVars, publisherVars,
          cleanerVars, faults, interrupted>>

Publishers == Requests \cup Recoveries
AgeCap == StaleAfter + TaskTimeLimit

(* "absent" is a row not created yet, "deleted" one removed with its       *)
(* organization (on_delete=CASCADE).                                       *)
Status == {"absent", "pending", "processing", "ready", "failed", "expired",
           "deleted"}

(* Where a worker stands in export_org_data_task. *)
Attempting == {"build", "save", "mark", "cleanup", "fail"}
WorkerPC == {"idle", "begin", "done"} \cup Attempting
PublisherPC == {"idle", "next", "stamp", "send", "refuse"}
CleanerPC == {"idle", "next", "save"}

TypeOK ==
    /\ status \in [Jobs -> Status]
    /\ activity \in [Jobs -> 0..AgeCap]
    /\ expires \in [Jobs -> 0..Retention]
    /\ stored \in SUBSET Jobs
    /\ queue \in [Jobs -> 0..QueueCap]
    /\ lock \in [Jobs -> Workers \cup {NoWorker}]
    /\ wpc \in [Workers -> WorkerPC]
    /\ wjob \in [Workers -> Jobs \cup {NoJob}]
    /\ wage \in [Workers -> 0..TaskTimeLimit]
    /\ wsaved \in [Workers -> BOOLEAN]
    /\ wconn \in [Workers -> BOOLEAN]
    /\ ppc \in [Publishers -> PublisherPC]
    /\ pjob \in [Publishers -> Jobs \cup {NoJob}]
    /\ ptodo \in [Publishers -> SUBSET Jobs]
    /\ page \in [Publishers -> 0..TaskTimeLimit]
    /\ cpc \in [Cleaners -> CleanerPC]
    /\ cjob \in [Cleaners -> Jobs \cup {NoJob}]
    /\ ctodo \in [Cleaners -> SUBSET Jobs]
    /\ faults \in 0..MaxFaults
    /\ interrupted \in SUBSET Jobs

Init ==
    /\ status = [j \in Jobs |-> "absent"]
    /\ activity = [j \in Jobs |-> 0]
    /\ expires = [j \in Jobs |-> 0]
    /\ stored = {}
    /\ queue = [j \in Jobs |-> 0]
    /\ lock = [j \in Jobs |-> NoWorker]
    /\ wpc = [w \in Workers |-> "idle"]
    /\ wjob = [w \in Workers |-> NoJob]
    /\ wage = [w \in Workers |-> 0]
    /\ wsaved = [w \in Workers |-> FALSE]
    /\ wconn = [w \in Workers |-> TRUE]
    /\ ppc = [p \in Publishers |-> "idle"]
    /\ pjob = [p \in Publishers |-> NoJob]
    /\ ptodo = [p \in Publishers |-> {}]
    /\ page = [p \in Publishers |-> 0]
    /\ cpc = [c \in Cleaners |-> "idle"]
    /\ cjob = [c \in Cleaners |-> NoJob]
    /\ ctodo = [c \in Cleaners |-> {}]
    /\ faults = MaxFaults
    /\ interrupted = {}

-----------------------------------------------------------------------------
(* Row operations. *)

Active(j) == status[j] \in {"pending", "processing"}

(* Mutants: recovery that overlooks PENDING jobs; one that overlooks the    *)
(* heartbeat.                                                               *)
StaleProcessing(j, elapsed) ==
    status[j] = "processing" /\ activity[j] >= StaleAfter + elapsed
StaleWhenActive(j, elapsed) == Active(j) /\ activity[j] >= elapsed

(* is_export_job_stale and _stale_export_query, at a "now" that was elapsed *)
(* time units ago.                                                          *)
Stale(j, elapsed) == Active(j) /\ activity[j] >= StaleAfter + elapsed

SetStatus(j, s) == status' = [status EXCEPT ![j] = s]
SetActivity(j, age) == activity' = [activity EXCEPT ![j] = age]

(* Mutant: the time of the reset is added to the age instead of replacing it. *)
ResetKeepingAge(j, elapsed) ==
    /\ SetStatus(j, "pending")
    /\ SetActivity(j, activity[j] + elapsed)
    /\ UNCHANGED expires

(* reset_export_for_retry, with the caller's "now". *)
ResetForRetry(j, elapsed) ==
    /\ SetStatus(j, "pending")
    /\ SetActivity(j, elapsed)
    /\ UNCHANGED expires

(* Mutant: the UPDATE forgets its WHERE clause on the status. *)
UpdateAlways(j, s, new) ==
    /\ status' = IF status[j] # "deleted" THEN [status EXCEPT ![j] = new]
                                          ELSE status
    /\ SetActivity(j, 0)

(* An UPDATE ... WHERE status = s that changes nothing when it matches no row. *)
UpdateWhere(j, s, new) ==
    /\ status' = IF status[j] = s THEN [status EXCEPT ![j] = new] ELSE status
    /\ activity' = IF status[j] = s THEN [activity EXCEPT ![j] = 0] ELSE activity

Fault == faults > 0 /\ faults' = faults - 1

-----------------------------------------------------------------------------
(* Publishing: create_export, retry_export, recover_stale_exports.         *)

PublisherGoes(p, pc) == ppc' = [ppc EXCEPT ![p] = pc]

(* A request ends with its response, a recovery run takes its next job. *)
PublisherReturns(p) ==
    /\ PublisherGoes(p, IF p \in Recoveries THEN "next" ELSE "idle")
    /\ pjob' = [pjob EXCEPT ![p] = NoJob]

CreateExport(p, j) ==
    /\ ppc[p] = "idle" /\ status[j] = "absent"
    /\ SetStatus(j, "pending")
    /\ SetActivity(j, 0)
    /\ PublisherGoes(p, "stamp")
    /\ pjob' = [pjob EXCEPT ![p] = j]
    /\ UNCHANGED <<expires, stored, queue, lock, workerVars, ptodo, page,
                   cleanerVars, faults, interrupted>>

RetryExport(p, j) ==
    /\ ppc[p] = "idle"
    /\ status[j] = "failed" \/ Stale(j, 0)
    /\ ResetForRetry(j, 0)
    /\ PublisherGoes(p, "stamp")
    /\ pjob' = [pjob EXCEPT ![p] = j]
    /\ UNCHANGED <<stored, queue, lock, workerVars, ptodo, page, cleanerVars,
                   faults, interrupted>>

(* recover_stale_exports reads the ids of every stale job once. *)
ScanStale(p) ==
    LET stale == {j \in Jobs : Stale(j, 0)} IN
    /\ ppc[p] = "idle" /\ stale # {}
    /\ PublisherGoes(p, "next")
    /\ ptodo' = [ptodo EXCEPT ![p] = stale]
    /\ page' = [page EXCEPT ![p] = 0]
    /\ UNCHANGED <<rowVars, stored, queue, lock, workerVars, pjob, cleanerVars,
                   faults, interrupted>>

(* Staleness is checked again under the row lock, with the scan's "now". *)
RecoverJob(p, j) ==
    /\ ppc[p] = "next" /\ j \in ptodo[p] /\ Stale(j, page[p])
    /\ ptodo' = [ptodo EXCEPT ![p] = @ \ {j}]
    /\ ResetForRetry(j, page[p])
    /\ PublisherGoes(p, "stamp")
    /\ pjob' = [pjob EXCEPT ![p] = j]
    /\ UNCHANGED <<stored, queue, lock, workerVars, page, cleanerVars, faults,
                   interrupted>>

SkipRecovered(p, j) ==
    /\ ppc[p] = "next" /\ j \in ptodo[p] /\ ~Stale(j, page[p])
    /\ ptodo' = [ptodo EXCEPT ![p] = @ \ {j}]
    /\ UNCHANGED <<rowVars, stored, queue, lock, workerVars, ppc, pjob, page,
                   cleanerVars, faults, interrupted>>

EndRecovery(p) ==
    /\ ppc[p] = "next" /\ ptodo[p] = {}
    /\ PublisherGoes(p, "idle")
    /\ page' = [page EXCEPT ![p] = 0]
    /\ UNCHANGED <<rowVars, stored, queue, lock, workerVars, pjob, ptodo,
                   cleanerVars, faults, interrupted>>

(* enqueue_export_job: queued_at is refreshed only while the row is PENDING, *)
(* otherwise the call raises and nothing is published.                       *)
StampQueued(p) ==
    LET j == pjob[p] IN
    /\ ppc[p] = "stamp"
    /\ \/ /\ status[j] = "pending"
          /\ SetActivity(j, 0)
          /\ PublisherGoes(p, "send")
          /\ UNCHANGED pjob
       \/ /\ status[j] # "pending"
          /\ PublisherReturns(p)
          /\ UNCHANGED activity
    /\ UNCHANGED <<status, expires, stored, queue, lock, workerVars,
                   ptodo, page, cleanerVars, faults, interrupted>>

Send(p) ==
    LET j == pjob[p] IN
    /\ ppc[p] = "send" /\ queue[j] < QueueCap
    /\ queue' = [queue EXCEPT ![j] = @ + 1]
    /\ PublisherReturns(p)
    /\ UNCHANGED <<rowVars, stored, lock, workerVars, ptodo, page,
                   cleanerVars, faults, interrupted>>

(* delay() raises; the broker may have accepted the message all the same. *)
SendFails(p) ==
    LET j == pjob[p] IN
    /\ ppc[p] = "send" /\ Fault
    /\ \/ UNCHANGED queue
       \/ queue[j] < QueueCap /\ queue' = [queue EXCEPT ![j] = @ + 1]
    /\ PublisherGoes(p, "refuse")
    /\ UNCHANGED <<rowVars, stored, lock, workerVars, pjob, ptodo, page,
                   cleanerVars, interrupted>>

RefuseExport(p) ==
    /\ ppc[p] = "refuse"
    /\ UpdateWhere(pjob[p], "pending", "failed")
    /\ PublisherReturns(p)
    /\ UNCHANGED <<expires, stored, queue, lock, workerVars,
                   ptodo, page, cleanerVars, faults, interrupted>>

(* The web process or the recovery task dies between two statements. *)
PublisherCrash(p) ==
    /\ ppc[p] # "idle" /\ Fault
    /\ PublisherGoes(p, "idle")
    /\ pjob' = [pjob EXCEPT ![p] = NoJob]
    /\ ptodo' = [ptodo EXCEPT ![p] = {}]
    /\ page' = [page EXCEPT ![p] = 0]
    /\ UNCHANGED <<rowVars, stored, queue, lock, workerVars, cleanerVars,
                   interrupted>>

-----------------------------------------------------------------------------
(* export_org_data_task. *)

WorkerGoes(w, pc) == wpc' = [wpc EXCEPT ![w] = pc]

(* A worker process with no task; its next task opens a fresh connection. *)
WorkerIdles(w) ==
    /\ WorkerGoes(w, "idle")
    /\ wjob' = [wjob EXCEPT ![w] = NoJob]
    /\ wage' = [wage EXCEPT ![w] = 0]
    /\ wsaved' = [wsaved EXCEPT ![w] = FALSE]
    /\ wconn' = [wconn EXCEPT ![w] = TRUE]

(* The session lock ends with pg_advisory_unlock or with the session. *)
Unlock(w) ==
    lock' = [j \in Jobs |-> IF lock[j] = w THEN NoWorker ELSE lock[j]]

(* Mutant: a lock that everyone gets, as one held per transaction only. *)
LockShared(j) == j \in Jobs

(* Whether pg_try_advisory_lock succeeds. *)
LockFree(j) == lock[j] = NoWorker

TakeJob(w, j) ==
    /\ wpc[w] = "idle" /\ queue[j] > 0 /\ LockFree(j)
    /\ queue' = [queue EXCEPT ![j] = @ - 1]
    /\ lock' = [lock EXCEPT ![j] = w]
    /\ WorkerGoes(w, "begin")
    /\ wjob' = [wjob EXCEPT ![w] = j]
    /\ UNCHANGED <<rowVars, stored, wage, wsaved, wconn, publisherVars,
                   cleanerVars, faults, interrupted>>

(* Without the lock the task returns at once and its message is gone. *)
DropDuplicate(w, j) ==
    /\ wpc[w] = "idle" /\ queue[j] > 0 /\ ~LockFree(j)
    /\ queue' = [queue EXCEPT ![j] = @ - 1]
    /\ UNCHANGED <<rowVars, stored, lock, workerVars, publisherVars,
                   cleanerVars, faults, interrupted>>

BeginAttempt(w) ==
    LET j == wjob[w] IN
    /\ wpc[w] = "begin" /\ wconn[w] /\ Active(j)
    /\ SetStatus(j, "processing")
    /\ SetActivity(j, 0)
    /\ WorkerGoes(w, "build")
    /\ UNCHANGED <<expires, stored, queue, lock, wjob, wage, wsaved, wconn,
                   publisherVars, cleanerVars, faults, interrupted>>

(* A finished or deleted job, or a query that fails, ends the task. *)
SkipAttempt(w) ==
    /\ wpc[w] = "begin"
    /\ ~Active(wjob[w]) \/ ~wconn[w]
    /\ WorkerGoes(w, "done")
    /\ UNCHANGED <<rowVars, stored, queue, lock, wjob, wage, wsaved, wconn,
                   publisherVars, cleanerVars, faults, interrupted>>

Heartbeat(w) ==
    LET j == wjob[w] IN
    /\ wpc[w] = "build" /\ wconn[w] /\ status[j] = "processing"
    /\ SetActivity(j, 0)
    /\ UNCHANGED <<status, expires, stored, queue, lock, workerVars,
                   publisherVars, cleanerVars, faults, interrupted>>

(* The archive is built; the object of an earlier attempt goes first. *)
DeleteOldObject(w) ==
    /\ wpc[w] = "build"
    /\ stored' = stored \ {wjob[w]}
    /\ WorkerGoes(w, "save")
    /\ UNCHANGED <<rowVars, queue, lock, wjob, wage, wsaved, wconn,
                   publisherVars, cleanerVars, faults, interrupted>>

Upload(w) ==
    /\ wpc[w] = "save"
    /\ stored' = stored \cup {wjob[w]}
    /\ WorkerGoes(w, "mark")
    /\ wsaved' = [wsaved EXCEPT ![w] = TRUE]
    /\ UNCHANGED <<rowVars, queue, lock, wjob, wage, wconn, publisherVars,
                   cleanerVars, faults, interrupted>>

(* Any exception inside the try block: the archive, the object store (whose *)
(* upload may have happened), the soft time limit, a broken connection;     *)
(* here before the READY transition has committed.                          *)
AttemptFails(w) ==
    /\ wpc[w] \in {"build", "save", "mark"}
    /\ \/ UNCHANGED stored
       \/ wpc[w] = "save" /\ stored' = stored \cup {wjob[w]}
    /\ WorkerGoes(w, "cleanup")
    /\ UNCHANGED <<rowVars, queue, lock, wjob, wage, wsaved, wconn,
                   publisherVars, cleanerVars, faults, interrupted>>

(* The UPDATE of _mark_export_ready finds the PROCESSING row and commits. *)
PublishRow(w) ==
    LET j == wjob[w] IN
    /\ wpc[w] = "mark" /\ wconn[w] /\ status[j] = "processing"
    /\ SetStatus(j, "ready")
    /\ SetActivity(j, 0)
    /\ expires' = [expires EXCEPT ![j] = Retention]

MarkReady(w) ==
    /\ PublishRow(w)
    /\ WorkerGoes(w, "done")
    /\ wsaved' = [wsaved EXCEPT ![w] = FALSE]
    /\ UNCHANGED <<stored, queue, lock, wjob, wage, wconn, publisherVars,
                   cleanerVars, faults, interrupted>>

(* The soft time limit raises after the UPDATE committed and before the try  *)
(* block ends: the except block, which does not look at the row, will delete *)
(* the object of a READY export.  Such exports are remembered.               *)
MarkReadyInterrupted(w) ==
    /\ PublishRow(w)
    /\ WorkerGoes(w, "cleanup")
    /\ interrupted' = interrupted \cup {wjob[w]}
    /\ UNCHANGED <<stored, queue, lock, wjob, wage, wsaved, wconn,
                   publisherVars, cleanerVars, faults>>

(* The same when the UPDATE commits and its reply is lost with the connection. *)
MarkReadyReplyLost(w) ==
    /\ ConnectionLoss /\ Fault
    /\ PublishRow(w)
    /\ WorkerGoes(w, "cleanup")
    /\ wconn' = [wconn EXCEPT ![w] = FALSE]
    /\ Unlock(w)
    /\ interrupted' = interrupted \cup {wjob[w]}
    /\ UNCHANGED <<stored, queue, wjob, wage, wsaved, publisherVars,
                   cleanerVars>>

(* "Export job no longer belongs to this worker", or the query fails. *)
MarkReadyRefused(w) ==
    /\ wpc[w] = "mark"
    /\ status[wjob[w]] # "processing" \/ ~wconn[w]
    /\ WorkerGoes(w, "cleanup")
    /\ UNCHANGED <<rowVars, stored, queue, lock, wjob, wage, wsaved, wconn,
                   publisherVars, cleanerVars, faults, interrupted>>

(* The except block: delete the upload, ignoring failures ... *)
DeleteUpload(w) ==
    /\ wpc[w] = "cleanup"
    /\ \/ wsaved[w] /\ stored' = stored \ {wjob[w]} /\ UNCHANGED faults
       \/ wsaved[w] /\ Fault /\ UNCHANGED stored
       \/ ~wsaved[w] /\ UNCHANGED <<stored, faults>>
    /\ WorkerGoes(w, "fail")
    /\ wsaved' = [wsaved EXCEPT ![w] = FALSE]
    /\ UNCHANGED <<rowVars, queue, lock, wjob, wage, wconn,
                   publisherVars, cleanerVars, interrupted>>

(* ... then mark the job FAILED if it is still PROCESSING. *)
RecordFailure(w) ==
    /\ wpc[w] = "fail"
    /\ IF wconn[w] THEN UpdateWhere(wjob[w], "processing", "failed")
                   ELSE UNCHANGED <<status, activity>>
    /\ WorkerGoes(w, "done")
    /\ UNCHANGED <<expires, stored, queue, lock, wjob, wage, wsaved,
                   wconn, publisherVars, cleanerVars, faults, interrupted>>

(* A statement outside the try block raises: the transaction that begins the *)
(* attempt is rolled back, or the UPDATE to FAILED does not happen.          *)
TaskRaises(w) ==
    /\ wpc[w] \in {"begin", "fail"} /\ Fault
    /\ WorkerGoes(w, "done")
    /\ UNCHANGED <<rowVars, stored, queue, lock, wjob, wage, wsaved, wconn,
                   publisherVars, cleanerVars, interrupted>>

(* Notification, pg_advisory_unlock, acknowledgement. *)
EndTask(w) ==
    /\ wpc[w] = "done"
    /\ Unlock(w)
    /\ WorkerIdles(w)
    /\ UNCHANGED <<rowVars, stored, queue, publisherVars, cleanerVars, faults,
                   interrupted>>

(* acks_late and reject_on_worker_lost: the broker redelivers the message. *)
WorkerLost(w) ==
    LET j == wjob[w] IN
    /\ wpc[w] # "idle" /\ Fault /\ queue[j] < QueueCap
    /\ queue' = [queue EXCEPT ![j] = @ + 1]
    /\ Unlock(w)
    /\ WorkerIdles(w)
    /\ UNCHANGED <<rowVars, stored, publisherVars, cleanerVars, interrupted>>

(* The hard limit kills the process; its message is acknowledged. *)
HardTimeLimit(w) ==
    /\ wpc[w] # "idle" /\ wage[w] = TaskTimeLimit /\ Fault
    /\ Unlock(w)
    /\ WorkerIdles(w)
    /\ UNCHANGED <<rowVars, stored, queue, publisherVars, cleanerVars,
                   interrupted>>

(* PostgreSQL releases a session lock with its session, and the task goes  *)
(* on until its next query.                                                *)
LoseConnection(w) ==
    /\ ConnectionLoss /\ Fault
    /\ wpc[w] # "idle" /\ wconn[w]
    /\ Unlock(w)
    /\ wconn' = [wconn EXCEPT ![w] = FALSE]
    /\ UNCHANGED <<rowVars, stored, queue, wpc, wjob, wage, wsaved,
                   publisherVars, cleanerVars, interrupted>>

-----------------------------------------------------------------------------
(* cleanup_expired_exports *)

(* Mutant: the query forgets expires_at. *)
Ready(j) == status[j] = "ready"

Expired(j) == status[j] = "ready" /\ expires[j] = 0

CleanerGoes(c, pc) == cpc' = [cpc EXCEPT ![c] = pc]

ScanExpired(c) ==
    LET expired == {j \in Jobs : Expired(j)} IN
    /\ cpc[c] = "idle" /\ expired # {}
    /\ CleanerGoes(c, "next")
    /\ ctodo' = [ctodo EXCEPT ![c] = expired]
    /\ UNCHANGED <<rowVars, stored, queue, lock, workerVars, publisherVars,
                   cjob, faults, interrupted>>

DeleteExpired(c, j) ==
    /\ cpc[c] = "next" /\ j \in ctodo[c]
    /\ stored' = stored \ {j}
    /\ CleanerGoes(c, "save")
    /\ cjob' = [cjob EXCEPT ![c] = j]
    /\ ctodo' = [ctodo EXCEPT ![c] = @ \ {j}]
    /\ UNCHANGED <<rowVars, queue, lock, workerVars, publisherVars, faults,
                   interrupted>>

(* Mutant: the row is saved as EXPIRED although its object was not deleted. *)
SaveDespiteFailure(c, j) ==
    /\ cpc[c] = "next" /\ j \in ctodo[c] /\ Fault
    /\ CleanerGoes(c, "save")
    /\ cjob' = [cjob EXCEPT ![c] = j]
    /\ ctodo' = [ctodo EXCEPT ![c] = @ \ {j}]
    /\ UNCHANGED <<rowVars, stored, queue, lock, workerVars, publisherVars,
                   interrupted>>

(* A delete that raises is logged and the next row is taken. *)
DeleteExpiredFails(c, j) ==
    /\ cpc[c] = "next" /\ j \in ctodo[c] /\ Fault
    /\ stored' \in {stored, stored \ {j}}
    /\ ctodo' = [ctodo EXCEPT ![c] = @ \ {j}]
    /\ UNCHANGED <<rowVars, queue, lock, workerVars, publisherVars, cpc, cjob,
                   interrupted>>

(* Mutant: update_fields without "status". *)
SaveKeyOnly(c) ==
    /\ cpc[c] = "save"
    /\ CleanerGoes(c, "next")
    /\ UNCHANGED <<rowVars, stored, queue, lock, workerVars, publisherVars,
                   cjob, ctodo, faults, interrupted>>

(* job.save(update_fields=...) writes the row it read, whatever its status  *)
(* is by now; for a deleted row it raises and the whole run ends.           *)
SaveExpired(c) ==
    LET j == cjob[c] IN
    /\ cpc[c] = "save"
    /\ cjob' = [cjob EXCEPT ![c] = NoJob]
    /\ \/ /\ status[j] # "deleted"
          /\ SetStatus(j, "expired")
          /\ CleanerGoes(c, "next")
          /\ UNCHANGED ctodo
       \/ /\ status[j] = "deleted"
          /\ CleanerGoes(c, "idle")
          /\ ctodo' = [ctodo EXCEPT ![c] = {}]
          /\ UNCHANGED status
    /\ UNCHANGED <<activity, expires, stored, queue, lock, workerVars,
                   publisherVars, faults, interrupted>>

EndCleanup(c) ==
    /\ cpc[c] = "next" /\ ctodo[c] = {}
    /\ CleanerGoes(c, "idle")
    /\ UNCHANGED <<rowVars, stored, queue, lock, workerVars, publisherVars,
                   cjob, ctodo, faults, interrupted>>

CleanerCrash(c) ==
    /\ cpc[c] # "idle" /\ Fault
    /\ CleanerGoes(c, "idle")
    /\ cjob' = [cjob EXCEPT ![c] = NoJob]
    /\ ctodo' = [ctodo EXCEPT ![c] = {}]
    /\ UNCHANGED <<rowVars, stored, queue, lock, workerVars, publisherVars,
                   interrupted>>

-----------------------------------------------------------------------------
(* The environment. *)

(* The organization is deleted and its export rows with it. *)
DeleteRow(j) ==
    /\ status[j] \notin {"absent", "deleted"}
    /\ SetStatus(j, "deleted")
    /\ SetActivity(j, 0)
    /\ expires' = [expires EXCEPT ![j] = 0]
    /\ UNCHANGED <<stored, queue, lock, workerVars,
                   publisherVars, cleanerVars, faults, interrupted>>

(* Redis is not durable. *)
LoseMessage(j) ==
    /\ queue[j] > 0 /\ Fault
    /\ queue' = [queue EXCEPT ![j] = @ - 1]
    /\ UNCHANGED <<rowVars, stored, lock, workerVars, publisherVars,
                   cleanerVars, interrupted>>

(* No Celery task outlives the hard time limit. *)
Tick ==
    /\ \A w \in Workers : wpc[w] # "idle" => wage[w] < TaskTimeLimit
    /\ \A p \in Recoveries : ppc[p] # "idle" => page[p] < TaskTimeLimit
    /\ activity' = [j \in Jobs |->
          IF Active(j) /\ activity[j] < AgeCap THEN activity[j] + 1
                                               ELSE activity[j]]
    /\ expires' = [j \in Jobs |->
          IF expires[j] > 0 THEN expires[j] - 1 ELSE 0]
    /\ wage' = [w \in Workers |->
          IF wpc[w] # "idle" THEN wage[w] + 1 ELSE 0]
    /\ page' = [p \in Publishers |->
          IF p \in Recoveries /\ ppc[p] # "idle" THEN page[p] + 1 ELSE 0]
    /\ UNCHANGED <<status, stored, queue, lock, wpc, wjob, wsaved, wconn, ppc,
                   pjob, ptodo, cleanerVars, faults, interrupted>>

-----------------------------------------------------------------------------

PublisherStep(p) ==
    \/ StampQueued(p) \/ Send(p) \/ RefuseExport(p) \/ EndRecovery(p)
    \/ \E j \in Jobs : RecoverJob(p, j) \/ SkipRecovered(p, j)

AttemptStep(w) ==
    \/ BeginAttempt(w) \/ SkipAttempt(w) \/ DeleteOldObject(w) \/ Upload(w)
    \/ MarkReady(w) \/ MarkReadyRefused(w) \/ DeleteUpload(w)
    \/ RecordFailure(w) \/ EndTask(w)

CleanerStep(c) ==
    \/ SaveExpired(c) \/ EndCleanup(c)
    \/ \E j \in Jobs : DeleteExpired(c, j)

Next ==
    \/ \E p \in Requests, j \in Jobs : CreateExport(p, j) \/ RetryExport(p, j)
    \/ \E p \in Recoveries : ScanStale(p)
    \/ \E p \in Publishers :
         PublisherStep(p) \/ SendFails(p) \/ PublisherCrash(p)
    \/ \E w \in Workers, j \in Jobs : TakeJob(w, j) \/ DropDuplicate(w, j)
    \/ \E w \in Workers :
         \/ AttemptStep(w) \/ Heartbeat(w) \/ AttemptFails(w)
         \/ MarkReadyInterrupted(w) \/ MarkReadyReplyLost(w) \/ TaskRaises(w)
         \/ WorkerLost(w) \/ HardTimeLimit(w) \/ LoseConnection(w)
    \/ \E c \in Cleaners : ScanExpired(c) \/ CleanerStep(c) \/ CleanerCrash(c)
    \/ \E c \in Cleaners, j \in Jobs : DeleteExpiredFails(c, j)
    \/ \E j \in Jobs : DeleteRow(j) \/ LoseMessage(j)
    \/ Tick

Spec == Init /\ [][Next]_vars

(* Scheduling: the clock advances, Beat keeps starting both maintenance     *)
(* tasks, a started process keeps executing, and the broker hands every     *)
(* waiting message to a worker that keeps becoming free.  Nothing is        *)
(* assumed of users, and faults are bounded by MaxFaults.                   *)
Fairness ==
    /\ WF_vars(Tick)
    /\ \A p \in Recoveries : WF_vars(ScanStale(p))
    /\ \A p \in Publishers : WF_vars(PublisherStep(p))
    /\ \A j \in Jobs :
         SF_vars(\E w \in Workers : TakeJob(w, j) \/ DropDuplicate(w, j))
    /\ \A w \in Workers : WF_vars(AttemptStep(w))
    /\ \A c \in Cleaners : WF_vars(ScanExpired(c)) /\ WF_vars(CleanerStep(c))

FairSpec == Spec /\ Fairness

-----------------------------------------------------------------------------
(* Correctness. *)

(* A PostgreSQL advisory lock prevents concurrent workers from generating  *)
(* the same export: two workers are never inside the attempt of one job.   *)
ExclusiveGeneration ==
    \A v, w \in Workers :
        wpc[v] \in Attempting /\ wpc[w] \in Attempting /\ wjob[v] = wjob[w]
        => v = w

(* Until its expiry a READY export can be downloaded: serialize_export_job *)
(* signs a URL for an object that exists, whatever retries, duplicate      *)
(* deliveries, failed attempts and cleanup runs did before.  The one way   *)
(* to lose it is an exception between the commit of READY and the end of   *)
(* the try block, whose handler deletes what was just published.           *)
DownloadableHasObject ==
    \A j \in Jobs \ interrupted :
        status[j] = "ready" /\ expires[j] > 0 => j \in stored

(* Retention is enforced: an EXPIRED job, which no later cleanup run reads *)
(* again, has left no object behind.                                       *)
ExpiredObjectGone ==
    \A j \in Jobs : status[j] = "expired" => j \notin stored

(* Fresh active jobs retain ownership: while a worker is inside an attempt *)
(* neither a retry request, a recovery run nor a failed publication takes  *)
(* the job from it, so its result is recorded.  Only the deletion of the   *)
(* row does; an attempt interrupted after its READY has recorded it itself. *)
AttemptKeepsJob ==
    \A w \in Workers :
        wpc[w] \in Attempting /\ wjob[w] \notin interrupted
        => status[wjob[w]] \in {"processing", "deleted"}

(* Every accepted export is settled: no crash, lost or dropped message     *)
(* leaves it PENDING or PROCESSING for ever.                               *)
ActiveJobsSettle == \A j \in Jobs : Active(j) ~> ~Active(j)

(* Every READY export is expired (or deleted) once its time has come.      *)
RetentionEnforced == \A j \in Jobs : Expired(j) ~> status[j] # "ready"

(* The phase of an export as far as its row tells. *)
RowPhase(j) ==
    CASE status[j] = "absent" -> "none"
      [] Active(j) -> "waiting"
      [] status[j] = "ready" /\ expires[j] > 0 -> "available"
      [] status[j] = "failed" -> "failed"
      [] OTHER -> "gone"

(* The phase a poller meets, who also follows the download URL. *)
Phase(j) ==
    IF RowPhase(j) = "available" /\ j \notin stored THEN "broken" ELSE RowPhase(j)

rowPhaseBar == [j \in Jobs |-> RowPhase(j)]
phaseBar == [j \in Jobs |-> Phase(j)]

RowLifecycle == INSTANCE ExportLifecycle WITH phase <- rowPhaseBar
Lifecycle == INSTANCE ExportLifecycle WITH phase <- phaseBar

(* The rows follow the lifecycle even when sessions and their locks are    *)
(* lost: the conditional updates alone keep a settled export settled.      *)
RowsFollowLifecycle == RowLifecycle!Spec

(* The jobs, workers, queue and bucket implement the lifecycle promised to *)
(* administrators: an available archive goes only by expiry, by deletion   *)
(* or by the exception that interrupted its publication, a failed export   *)
(* returns only by a retry, a settled one never reverts.                   *)
ImplementsLifecycle == Lifecycle!Spec
=============================================================================
