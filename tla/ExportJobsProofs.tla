--------------------------- MODULE ExportJobsProofs ---------------------------
(***************************************************************************)
(* Safety of ExportJobs for any number of jobs, workers, requests and      *)
(* maintenance runs, any limits and any number of faults, as long as a     *)
(* task keeps its database connection.                                     *)
(***************************************************************************)
EXTENDS ExportJobs, TLAPS

(* Whoever is in the middle of something knows which job it is about. *)
Assigned ==
    /\ \A w \in Workers : wpc[w] # "idle" => wjob[w] \in Jobs
    /\ \A p \in Publishers :
         ppc[p] \in {"stamp", "send", "refuse"} => pjob[p] \in Jobs
    /\ \A c \in Cleaners : cpc[c] = "save" => cjob[c] \in Jobs

(* A task between its first and last statement holds the lock of its job.  *)
LockHeld ==
    \A w \in Workers : wpc[w] # "idle" => lock[wjob[w]] = w

(* The row of an attempt is PROCESSING and at most as old as the task:     *)
(* this is what keeps it from being stale.  The exception is the handler   *)
(* that runs after the READY it has itself committed.                      *)
AttemptFresh ==
    \A w \in Workers :
        wpc[w] \in Attempting =>
            \/ status[wjob[w]] = "deleted"
            \/ status[wjob[w]] = "processing" /\ activity[wjob[w]] <= wage[w]
            \/ wjob[w] \in interrupted /\ wpc[w] \in {"cleanup", "fail"}

(* What a worker is about to record as READY is in the bucket. *)
UploadPresent ==
    \A w \in Workers :
        wpc[w] = "mark" /\ status[wjob[w]] # "deleted" => wjob[w] \in stored

(* A job whose retention is over stays over. *)
Over(j) == Expired(j) \/ status[j] \in {"expired", "deleted"}

(* A cleanup run only holds jobs whose retention is over ... *)
CleanerOver ==
    \A c \in Cleaners :
        /\ \A j \in ctodo[c] : Over(j)
        /\ cpc[c] = "save" => Over(cjob[c])

(* ... and saves a row only after its object is gone. *)
CleanerDeletedFirst ==
    \A c \in Cleaners :
        cpc[c] = "save" /\ status[cjob[c]] # "deleted" => cjob[c] \notin stored

IInv ==
    /\ TypeOK
    /\ Assigned
    /\ CleanerOver
    /\ LockHeld
    /\ AttemptFresh
    /\ UploadPresent
    /\ CleanerDeletedFirst
    /\ DownloadableHasObject
    /\ ExpiredObjectGone

-----------------------------------------------------------------------------

(* A process is given its job before it works on it. *)
LEMMA AssignedStep == TypeOK /\ Assigned /\ [Next]_vars => Assigned'
<1> SUFFICES ASSUME TypeOK, Assigned, [Next]_vars PROVE Assigned'
  OBVIOUS
<1> USE ConstantsAssumption
    DEF Assigned, Publishers, Fault, SetStatus, SetActivity, ResetForRetry,
        UpdateWhere, PublisherGoes, PublisherReturns, WorkerGoes,
        WorkerIdles, Unlock, CleanerGoes, rowVars, workerVars,
        publisherVars, cleanerVars
<1> USE DEF TypeOK, WorkerPC, PublisherPC, CleanerPC, Attempting
<1>1. ASSUME NEW p \in Requests, NEW j \in Jobs, CreateExport(p, j)
        PROVE Assigned'
    BY <1>1 DEF CreateExport
<1>2. ASSUME NEW p \in Requests, NEW j \in Jobs, RetryExport(p, j)
        PROVE Assigned'
    BY <1>2 DEF RetryExport
<1>3. ASSUME NEW p \in Recoveries, ScanStale(p) PROVE Assigned'
    BY <1>3 DEF ScanStale
<1>4. ASSUME NEW p \in Publishers, StampQueued(p) PROVE Assigned'
    BY <1>4 DEF StampQueued
<1>5. ASSUME NEW p \in Publishers, Send(p) PROVE Assigned'
    BY <1>5 DEF Send
<1>6. ASSUME NEW p \in Publishers, RefuseExport(p) PROVE Assigned'
    BY <1>6 DEF RefuseExport
<1>7. ASSUME NEW p \in Publishers, EndRecovery(p) PROVE Assigned'
    BY <1>7 DEF EndRecovery
<1>8. ASSUME NEW p \in Publishers, NEW j \in Jobs, RecoverJob(p, j)
        PROVE Assigned'
    BY <1>8 DEF RecoverJob
<1>9. ASSUME NEW p \in Publishers, NEW j \in Jobs, SkipRecovered(p, j)
        PROVE Assigned'
    BY <1>9 DEF SkipRecovered
<1>10. ASSUME NEW p \in Publishers, SendFails(p) PROVE Assigned'
    BY <1>10 DEF SendFails
<1>11. ASSUME NEW p \in Publishers, PublisherCrash(p) PROVE Assigned'
    BY <1>11 DEF PublisherCrash
<1>12. ASSUME NEW w \in Workers, NEW j \in Jobs, TakeJob(w, j)
         PROVE Assigned'
    BY <1>12 DEF TakeJob
<1>13. ASSUME NEW w \in Workers, NEW j \in Jobs, DropDuplicate(w, j)
         PROVE Assigned'
    BY <1>13 DEF DropDuplicate
<1>14. ASSUME NEW w \in Workers, BeginAttempt(w) PROVE Assigned'
    BY <1>14 DEF BeginAttempt
<1>15. ASSUME NEW w \in Workers, SkipAttempt(w) \/ TaskRaises(w)
      PROVE Assigned'
    BY <1>15 DEF SkipAttempt, TaskRaises
<1>16. ASSUME NEW w \in Workers, DeleteOldObject(w) PROVE Assigned'
    BY <1>16 DEF DeleteOldObject
<1>17. ASSUME NEW w \in Workers, Upload(w) PROVE Assigned'
    BY <1>17 DEF Upload
<1>18. ASSUME NEW w \in Workers,
        MarkReady(w) \/ MarkReadyInterrupted(w)
      PROVE Assigned'
    BY <1>18 DEF MarkReady, MarkReadyInterrupted, PublishRow
<1>19. ASSUME NEW w \in Workers, MarkReadyRefused(w) PROVE Assigned'
    BY <1>19 DEF MarkReadyRefused
<1>20. ASSUME NEW w \in Workers, DeleteUpload(w) PROVE Assigned'
    BY <1>20 DEF DeleteUpload
<1>21. ASSUME NEW w \in Workers, RecordFailure(w) PROVE Assigned'
    BY <1>21 DEF RecordFailure
<1>22. ASSUME NEW w \in Workers, EndTask(w) PROVE Assigned'
    BY <1>22 DEF EndTask
<1>23. ASSUME NEW w \in Workers, Heartbeat(w) PROVE Assigned'
    BY <1>23 DEF Heartbeat
<1>24. ASSUME NEW w \in Workers, AttemptFails(w) PROVE Assigned'
    BY <1>24 DEF AttemptFails
<1>25. ASSUME NEW w \in Workers, MarkReadyReplyLost(w) PROVE Assigned'
    BY <1>25 DEF MarkReadyReplyLost, PublishRow
<1>26. ASSUME NEW w \in Workers, WorkerLost(w) PROVE Assigned'
    BY <1>26 DEF WorkerLost
<1>27. ASSUME NEW w \in Workers, HardTimeLimit(w) PROVE Assigned'
    BY <1>27 DEF HardTimeLimit
<1>28. ASSUME NEW w \in Workers, LoseConnection(w) PROVE Assigned'
    BY <1>28 DEF LoseConnection
<1>29. ASSUME NEW c \in Cleaners, ScanExpired(c) PROVE Assigned'
    BY <1>29 DEF ScanExpired
<1>30. ASSUME NEW c \in Cleaners, SaveExpired(c) PROVE Assigned'
    BY <1>30 DEF SaveExpired
<1>31. ASSUME NEW c \in Cleaners, EndCleanup(c) PROVE Assigned'
    BY <1>31 DEF EndCleanup
<1>32. ASSUME NEW c \in Cleaners, NEW j \in Jobs, DeleteExpired(c, j)
         PROVE Assigned'
    BY <1>32 DEF DeleteExpired
<1>33. ASSUME NEW c \in Cleaners, CleanerCrash(c) PROVE Assigned'
    BY <1>33 DEF CleanerCrash
<1>34. ASSUME NEW c \in Cleaners, NEW j \in Jobs, DeleteExpiredFails(c, j)
         PROVE Assigned'
    BY <1>34 DEF DeleteExpiredFails
<1>35. ASSUME NEW j \in Jobs, DeleteRow(j) PROVE Assigned'
    BY <1>35 DEF DeleteRow
<1>36. ASSUME NEW j \in Jobs, LoseMessage(j) PROVE Assigned'
    BY <1>36 DEF LoseMessage
<1>37. CASE Tick
    BY <1>37 DEF Tick
<1>38. CASE UNCHANGED vars
    BY <1>38 DEF vars
<1> QED
  BY <1>1, <1>2, <1>3, <1>4, <1>5, <1>6, <1>7, <1>8, <1>9, <1>10,
     <1>11, <1>12, <1>13, <1>14, <1>15, <1>16, <1>17, <1>18, <1>19,
     <1>20, <1>21, <1>22, <1>23, <1>24, <1>25, <1>26, <1>27, <1>28,
     <1>29, <1>30, <1>31, <1>32, <1>33, <1>34, <1>35, <1>36, <1>37,
     <1>38 DEF Next, PublisherStep, AttemptStep, CleanerStep

(* Every variable keeps its type. *)
LEMMA TypeStep == TypeOK /\ Assigned /\ [Next]_vars => TypeOK'
<1> SUFFICES ASSUME TypeOK, Assigned, [Next]_vars PROVE TypeOK'
  OBVIOUS
<1> USE ConstantsAssumption
    DEF Assigned, Publishers, Fault, SetStatus, SetActivity, ResetForRetry,
        UpdateWhere, PublisherGoes, PublisherReturns, WorkerGoes,
        WorkerIdles, Unlock, CleanerGoes, rowVars, workerVars,
        publisherVars, cleanerVars
<1> USE DEF TypeOK, Status, WorkerPC, PublisherPC, CleanerPC, Attempting, AgeCap
<1>1. ASSUME NEW p \in Requests, NEW j \in Jobs, CreateExport(p, j)
        PROVE TypeOK'
    BY <1>1 DEF CreateExport
<1>2. ASSUME NEW p \in Requests, NEW j \in Jobs, RetryExport(p, j)
        PROVE TypeOK'
    BY <1>2 DEF RetryExport
<1>3. ASSUME NEW p \in Recoveries, ScanStale(p) PROVE TypeOK'
    BY <1>3 DEF ScanStale
<1>4. ASSUME NEW p \in Publishers, StampQueued(p) PROVE TypeOK'
    BY <1>4 DEF StampQueued
<1>5. ASSUME NEW p \in Publishers, Send(p) PROVE TypeOK'
    BY <1>5 DEF Send
<1>6. ASSUME NEW p \in Publishers, RefuseExport(p) PROVE TypeOK'
    BY <1>6 DEF RefuseExport
<1>7. ASSUME NEW p \in Publishers, EndRecovery(p) PROVE TypeOK'
    BY <1>7 DEF EndRecovery
<1>8. ASSUME NEW p \in Publishers, NEW j \in Jobs, RecoverJob(p, j)
        PROVE TypeOK'
    BY <1>8 DEF RecoverJob
<1>9. ASSUME NEW p \in Publishers, NEW j \in Jobs, SkipRecovered(p, j)
        PROVE TypeOK'
    BY <1>9 DEF SkipRecovered
<1>10. ASSUME NEW p \in Publishers, SendFails(p) PROVE TypeOK'
    BY <1>10 DEF SendFails
<1>11. ASSUME NEW p \in Publishers, PublisherCrash(p) PROVE TypeOK'
    BY <1>11 DEF PublisherCrash
<1>12. ASSUME NEW w \in Workers, NEW j \in Jobs, TakeJob(w, j) PROVE TypeOK'
    BY <1>12 DEF TakeJob
<1>13. ASSUME NEW w \in Workers, NEW j \in Jobs, DropDuplicate(w, j)
         PROVE TypeOK'
    BY <1>13 DEF DropDuplicate
<1>14. ASSUME NEW w \in Workers, BeginAttempt(w) PROVE TypeOK'
    BY <1>14 DEF BeginAttempt
<1>15. ASSUME NEW w \in Workers, SkipAttempt(w) \/ TaskRaises(w)
      PROVE TypeOK'
    BY <1>15 DEF SkipAttempt, TaskRaises
<1>16. ASSUME NEW w \in Workers, DeleteOldObject(w) PROVE TypeOK'
    BY <1>16 DEF DeleteOldObject
<1>17. ASSUME NEW w \in Workers, Upload(w) PROVE TypeOK'
    BY <1>17 DEF Upload
<1>18. ASSUME NEW w \in Workers,
        MarkReady(w) \/ MarkReadyInterrupted(w)
      PROVE TypeOK'
  <2>1. CASE MarkReady(w)
    BY <2>1 DEF MarkReady, PublishRow
  <2>2. CASE MarkReadyInterrupted(w)
    BY <2>2 DEF MarkReadyInterrupted, PublishRow
  <2> QED
    BY <1>18, <2>1, <2>2
<1>19. ASSUME NEW w \in Workers, MarkReadyRefused(w) PROVE TypeOK'
    BY <1>19 DEF MarkReadyRefused
<1>20. ASSUME NEW w \in Workers, DeleteUpload(w) PROVE TypeOK'
    BY <1>20 DEF DeleteUpload
<1>21. ASSUME NEW w \in Workers, RecordFailure(w) PROVE TypeOK'
  <2>1. CASE wconn[w]
    BY <1>21, <2>1 DEF RecordFailure
  <2>2. CASE ~wconn[w]
    BY <1>21, <2>2 DEF RecordFailure
  <2> QED
    BY <2>1, <2>2
<1>22. ASSUME NEW w \in Workers, EndTask(w) PROVE TypeOK'
    BY <1>22 DEF EndTask
<1>23. ASSUME NEW w \in Workers, Heartbeat(w) PROVE TypeOK'
    BY <1>23 DEF Heartbeat
<1>24. ASSUME NEW w \in Workers, AttemptFails(w) PROVE TypeOK'
    BY <1>24 DEF AttemptFails
<1>25. ASSUME NEW w \in Workers, MarkReadyReplyLost(w) PROVE TypeOK'
    BY <1>25 DEF MarkReadyReplyLost, PublishRow
<1>26. ASSUME NEW w \in Workers, WorkerLost(w) PROVE TypeOK'
    BY <1>26 DEF WorkerLost
<1>27. ASSUME NEW w \in Workers, HardTimeLimit(w) PROVE TypeOK'
    BY <1>27 DEF HardTimeLimit
<1>28. ASSUME NEW w \in Workers, LoseConnection(w) PROVE TypeOK'
    BY <1>28 DEF LoseConnection
<1>29. ASSUME NEW c \in Cleaners, ScanExpired(c) PROVE TypeOK'
    BY <1>29 DEF ScanExpired
<1>30. ASSUME NEW c \in Cleaners, SaveExpired(c) PROVE TypeOK'
    BY <1>30 DEF SaveExpired
<1>31. ASSUME NEW c \in Cleaners, EndCleanup(c) PROVE TypeOK'
    BY <1>31 DEF EndCleanup
<1>32. ASSUME NEW c \in Cleaners, NEW j \in Jobs, DeleteExpired(c, j)
         PROVE TypeOK'
    BY <1>32 DEF DeleteExpired
<1>33. ASSUME NEW c \in Cleaners, CleanerCrash(c) PROVE TypeOK'
    BY <1>33 DEF CleanerCrash
<1>34. ASSUME NEW c \in Cleaners, NEW j \in Jobs, DeleteExpiredFails(c, j)
         PROVE TypeOK'
    BY <1>34 DEF DeleteExpiredFails
<1>35. ASSUME NEW j \in Jobs, DeleteRow(j) PROVE TypeOK'
    BY <1>35 DEF DeleteRow
<1>36. ASSUME NEW j \in Jobs, LoseMessage(j) PROVE TypeOK'
    BY <1>36 DEF LoseMessage
<1>37. CASE Tick
    BY <1>37 DEF Tick
<1>38. CASE UNCHANGED vars
    BY <1>38 DEF vars
<1> QED
  BY <1>1, <1>2, <1>3, <1>4, <1>5, <1>6, <1>7, <1>8, <1>9, <1>10,
     <1>11, <1>12, <1>13, <1>14, <1>15, <1>16, <1>17, <1>18, <1>19,
     <1>20, <1>21, <1>22, <1>23, <1>24, <1>25, <1>26, <1>27, <1>28,
     <1>29, <1>30, <1>31, <1>32, <1>33, <1>34, <1>35, <1>36, <1>37,
     <1>38 DEF Next, PublisherStep, AttemptStep, CleanerStep


(* A job whose retention is over is never reset, begun or marked READY again; *)
(* this needs no lock.                                                        *)
LEMMA CleanerOverStep ==
  ASSUME TypeOK, Assigned, CleanerOver, [Next]_vars
  PROVE  CleanerOver'
<1> USE ConstantsAssumption, StaleAfterAssumption
    DEF TypeOK, Assigned, rowVars, workerVars, publisherVars,
        cleanerVars, SetStatus, SetActivity, ResetForRetry, UpdateWhere,
        Fault, PublisherGoes, PublisherReturns, WorkerGoes, WorkerIdles,
        Unlock, CleanerGoes, Publishers, WorkerPC, Attempting, LockFree,
        PublisherPC, CleanerPC, Status, Stale, Active
<1>1. UNCHANGED <<cpc, cjob, ctodo, status, expires>> => CleanerOver'
  BY DEF CleanerOver, Over, Expired
<1>2. ASSUME NEW p \in Recoveries, ScanStale(p) PROVE CleanerOver'
  BY <1>1, <1>2 DEF ScanStale
<1>3. ASSUME NEW p \in Publishers,
        \/ StampQueued(p) \/ Send(p) \/ EndRecovery(p)
        \/ SendFails(p) \/ PublisherCrash(p)
      PROVE  CleanerOver'
  BY <1>1, <1>3 DEF StampQueued, Send, EndRecovery, SendFails,
     PublisherCrash
<1>4. ASSUME NEW p \in Publishers, NEW j \in Jobs, SkipRecovered(p, j)
      PROVE CleanerOver'
  BY <1>1, <1>4 DEF SkipRecovered
<1>5. ASSUME NEW w \in Workers, NEW j \in Jobs,
        \/ TakeJob(w, j) \/ DropDuplicate(w, j)
      PROVE  CleanerOver'
  BY <1>1, <1>5 DEF TakeJob, DropDuplicate
<1>6. ASSUME NEW w \in Workers,
        \/ SkipAttempt(w) \/ TaskRaises(w) \/ DeleteOldObject(w) \/ Upload(w)
        \/ MarkReadyRefused(w) \/ DeleteUpload(w) \/ EndTask(w)
        \/ Heartbeat(w) \/ AttemptFails(w) \/ WorkerLost(w)
        \/ HardTimeLimit(w) \/ LoseConnection(w)
      PROVE  CleanerOver'
  BY <1>1, <1>6 DEF SkipAttempt, TaskRaises, DeleteOldObject, Upload,
     MarkReadyRefused, DeleteUpload, EndTask, Heartbeat, AttemptFails,
     WorkerLost, HardTimeLimit, LoseConnection
<1>7. ASSUME NEW j \in Jobs, LoseMessage(j) PROVE CleanerOver'
  BY <1>1, <1>7 DEF LoseMessage
<1>8. ASSUME NEW p \in Requests, NEW j \in Jobs, CreateExport(p, j)
      PROVE CleanerOver'
  BY <1>8 DEF CreateExport, CleanerOver, Over, Expired
<1>9. ASSUME NEW p \in Requests, NEW j \in Jobs, RetryExport(p, j)
      PROVE CleanerOver'
  BY <1>9 DEF RetryExport, CleanerOver, Over, Expired
<1>10. ASSUME NEW p \in Publishers, RefuseExport(p) PROVE CleanerOver'
  BY <1>10 DEF RefuseExport, CleanerOver, Over, Expired
<1>11. ASSUME NEW p \in Publishers, NEW j \in Jobs, RecoverJob(p, j)
       PROVE CleanerOver'
  BY <1>11 DEF RecoverJob, CleanerOver, Over, Expired
<1>12. ASSUME NEW w \in Workers, BeginAttempt(w) PROVE CleanerOver'
  BY <1>12 DEF BeginAttempt, CleanerOver, Over, Expired
<1>13. ASSUME NEW w \in Workers,
        MarkReady(w) \/ MarkReadyInterrupted(w)
      PROVE CleanerOver'
  BY <1>13 DEF MarkReady, MarkReadyInterrupted, PublishRow, CleanerOver, Over, Expired
<1>14. ASSUME NEW w \in Workers, RecordFailure(w) PROVE CleanerOver'
  BY <1>14 DEF RecordFailure, CleanerOver, Over, Expired
<1>15. ASSUME NEW w \in Workers, MarkReadyReplyLost(w) PROVE CleanerOver'
  BY <1>15 DEF MarkReadyReplyLost, PublishRow, CleanerOver, Over, Expired
<1>16. ASSUME NEW c \in Cleaners, ScanExpired(c) PROVE CleanerOver'
  BY <1>16 DEF ScanExpired, CleanerOver, Over, Expired
<1>17. ASSUME NEW c \in Cleaners, SaveExpired(c) PROVE CleanerOver'
  <2>1. \A i \in Jobs : Over(i) => Over(i)'
    BY <1>17 DEF SaveExpired, Over, Expired
  <2>2. \A d \in Cleaners : ctodo'[d] \subseteq ctodo[d]
    BY <1>17 DEF SaveExpired
  <2>3. \A d \in Cleaners : cpc'[d] = "save" => cpc[d] = "save"
    BY <1>17 DEF SaveExpired
  <2> QED
    BY <1>17, <2>1, <2>2, <2>3 DEF SaveExpired, CleanerOver
<1>18. ASSUME NEW c \in Cleaners, EndCleanup(c) PROVE CleanerOver'
  BY <1>18 DEF EndCleanup, CleanerOver, Over, Expired
<1>19. ASSUME NEW c \in Cleaners, NEW j \in Jobs, DeleteExpired(c, j)
       PROVE CleanerOver'
  BY <1>19 DEF DeleteExpired, CleanerOver, Over, Expired
<1>20. ASSUME NEW c \in Cleaners, CleanerCrash(c) PROVE CleanerOver'
  BY <1>20 DEF CleanerCrash, CleanerOver, Over, Expired
<1>21. ASSUME NEW c \in Cleaners, NEW j \in Jobs, DeleteExpiredFails(c, j)
       PROVE CleanerOver'
  BY <1>21 DEF DeleteExpiredFails, CleanerOver, Over, Expired
<1>22. ASSUME NEW j \in Jobs, DeleteRow(j) PROVE CleanerOver'
  BY <1>22 DEF DeleteRow, CleanerOver, Over, Expired
<1>23. CASE Tick
  BY <1>23 DEF Tick, CleanerOver, Over, Expired
<1>24. CASE UNCHANGED vars
  BY <1>1, <1>24 DEF vars
<1> QED
  BY <1>2, <1>3, <1>4, <1>5, <1>6, <1>7, <1>8, <1>9, <1>10, <1>11,
     <1>12, <1>13, <1>14, <1>15, <1>16, <1>17, <1>18, <1>19, <1>20,
     <1>21, <1>22, <1>23, <1>24
  DEF Next, PublisherStep, AttemptStep, CleanerStep, Publishers



(* A lock changes hands only through its owner or the end of its session. *)
LEMMA LockHeldStep ==
  ASSUME TypeOK, Assigned, LockHeld, ~ConnectionLoss, [Next]_vars
  PROVE  LockHeld'
<1> USE ConstantsAssumption, StaleAfterAssumption
    DEF TypeOK, Assigned, rowVars, workerVars, publisherVars,
        cleanerVars, SetStatus, SetActivity, ResetForRetry, UpdateWhere,
        Fault, PublisherGoes, PublisherReturns, WorkerGoes, WorkerIdles,
        Unlock, CleanerGoes, Publishers, WorkerPC, Attempting, LockFree,
        PublisherPC, CleanerPC, Status
<1>1. UNCHANGED <<wpc, wjob, lock>> => LockHeld'
  BY DEF LockHeld
<1>2. ASSUME NEW p \in Requests, NEW j \in Jobs,
        \/ CreateExport(p, j) \/ RetryExport(p, j)
      PROVE  LockHeld'
  BY <1>1, <1>2 DEF CreateExport, RetryExport
<1>3. ASSUME NEW p \in Recoveries, ScanStale(p) PROVE LockHeld'
  BY <1>1, <1>3 DEF ScanStale
<1>4. ASSUME NEW p \in Publishers,
        \/ StampQueued(p) \/ Send(p) \/ RefuseExport(p)
        \/ EndRecovery(p) \/ SendFails(p) \/ PublisherCrash(p)
      PROVE  LockHeld'
  BY <1>1, <1>4 DEF StampQueued, Send, RefuseExport, EndRecovery,
     SendFails, PublisherCrash
<1>5. ASSUME NEW p \in Publishers, NEW j \in Jobs,
        \/ RecoverJob(p, j) \/ SkipRecovered(p, j)
      PROVE  LockHeld'
  BY <1>1, <1>5 DEF RecoverJob, SkipRecovered
<1>6. ASSUME NEW w \in Workers, NEW j \in Jobs, DropDuplicate(w, j)
      PROVE LockHeld'
  BY <1>1, <1>6 DEF DropDuplicate
<1>7. ASSUME NEW w \in Workers, Heartbeat(w) PROVE LockHeld'
  BY <1>1, <1>7 DEF Heartbeat
<1>8. ASSUME NEW c \in Cleaners,
        \/ ScanExpired(c) \/ SaveExpired(c) \/ EndCleanup(c)
        \/ CleanerCrash(c)
      PROVE  LockHeld'
  BY <1>1, <1>8 DEF ScanExpired, SaveExpired, EndCleanup, CleanerCrash
<1>9. ASSUME NEW c \in Cleaners, NEW j \in Jobs,
        \/ DeleteExpired(c, j) \/ DeleteExpiredFails(c, j)
      PROVE  LockHeld'
  BY <1>1, <1>9 DEF DeleteExpired, DeleteExpiredFails
<1>10. ASSUME NEW j \in Jobs,
        \/ DeleteRow(j) \/ LoseMessage(j)
      PROVE  LockHeld'
  BY <1>1, <1>10 DEF DeleteRow, LoseMessage
<1>11. CASE Tick
  BY <1>1, <1>11 DEF Tick
<1>12. ASSUME NEW w \in Workers, NEW j \in Jobs, TakeJob(w, j) PROVE LockHeld'
  BY <1>12 DEF TakeJob, LockHeld
<1>13. ASSUME NEW w \in Workers, BeginAttempt(w) PROVE LockHeld'
  BY <1>13 DEF BeginAttempt, LockHeld
<1>14. ASSUME NEW w \in Workers, SkipAttempt(w) \/ TaskRaises(w)
      PROVE LockHeld'
  BY <1>14 DEF SkipAttempt, TaskRaises, LockHeld
<1>15. ASSUME NEW w \in Workers, DeleteOldObject(w) PROVE LockHeld'
  BY <1>15 DEF DeleteOldObject, LockHeld
<1>16. ASSUME NEW w \in Workers, Upload(w) PROVE LockHeld'
  BY <1>16 DEF Upload, LockHeld
<1>17. ASSUME NEW w \in Workers,
        MarkReady(w) \/ MarkReadyInterrupted(w)
      PROVE LockHeld'
  BY <1>17 DEF MarkReady, MarkReadyInterrupted, PublishRow, LockHeld
<1>18. ASSUME NEW w \in Workers, MarkReadyRefused(w) PROVE LockHeld'
  BY <1>18 DEF MarkReadyRefused, LockHeld
<1>19. ASSUME NEW w \in Workers, DeleteUpload(w) PROVE LockHeld'
  BY <1>19 DEF DeleteUpload, LockHeld
<1>20. ASSUME NEW w \in Workers, RecordFailure(w) PROVE LockHeld'
  BY <1>20 DEF RecordFailure, LockHeld
<1>21. ASSUME NEW w \in Workers, EndTask(w) PROVE LockHeld'
  BY <1>21 DEF EndTask, LockHeld
<1>22. ASSUME NEW w \in Workers, AttemptFails(w) PROVE LockHeld'
  BY <1>22 DEF AttemptFails, LockHeld
<1>23. ASSUME NEW w \in Workers, MarkReadyReplyLost(w) PROVE LockHeld'
  BY <1>23 DEF MarkReadyReplyLost, PublishRow, LockHeld
<1>24. ASSUME NEW w \in Workers, WorkerLost(w) PROVE LockHeld'
  BY <1>24 DEF WorkerLost, LockHeld
<1>25. ASSUME NEW w \in Workers, HardTimeLimit(w) PROVE LockHeld'
  BY <1>25 DEF HardTimeLimit, LockHeld
<1>26. ASSUME NEW w \in Workers, LoseConnection(w) PROVE LockHeld'
  BY <1>26 DEF LoseConnection, LockHeld
<1>27. CASE UNCHANGED vars
  BY <1>1, <1>27 DEF vars
<1> QED
  BY <1>2, <1>3, <1>4, <1>5, <1>6, <1>7, <1>8, <1>9, <1>10, <1>11,
     <1>12, <1>13, <1>14, <1>15, <1>16, <1>17, <1>18, <1>19, <1>20,
     <1>21, <1>22, <1>23, <1>24, <1>25, <1>26, <1>27
  DEF Next, PublisherStep, AttemptStep, CleanerStep, Publishers



(* A reset needs a row older than StaleAfter; an attempt is never older than *)
(* TaskTimeLimit, so no reset reaches its row.                               *)
LEMMA AttemptFreshStep ==
  ASSUME TypeOK, Assigned, CleanerOver, LockHeld, AttemptFresh, ~ConnectionLoss, [Next]_vars
  PROVE  AttemptFresh'
<1> USE ConstantsAssumption, StaleAfterAssumption
    DEF TypeOK, Assigned, rowVars, workerVars, publisherVars,
        cleanerVars, SetStatus, SetActivity, ResetForRetry, UpdateWhere,
        Fault, PublisherGoes, PublisherReturns, WorkerGoes, WorkerIdles,
        Unlock, CleanerGoes, Publishers, WorkerPC, Attempting, LockFree,
        PublisherPC, CleanerPC, Status, LockHeld, CleanerOver, Over,
        Expired, Stale, Active
<1>1. UNCHANGED <<wpc, wjob, wage, status, activity, interrupted>>
      => AttemptFresh'
  BY DEF AttemptFresh
<1>2. ASSUME NEW p \in Recoveries, ScanStale(p) PROVE AttemptFresh'
  BY <1>1, <1>2 DEF ScanStale
<1>3. ASSUME NEW p \in Publishers,
        \/ Send(p) \/ EndRecovery(p) \/ SendFails(p)
        \/ PublisherCrash(p)
      PROVE  AttemptFresh'
  BY <1>1, <1>3 DEF Send, EndRecovery, SendFails, PublisherCrash
<1>4. ASSUME NEW p \in Publishers, NEW j \in Jobs, SkipRecovered(p, j)
      PROVE AttemptFresh'
  BY <1>1, <1>4 DEF SkipRecovered
<1>5. ASSUME NEW w \in Workers, NEW j \in Jobs, DropDuplicate(w, j)
      PROVE AttemptFresh'
  BY <1>1, <1>5 DEF DropDuplicate
<1>6. ASSUME NEW w \in Workers, LoseConnection(w) PROVE AttemptFresh'
  BY <1>1, <1>6 DEF LoseConnection
<1>7. ASSUME NEW c \in Cleaners,
        \/ ScanExpired(c) \/ EndCleanup(c) \/ CleanerCrash(c)
      PROVE  AttemptFresh'
  BY <1>1, <1>7 DEF ScanExpired, EndCleanup, CleanerCrash
<1>8. ASSUME NEW c \in Cleaners, NEW j \in Jobs,
        \/ DeleteExpired(c, j) \/ DeleteExpiredFails(c, j)
      PROVE  AttemptFresh'
  BY <1>1, <1>8 DEF DeleteExpired, DeleteExpiredFails
<1>9. ASSUME NEW j \in Jobs, LoseMessage(j) PROVE AttemptFresh'
  BY <1>1, <1>9 DEF LoseMessage
<1>10. ASSUME NEW p \in Requests, NEW j \in Jobs, CreateExport(p, j)
       PROVE AttemptFresh'
  BY <1>10 DEF CreateExport, AttemptFresh
<1>11. ASSUME NEW p \in Requests, NEW j \in Jobs, RetryExport(p, j)
       PROVE AttemptFresh'
  BY <1>11 DEF RetryExport, AttemptFresh
<1>12. ASSUME NEW p \in Publishers, StampQueued(p) PROVE AttemptFresh'
  BY <1>12 DEF StampQueued, AttemptFresh
<1>13. ASSUME NEW p \in Publishers, RefuseExport(p) PROVE AttemptFresh'
  BY <1>13 DEF RefuseExport, AttemptFresh
<1>14. ASSUME NEW p \in Publishers, NEW j \in Jobs, RecoverJob(p, j)
       PROVE AttemptFresh'
  BY <1>14 DEF RecoverJob, AttemptFresh
<1>15. ASSUME NEW w \in Workers, NEW j \in Jobs, TakeJob(w, j)
       PROVE AttemptFresh'
  BY <1>15 DEF TakeJob, AttemptFresh
<1>16. ASSUME NEW w \in Workers, BeginAttempt(w) PROVE AttemptFresh'
  BY <1>16 DEF BeginAttempt, AttemptFresh
<1>17. ASSUME NEW w \in Workers, SkipAttempt(w) \/ TaskRaises(w)
      PROVE AttemptFresh'
  BY <1>17 DEF SkipAttempt, TaskRaises, AttemptFresh
<1>18. ASSUME NEW w \in Workers, DeleteOldObject(w) PROVE AttemptFresh'
  BY <1>18 DEF DeleteOldObject, AttemptFresh
<1>19. ASSUME NEW w \in Workers, Upload(w) PROVE AttemptFresh'
  BY <1>19 DEF Upload, AttemptFresh
<1>20. ASSUME NEW w \in Workers,
        MarkReady(w) \/ MarkReadyInterrupted(w)
      PROVE AttemptFresh'
  BY <1>20 DEF MarkReady, MarkReadyInterrupted, PublishRow, AttemptFresh
<1>21. ASSUME NEW w \in Workers, MarkReadyRefused(w) PROVE AttemptFresh'
  BY <1>21 DEF MarkReadyRefused, AttemptFresh
<1>22. ASSUME NEW w \in Workers, DeleteUpload(w) PROVE AttemptFresh'
  BY <1>22 DEF DeleteUpload, AttemptFresh
<1>23. ASSUME NEW w \in Workers, RecordFailure(w) PROVE AttemptFresh'
  BY <1>23 DEF RecordFailure, AttemptFresh
<1>24. ASSUME NEW w \in Workers, EndTask(w) PROVE AttemptFresh'
  BY <1>24 DEF EndTask, AttemptFresh
<1>25. ASSUME NEW w \in Workers, Heartbeat(w) PROVE AttemptFresh'
  BY <1>25 DEF Heartbeat, AttemptFresh
<1>26. ASSUME NEW w \in Workers, AttemptFails(w) PROVE AttemptFresh'
  BY <1>26 DEF AttemptFails, AttemptFresh
<1>27. ASSUME NEW w \in Workers, MarkReadyReplyLost(w) PROVE AttemptFresh'
  BY <1>27 DEF MarkReadyReplyLost, PublishRow, AttemptFresh
<1>28. ASSUME NEW w \in Workers, WorkerLost(w) PROVE AttemptFresh'
  BY <1>28 DEF WorkerLost, AttemptFresh
<1>29. ASSUME NEW w \in Workers, HardTimeLimit(w) PROVE AttemptFresh'
  BY <1>29 DEF HardTimeLimit, AttemptFresh
<1>30. ASSUME NEW c \in Cleaners, SaveExpired(c) PROVE AttemptFresh'
  BY <1>30 DEF SaveExpired, AttemptFresh
<1>31. ASSUME NEW j \in Jobs, DeleteRow(j) PROVE AttemptFresh'
  BY <1>31 DEF DeleteRow, AttemptFresh
<1>32. CASE Tick
  BY <1>32 DEF Tick, AttemptFresh
<1>33. CASE UNCHANGED vars
  BY <1>1, <1>33 DEF vars
<1> QED
  BY <1>2, <1>3, <1>4, <1>5, <1>6, <1>7, <1>8, <1>9, <1>10, <1>11,
     <1>12, <1>13, <1>14, <1>15, <1>16, <1>17, <1>18, <1>19, <1>20,
     <1>21, <1>22, <1>23, <1>24, <1>25, <1>26, <1>27, <1>28, <1>29,
     <1>30, <1>31, <1>32, <1>33
  DEF Next, PublisherStep, AttemptStep, CleanerStep, Publishers



(* Nobody else touches the object of an attempt: other workers lack the lock, *)
(* cleanup runs only hold jobs that are over.                                 *)
LEMMA UploadPresentStep ==
  ASSUME TypeOK, Assigned, CleanerOver, LockHeld, AttemptFresh, UploadPresent, ~ConnectionLoss, [Next]_vars
  PROVE  UploadPresent'
<1> USE ConstantsAssumption, StaleAfterAssumption
    DEF TypeOK, Assigned, rowVars, workerVars, publisherVars,
        cleanerVars, SetStatus, SetActivity, ResetForRetry, UpdateWhere,
        Fault, PublisherGoes, PublisherReturns, WorkerGoes, WorkerIdles,
        Unlock, CleanerGoes, Publishers, WorkerPC, Attempting, LockFree,
        PublisherPC, CleanerPC, Status, LockHeld, AttemptFresh,
        CleanerOver, Over, Expired, Stale, Active
<1>1. UNCHANGED <<wpc, wjob, status, stored>> => UploadPresent'
  BY DEF UploadPresent
<1>2. ASSUME NEW p \in Recoveries, ScanStale(p) PROVE UploadPresent'
  BY <1>1, <1>2 DEF ScanStale
<1>3. ASSUME NEW p \in Publishers,
        \/ StampQueued(p) \/ Send(p) \/ EndRecovery(p)
        \/ SendFails(p) \/ PublisherCrash(p)
      PROVE  UploadPresent'
  BY <1>1, <1>3 DEF StampQueued, Send, EndRecovery, SendFails,
     PublisherCrash
<1>4. ASSUME NEW p \in Publishers, NEW j \in Jobs, SkipRecovered(p, j)
      PROVE UploadPresent'
  BY <1>1, <1>4 DEF SkipRecovered
<1>5. ASSUME NEW w \in Workers, NEW j \in Jobs, DropDuplicate(w, j)
      PROVE UploadPresent'
  BY <1>1, <1>5 DEF DropDuplicate
<1>6. ASSUME NEW w \in Workers,
        \/ Heartbeat(w) \/ LoseConnection(w)
      PROVE  UploadPresent'
  BY <1>1, <1>6 DEF Heartbeat, LoseConnection
<1>7. ASSUME NEW c \in Cleaners,
        \/ ScanExpired(c) \/ EndCleanup(c) \/ CleanerCrash(c)
      PROVE  UploadPresent'
  BY <1>1, <1>7 DEF ScanExpired, EndCleanup, CleanerCrash
<1>8. ASSUME NEW j \in Jobs, LoseMessage(j) PROVE UploadPresent'
  BY <1>1, <1>8 DEF LoseMessage
<1>9. CASE Tick
  BY <1>1, <1>9 DEF Tick
<1>10. ASSUME NEW p \in Requests, NEW j \in Jobs, CreateExport(p, j)
       PROVE UploadPresent'
  BY <1>10 DEF CreateExport, UploadPresent
<1>11. ASSUME NEW p \in Requests, NEW j \in Jobs, RetryExport(p, j)
       PROVE UploadPresent'
  BY <1>11 DEF RetryExport, UploadPresent
<1>12. ASSUME NEW p \in Publishers, RefuseExport(p) PROVE UploadPresent'
  BY <1>12 DEF RefuseExport, UploadPresent
<1>13. ASSUME NEW p \in Publishers, NEW j \in Jobs, RecoverJob(p, j)
       PROVE UploadPresent'
  BY <1>13 DEF RecoverJob, UploadPresent
<1>14. ASSUME NEW w \in Workers, NEW j \in Jobs, TakeJob(w, j)
       PROVE UploadPresent'
  BY <1>14 DEF TakeJob, UploadPresent
<1>15. ASSUME NEW w \in Workers, BeginAttempt(w) PROVE UploadPresent'
  BY <1>15 DEF BeginAttempt, UploadPresent
<1>16. ASSUME NEW w \in Workers, SkipAttempt(w) \/ TaskRaises(w)
      PROVE UploadPresent'
  BY <1>16 DEF SkipAttempt, TaskRaises, UploadPresent
<1>17. ASSUME NEW w \in Workers, DeleteOldObject(w) PROVE UploadPresent'
  BY <1>17 DEF DeleteOldObject, UploadPresent
<1>18. ASSUME NEW w \in Workers, Upload(w) PROVE UploadPresent'
  BY <1>18 DEF Upload, UploadPresent
<1>19. ASSUME NEW w \in Workers,
        MarkReady(w) \/ MarkReadyInterrupted(w)
      PROVE UploadPresent'
  BY <1>19 DEF MarkReady, MarkReadyInterrupted, PublishRow, UploadPresent
<1>20. ASSUME NEW w \in Workers, MarkReadyRefused(w) PROVE UploadPresent'
  BY <1>20 DEF MarkReadyRefused, UploadPresent
<1>21. ASSUME NEW w \in Workers, DeleteUpload(w) PROVE UploadPresent'
  BY <1>21 DEF DeleteUpload, UploadPresent
<1>22. ASSUME NEW w \in Workers, RecordFailure(w) PROVE UploadPresent'
  BY <1>22 DEF RecordFailure, UploadPresent
<1>23. ASSUME NEW w \in Workers, EndTask(w) PROVE UploadPresent'
  BY <1>23 DEF EndTask, UploadPresent
<1>24. ASSUME NEW w \in Workers, AttemptFails(w) PROVE UploadPresent'
  BY <1>24 DEF AttemptFails, UploadPresent
<1>25. ASSUME NEW w \in Workers, MarkReadyReplyLost(w) PROVE UploadPresent'
  BY <1>25 DEF MarkReadyReplyLost, PublishRow, UploadPresent
<1>26. ASSUME NEW w \in Workers, WorkerLost(w) PROVE UploadPresent'
  BY <1>26 DEF WorkerLost, UploadPresent
<1>27. ASSUME NEW w \in Workers, HardTimeLimit(w) PROVE UploadPresent'
  BY <1>27 DEF HardTimeLimit, UploadPresent
<1>28. ASSUME NEW c \in Cleaners, SaveExpired(c) PROVE UploadPresent'
  BY <1>28 DEF SaveExpired, UploadPresent
<1>29. ASSUME NEW c \in Cleaners, NEW j \in Jobs, DeleteExpired(c, j)
       PROVE UploadPresent'
  BY <1>29 DEF DeleteExpired, UploadPresent
<1>30. ASSUME NEW c \in Cleaners, NEW j \in Jobs, DeleteExpiredFails(c, j)
       PROVE UploadPresent'
  BY <1>30 DEF DeleteExpiredFails, UploadPresent
<1>31. ASSUME NEW j \in Jobs, DeleteRow(j) PROVE UploadPresent'
  BY <1>31 DEF DeleteRow, UploadPresent
<1>32. CASE UNCHANGED vars
  BY <1>1, <1>32 DEF vars
<1> QED
  BY <1>2, <1>3, <1>4, <1>5, <1>6, <1>7, <1>8, <1>9, <1>10, <1>11,
     <1>12, <1>13, <1>14, <1>15, <1>16, <1>17, <1>18, <1>19, <1>20,
     <1>21, <1>22, <1>23, <1>24, <1>25, <1>26, <1>27, <1>28, <1>29,
     <1>30, <1>31, <1>32
  DEF Next, PublisherStep, AttemptStep, CleanerStep, Publishers



(* The object of a job that is over is not uploaded again before it is saved. *)
LEMMA CleanerDeletedFirstStep ==
  ASSUME TypeOK, Assigned, CleanerOver, LockHeld, AttemptFresh, CleanerDeletedFirst, ~ConnectionLoss, [Next]_vars
  PROVE  CleanerDeletedFirst'
<1> USE ConstantsAssumption, StaleAfterAssumption
    DEF TypeOK, Assigned, rowVars, workerVars, publisherVars,
        cleanerVars, SetStatus, SetActivity, ResetForRetry, UpdateWhere,
        Fault, PublisherGoes, PublisherReturns, WorkerGoes, WorkerIdles,
        Unlock, CleanerGoes, Publishers, WorkerPC, Attempting, LockFree,
        PublisherPC, CleanerPC, Status, LockHeld, AttemptFresh,
        CleanerOver, Over, Expired, Stale, Active
<1>1. UNCHANGED <<cpc, cjob, status, stored>> => CleanerDeletedFirst'
  BY DEF CleanerDeletedFirst
<1>2. ASSUME NEW p \in Recoveries, ScanStale(p) PROVE CleanerDeletedFirst'
  BY <1>1, <1>2 DEF ScanStale
<1>3. ASSUME NEW p \in Publishers,
        \/ StampQueued(p) \/ Send(p) \/ EndRecovery(p)
        \/ SendFails(p) \/ PublisherCrash(p)
      PROVE  CleanerDeletedFirst'
  BY <1>1, <1>3 DEF StampQueued, Send, EndRecovery, SendFails,
     PublisherCrash
<1>4. ASSUME NEW p \in Publishers, NEW j \in Jobs, SkipRecovered(p, j)
      PROVE CleanerDeletedFirst'
  BY <1>1, <1>4 DEF SkipRecovered
<1>5. ASSUME NEW w \in Workers, NEW j \in Jobs,
        \/ TakeJob(w, j) \/ DropDuplicate(w, j)
      PROVE  CleanerDeletedFirst'
  BY <1>1, <1>5 DEF TakeJob, DropDuplicate
<1>6. ASSUME NEW w \in Workers,
        \/ SkipAttempt(w) \/ TaskRaises(w) \/ MarkReadyRefused(w) \/ EndTask(w)
        \/ Heartbeat(w) \/ WorkerLost(w) \/ HardTimeLimit(w)
        \/ LoseConnection(w)
      PROVE  CleanerDeletedFirst'
  BY <1>1, <1>6 DEF SkipAttempt, TaskRaises, MarkReadyRefused, EndTask, Heartbeat,
     WorkerLost, HardTimeLimit, LoseConnection
<1>7. ASSUME NEW j \in Jobs, LoseMessage(j) PROVE CleanerDeletedFirst'
  BY <1>1, <1>7 DEF LoseMessage
<1>8. CASE Tick
  BY <1>1, <1>8 DEF Tick
<1>9. ASSUME NEW p \in Requests, NEW j \in Jobs, CreateExport(p, j)
      PROVE CleanerDeletedFirst'
  BY <1>9 DEF CreateExport, CleanerDeletedFirst
<1>10. ASSUME NEW p \in Requests, NEW j \in Jobs, RetryExport(p, j)
       PROVE CleanerDeletedFirst'
  BY <1>10 DEF RetryExport, CleanerDeletedFirst
<1>11. ASSUME NEW p \in Publishers, RefuseExport(p) PROVE CleanerDeletedFirst'
  BY <1>11 DEF RefuseExport, CleanerDeletedFirst
<1>12. ASSUME NEW p \in Publishers, NEW j \in Jobs, RecoverJob(p, j)
       PROVE CleanerDeletedFirst'
  BY <1>12 DEF RecoverJob, CleanerDeletedFirst
<1>13. ASSUME NEW w \in Workers, BeginAttempt(w) PROVE CleanerDeletedFirst'
  BY <1>13 DEF BeginAttempt, CleanerDeletedFirst
<1>14. ASSUME NEW w \in Workers, DeleteOldObject(w) PROVE CleanerDeletedFirst'
  BY <1>14 DEF DeleteOldObject, CleanerDeletedFirst
<1>15. ASSUME NEW w \in Workers, Upload(w) PROVE CleanerDeletedFirst'
  BY <1>15 DEF Upload, CleanerDeletedFirst
<1>16. ASSUME NEW w \in Workers,
        MarkReady(w) \/ MarkReadyInterrupted(w)
      PROVE CleanerDeletedFirst'
  BY <1>16 DEF MarkReady, MarkReadyInterrupted, PublishRow, CleanerDeletedFirst
<1>17. ASSUME NEW w \in Workers, DeleteUpload(w) PROVE CleanerDeletedFirst'
  BY <1>17 DEF DeleteUpload, CleanerDeletedFirst
<1>18. ASSUME NEW w \in Workers, RecordFailure(w) PROVE CleanerDeletedFirst'
  BY <1>18 DEF RecordFailure, CleanerDeletedFirst
<1>19. ASSUME NEW w \in Workers, AttemptFails(w) PROVE CleanerDeletedFirst'
  BY <1>19 DEF AttemptFails, CleanerDeletedFirst
<1>20. ASSUME NEW w \in Workers, MarkReadyReplyLost(w)
       PROVE CleanerDeletedFirst'
  BY <1>20 DEF MarkReadyReplyLost, PublishRow, CleanerDeletedFirst
<1>21. ASSUME NEW c \in Cleaners, ScanExpired(c) PROVE CleanerDeletedFirst'
  BY <1>21 DEF ScanExpired, CleanerDeletedFirst
<1>22. ASSUME NEW c \in Cleaners, SaveExpired(c) PROVE CleanerDeletedFirst'
  BY <1>22 DEF SaveExpired, CleanerDeletedFirst
<1>23. ASSUME NEW c \in Cleaners, EndCleanup(c) PROVE CleanerDeletedFirst'
  BY <1>23 DEF EndCleanup, CleanerDeletedFirst
<1>24. ASSUME NEW c \in Cleaners, NEW j \in Jobs, DeleteExpired(c, j)
       PROVE CleanerDeletedFirst'
  BY <1>24 DEF DeleteExpired, CleanerDeletedFirst
<1>25. ASSUME NEW c \in Cleaners, CleanerCrash(c) PROVE CleanerDeletedFirst'
  BY <1>25 DEF CleanerCrash, CleanerDeletedFirst
<1>26. ASSUME NEW c \in Cleaners, NEW j \in Jobs, DeleteExpiredFails(c, j)
       PROVE CleanerDeletedFirst'
  BY <1>26 DEF DeleteExpiredFails, CleanerDeletedFirst
<1>27. ASSUME NEW j \in Jobs, DeleteRow(j) PROVE CleanerDeletedFirst'
  BY <1>27 DEF DeleteRow, CleanerDeletedFirst
<1>28. CASE UNCHANGED vars
  BY <1>1, <1>28 DEF vars
<1> QED
  BY <1>2, <1>3, <1>4, <1>5, <1>6, <1>7, <1>8, <1>9, <1>10, <1>11,
     <1>12, <1>13, <1>14, <1>15, <1>16, <1>17, <1>18, <1>19, <1>20,
     <1>21, <1>22, <1>23, <1>24, <1>25, <1>26, <1>27, <1>28
  DEF Next, PublisherStep, AttemptStep, CleanerStep, Publishers



(* A job becomes READY with its object, and loses it only once it is over. *)
LEMMA DownloadableStep ==
  ASSUME TypeOK, Assigned, CleanerOver, LockHeld, AttemptFresh, UploadPresent, DownloadableHasObject, ~ConnectionLoss, [Next]_vars
  PROVE  DownloadableHasObject'
<1> USE ConstantsAssumption, StaleAfterAssumption
    DEF TypeOK, Assigned, rowVars, workerVars, publisherVars,
        cleanerVars, SetStatus, SetActivity, ResetForRetry, UpdateWhere,
        Fault, PublisherGoes, PublisherReturns, WorkerGoes, WorkerIdles,
        Unlock, CleanerGoes, Publishers, WorkerPC, Attempting, LockFree,
        PublisherPC, CleanerPC, Status, LockHeld, AttemptFresh,
        UploadPresent, CleanerOver, Over, Expired, Stale, Active
<1>1. UNCHANGED <<status, expires, stored, interrupted>>
      => DownloadableHasObject'
  BY DEF DownloadableHasObject
<1>2. ASSUME NEW p \in Recoveries, ScanStale(p) PROVE DownloadableHasObject'
  BY <1>1, <1>2 DEF ScanStale
<1>3. ASSUME NEW p \in Publishers,
        \/ StampQueued(p) \/ Send(p) \/ EndRecovery(p)
        \/ SendFails(p) \/ PublisherCrash(p)
      PROVE  DownloadableHasObject'
  BY <1>1, <1>3 DEF StampQueued, Send, EndRecovery, SendFails,
     PublisherCrash
<1>4. ASSUME NEW p \in Publishers, NEW j \in Jobs, SkipRecovered(p, j)
      PROVE DownloadableHasObject'
  BY <1>1, <1>4 DEF SkipRecovered
<1>5. ASSUME NEW w \in Workers, NEW j \in Jobs,
        \/ TakeJob(w, j) \/ DropDuplicate(w, j)
      PROVE  DownloadableHasObject'
  BY <1>1, <1>5 DEF TakeJob, DropDuplicate
<1>6. ASSUME NEW w \in Workers,
        \/ SkipAttempt(w) \/ TaskRaises(w) \/ MarkReadyRefused(w) \/ EndTask(w)
        \/ Heartbeat(w) \/ WorkerLost(w) \/ HardTimeLimit(w)
        \/ LoseConnection(w)
      PROVE  DownloadableHasObject'
  BY <1>1, <1>6 DEF SkipAttempt, TaskRaises, MarkReadyRefused, EndTask, Heartbeat,
     WorkerLost, HardTimeLimit, LoseConnection
<1>7. ASSUME NEW c \in Cleaners,
        \/ ScanExpired(c) \/ EndCleanup(c) \/ CleanerCrash(c)
      PROVE  DownloadableHasObject'
  BY <1>1, <1>7 DEF ScanExpired, EndCleanup, CleanerCrash
<1>8. ASSUME NEW j \in Jobs, LoseMessage(j) PROVE DownloadableHasObject'
  BY <1>1, <1>8 DEF LoseMessage
<1>9. ASSUME NEW p \in Requests, NEW j \in Jobs, CreateExport(p, j)
      PROVE DownloadableHasObject'
  BY <1>9 DEF CreateExport, DownloadableHasObject
<1>10. ASSUME NEW p \in Requests, NEW j \in Jobs, RetryExport(p, j)
       PROVE DownloadableHasObject'
  BY <1>10 DEF RetryExport, DownloadableHasObject
<1>11. ASSUME NEW p \in Publishers, RefuseExport(p)
       PROVE DownloadableHasObject'
  BY <1>11 DEF RefuseExport, DownloadableHasObject
<1>12. ASSUME NEW p \in Publishers, NEW j \in Jobs, RecoverJob(p, j)
       PROVE DownloadableHasObject'
  BY <1>12 DEF RecoverJob, DownloadableHasObject
<1>13. ASSUME NEW w \in Workers, BeginAttempt(w) PROVE DownloadableHasObject'
  BY <1>13 DEF BeginAttempt, DownloadableHasObject
<1>14. ASSUME NEW w \in Workers, DeleteOldObject(w)
       PROVE DownloadableHasObject'
  BY <1>14 DEF DeleteOldObject, DownloadableHasObject
<1>15. ASSUME NEW w \in Workers, Upload(w) PROVE DownloadableHasObject'
  BY <1>15 DEF Upload, DownloadableHasObject
<1>16. ASSUME NEW w \in Workers,
        MarkReady(w) \/ MarkReadyInterrupted(w)
      PROVE DownloadableHasObject'
  BY <1>16 DEF MarkReady, MarkReadyInterrupted, PublishRow, DownloadableHasObject
<1>17. ASSUME NEW w \in Workers, DeleteUpload(w) PROVE DownloadableHasObject'
  BY <1>17 DEF DeleteUpload, DownloadableHasObject
<1>18. ASSUME NEW w \in Workers, RecordFailure(w) PROVE DownloadableHasObject'
  BY <1>18 DEF RecordFailure, DownloadableHasObject
<1>19. ASSUME NEW w \in Workers, AttemptFails(w) PROVE DownloadableHasObject'
  BY <1>19 DEF AttemptFails, DownloadableHasObject
<1>20. ASSUME NEW w \in Workers, MarkReadyReplyLost(w)
       PROVE DownloadableHasObject'
  BY <1>20 DEF MarkReadyReplyLost, PublishRow, DownloadableHasObject
<1>21. ASSUME NEW c \in Cleaners, SaveExpired(c) PROVE DownloadableHasObject'
  BY <1>21 DEF SaveExpired, DownloadableHasObject
<1>22. ASSUME NEW c \in Cleaners, NEW j \in Jobs, DeleteExpired(c, j)
       PROVE DownloadableHasObject'
  BY <1>22 DEF DeleteExpired, DownloadableHasObject
<1>23. ASSUME NEW c \in Cleaners, NEW j \in Jobs, DeleteExpiredFails(c, j)
       PROVE DownloadableHasObject'
  BY <1>23 DEF DeleteExpiredFails, DownloadableHasObject
<1>24. ASSUME NEW j \in Jobs, DeleteRow(j) PROVE DownloadableHasObject'
  BY <1>24 DEF DeleteRow, DownloadableHasObject
<1>25. CASE Tick
  BY <1>25 DEF Tick, DownloadableHasObject
<1>26. CASE UNCHANGED vars
  BY <1>1, <1>26 DEF vars
<1> QED
  BY <1>2, <1>3, <1>4, <1>5, <1>6, <1>7, <1>8, <1>9, <1>10, <1>11,
     <1>12, <1>13, <1>14, <1>15, <1>16, <1>17, <1>18, <1>19, <1>20,
     <1>21, <1>22, <1>23, <1>24, <1>25, <1>26
  DEF Next, PublisherStep, AttemptStep, CleanerStep, Publishers



(* A job becomes EXPIRED without its object, and nobody uploads it again. *)
LEMMA ExpiredObjectGoneStep ==
  ASSUME TypeOK, Assigned, CleanerOver, LockHeld, AttemptFresh, CleanerDeletedFirst, ExpiredObjectGone, ~ConnectionLoss, [Next]_vars
  PROVE  ExpiredObjectGone'
<1> USE ConstantsAssumption, StaleAfterAssumption
    DEF TypeOK, Assigned, rowVars, workerVars, publisherVars,
        cleanerVars, SetStatus, SetActivity, ResetForRetry, UpdateWhere,
        Fault, PublisherGoes, PublisherReturns, WorkerGoes, WorkerIdles,
        Unlock, CleanerGoes, Publishers, WorkerPC, Attempting, LockFree,
        PublisherPC, CleanerPC, Status, LockHeld, AttemptFresh,
        CleanerDeletedFirst, CleanerOver, Over, Expired, Stale, Active
<1>1. UNCHANGED <<status, stored>> => ExpiredObjectGone'
  BY DEF ExpiredObjectGone
<1>2. ASSUME NEW p \in Recoveries, ScanStale(p) PROVE ExpiredObjectGone'
  BY <1>1, <1>2 DEF ScanStale
<1>3. ASSUME NEW p \in Publishers,
        \/ StampQueued(p) \/ Send(p) \/ EndRecovery(p)
        \/ SendFails(p) \/ PublisherCrash(p)
      PROVE  ExpiredObjectGone'
  BY <1>1, <1>3 DEF StampQueued, Send, EndRecovery, SendFails,
     PublisherCrash
<1>4. ASSUME NEW p \in Publishers, NEW j \in Jobs, SkipRecovered(p, j)
      PROVE ExpiredObjectGone'
  BY <1>1, <1>4 DEF SkipRecovered
<1>5. ASSUME NEW w \in Workers, NEW j \in Jobs,
        \/ TakeJob(w, j) \/ DropDuplicate(w, j)
      PROVE  ExpiredObjectGone'
  BY <1>1, <1>5 DEF TakeJob, DropDuplicate
<1>6. ASSUME NEW w \in Workers,
        \/ SkipAttempt(w) \/ TaskRaises(w) \/ MarkReadyRefused(w) \/ EndTask(w)
        \/ Heartbeat(w) \/ WorkerLost(w) \/ HardTimeLimit(w)
        \/ LoseConnection(w)
      PROVE  ExpiredObjectGone'
  BY <1>1, <1>6 DEF SkipAttempt, TaskRaises, MarkReadyRefused, EndTask, Heartbeat,
     WorkerLost, HardTimeLimit, LoseConnection
<1>7. ASSUME NEW c \in Cleaners,
        \/ ScanExpired(c) \/ EndCleanup(c) \/ CleanerCrash(c)
      PROVE  ExpiredObjectGone'
  BY <1>1, <1>7 DEF ScanExpired, EndCleanup, CleanerCrash
<1>8. ASSUME NEW j \in Jobs, LoseMessage(j) PROVE ExpiredObjectGone'
  BY <1>1, <1>8 DEF LoseMessage
<1>9. CASE Tick
  BY <1>1, <1>9 DEF Tick
<1>10. ASSUME NEW p \in Requests, NEW j \in Jobs, CreateExport(p, j)
       PROVE ExpiredObjectGone'
  BY <1>10 DEF CreateExport, ExpiredObjectGone
<1>11. ASSUME NEW p \in Requests, NEW j \in Jobs, RetryExport(p, j)
       PROVE ExpiredObjectGone'
  BY <1>11 DEF RetryExport, ExpiredObjectGone
<1>12. ASSUME NEW p \in Publishers, RefuseExport(p) PROVE ExpiredObjectGone'
  BY <1>12 DEF RefuseExport, ExpiredObjectGone
<1>13. ASSUME NEW p \in Publishers, NEW j \in Jobs, RecoverJob(p, j)
       PROVE ExpiredObjectGone'
  BY <1>13 DEF RecoverJob, ExpiredObjectGone
<1>14. ASSUME NEW w \in Workers, BeginAttempt(w) PROVE ExpiredObjectGone'
  BY <1>14 DEF BeginAttempt, ExpiredObjectGone
<1>15. ASSUME NEW w \in Workers, DeleteOldObject(w) PROVE ExpiredObjectGone'
  BY <1>15 DEF DeleteOldObject, ExpiredObjectGone
<1>16. ASSUME NEW w \in Workers, Upload(w) PROVE ExpiredObjectGone'
  BY <1>16 DEF Upload, ExpiredObjectGone
<1>17. ASSUME NEW w \in Workers,
        MarkReady(w) \/ MarkReadyInterrupted(w)
      PROVE ExpiredObjectGone'
  BY <1>17 DEF MarkReady, MarkReadyInterrupted, PublishRow, ExpiredObjectGone
<1>18. ASSUME NEW w \in Workers, DeleteUpload(w) PROVE ExpiredObjectGone'
  BY <1>18 DEF DeleteUpload, ExpiredObjectGone
<1>19. ASSUME NEW w \in Workers, RecordFailure(w) PROVE ExpiredObjectGone'
  BY <1>19 DEF RecordFailure, ExpiredObjectGone
<1>20. ASSUME NEW w \in Workers, AttemptFails(w) PROVE ExpiredObjectGone'
  BY <1>20 DEF AttemptFails, ExpiredObjectGone
<1>21. ASSUME NEW w \in Workers, MarkReadyReplyLost(w)
       PROVE ExpiredObjectGone'
  BY <1>21 DEF MarkReadyReplyLost, PublishRow, ExpiredObjectGone
<1>22. ASSUME NEW c \in Cleaners, SaveExpired(c) PROVE ExpiredObjectGone'
  BY <1>22 DEF SaveExpired, ExpiredObjectGone
<1>23. ASSUME NEW c \in Cleaners, NEW j \in Jobs, DeleteExpired(c, j)
       PROVE ExpiredObjectGone'
  BY <1>23 DEF DeleteExpired, ExpiredObjectGone
<1>24. ASSUME NEW c \in Cleaners, NEW j \in Jobs, DeleteExpiredFails(c, j)
       PROVE ExpiredObjectGone'
  BY <1>24 DEF DeleteExpiredFails, ExpiredObjectGone
<1>25. ASSUME NEW j \in Jobs, DeleteRow(j) PROVE ExpiredObjectGone'
  BY <1>25 DEF DeleteRow, ExpiredObjectGone
<1>26. CASE UNCHANGED vars
  BY <1>1, <1>26 DEF vars
<1> QED
  BY <1>2, <1>3, <1>4, <1>5, <1>6, <1>7, <1>8, <1>9, <1>10, <1>11,
     <1>12, <1>13, <1>14, <1>15, <1>16, <1>17, <1>18, <1>19, <1>20,
     <1>21, <1>22, <1>23, <1>24, <1>25, <1>26
  DEF Next, PublisherStep, AttemptStep, CleanerStep, Publishers

(* The strengthened invariant is inductive. *)
LEMMA IInvStep ==
  ASSUME ~ConnectionLoss, IInv, [Next]_vars
  PROVE  IInv'
  BY AssignedStep, TypeStep, CleanerOverStep, LockHeldStep,
     AttemptFreshStep, UploadPresentStep, CleanerDeletedFirstStep,
     DownloadableStep, ExpiredObjectGoneStep
  DEF IInv

LEMMA IInvInit == Init => IInv
  BY ConstantsAssumption
  DEF Init, IInv, TypeOK, Assigned, CleanerOver, LockHeld, AttemptFresh,
      UploadPresent, CleanerDeletedFirst, DownloadableHasObject,
      ExpiredObjectGone, Publishers,
      Status, Attempting, WorkerPC, PublisherPC, CleanerPC, AgeCap

THEOREM Inductive ==
  ASSUME ~ConnectionLoss
  PROVE  Spec => []IInv
<1>1. IInv /\ [Next]_vars => IInv'
  BY IInvStep
<1> QED
  BY <1>1, IInvInit, PTL DEF Spec

(* Every variable keeps its type, with or without connection losses. *)
THEOREM TypeCorrect == Spec => []TypeOK
<1>1. Init => TypeOK /\ Assigned
  BY IInvInit DEF IInv
<1>2. TypeOK /\ Assigned /\ [Next]_vars => (TypeOK /\ Assigned)'
  BY AssignedStep, TypeStep
<1> QED
  BY <1>1, <1>2, PTL DEF Spec

(* Two workers never generate the same export: each holds its lock. *)
THEOREM Exclusion ==
  ASSUME ~ConnectionLoss
  PROVE  Spec => []ExclusiveGeneration
<1>1. IInv => ExclusiveGeneration
  BY DEF IInv, TypeOK, LockHeld, ExclusiveGeneration, Attempting
<1> QED
  BY <1>1, Inductive, PTL

(* No retry request, recovery run or failed publication takes the job from *)
(* a worker inside its attempt: StaleAfter exceeds TaskTimeLimit.          *)
THEOREM Ownership ==
  ASSUME ~ConnectionLoss
  PROVE  Spec => []AttemptKeepsJob
<1>1. IInv => AttemptKeepsJob
  BY DEF IInv, AttemptFresh, AttemptKeepsJob
<1> QED
  BY <1>1, Inductive, PTL

(* The object behind a READY export exists until the export expires. *)
THEOREM Downloadable ==
  ASSUME ~ConnectionLoss
  PROVE  Spec => []DownloadableHasObject
<1>1. IInv => DownloadableHasObject
  BY DEF IInv
<1> QED
  BY <1>1, Inductive, PTL

(* An EXPIRED export has left no object behind. *)
THEOREM NothingLeftBehind ==
  ASSUME ~ConnectionLoss
  PROVE  Spec => []ExpiredObjectGone
<1>1. IInv => ExpiredObjectGone
  BY DEF IInv
<1> QED
  BY <1>1, Inductive, PTL

-----------------------------------------------------------------------------

(* A step that writes the row of one job moves at most the phase of that   *)
(* job.                                                                    *)
LEMMA OneRowChanges ==
  ASSUME TypeOK, NEW j \in Jobs, NEW s,
         status' = [status EXCEPT ![j] = s],
         \A i \in Jobs \ {j} : expires'[i] = expires[i]
  PROVE  rowPhaseBar' = [rowPhaseBar EXCEPT ![j] = RowPhase(j)']
<1>1. ASSUME NEW i \in Jobs, i # j PROVE RowPhase(i)' = RowPhase(i)
  BY <1>1 DEF TypeOK, RowPhase, Active
<1> QED
  BY <1>1 DEF rowPhaseBar

(* Such a step is a step of the lifecycle if it leads to a next phase.     *)
LEMMA PhaseMoves ==
  ASSUME NEW j \in Jobs, UNCHANGED interrupted,
         rowPhaseBar' = [rowPhaseBar EXCEPT ![j] = RowPhase(j)'],
         \/ RowPhase(j)' = RowPhase(j)
         \/ RowPhase(j) = "none" /\ RowPhase(j)' = "waiting"
         \/ RowPhase(j) = "waiting" /\ RowPhase(j)' \in {"available", "failed"}
         \/ RowPhase(j) = "failed" /\ RowPhase(j)' = "waiting"
         \/ /\ RowPhase(j) \in {"waiting", "available", "failed"}
            /\ RowPhase(j)' = "gone"
  PROVE  [RowLifecycle!Next]_<<rowPhaseBar, interrupted>>
<1>1. rowPhaseBar[j] = RowPhase(j) /\ DOMAIN rowPhaseBar = Jobs
  BY DEF rowPhaseBar
<1>2. CASE RowPhase(j)' = RowPhase(j)
  BY <1>1, <1>2 DEF rowPhaseBar
<1>3. CASE RowPhase(j) = "none" /\ RowPhase(j)' = "waiting"
  BY <1>1, <1>3
  DEF RowLifecycle!Next, RowLifecycle!Request, RowLifecycle!Move
<1>4. CASE RowPhase(j) = "waiting" /\ RowPhase(j)' \in {"available", "failed"}
  BY <1>1, <1>4
  DEF RowLifecycle!Next, RowLifecycle!Complete, RowLifecycle!Fail,
      RowLifecycle!Move
<1>5. CASE RowPhase(j) = "failed" /\ RowPhase(j)' = "waiting"
  BY <1>1, <1>5 DEF RowLifecycle!Next, RowLifecycle!Retry, RowLifecycle!Move
<1>6. CASE /\ RowPhase(j) \in {"waiting", "available", "failed"}
           /\ RowPhase(j)' = "gone"
  BY <1>1, <1>6 DEF RowLifecycle!Next, RowLifecycle!Withdraw, RowLifecycle!Move
<1> QED
  BY <1>2, <1>3, <1>4, <1>5, <1>6



(* Every step moves the rows as the lifecycle allows. *)
LEMMA RowLifecycleStep ==
  ASSUME TypeOK, Assigned, CleanerOver, [Next]_vars
  PROVE  [RowLifecycle!Next]_<<rowPhaseBar, interrupted>>
<1> USE ConstantsAssumption, StaleAfterAssumption
    DEF rowVars, workerVars, publisherVars, cleanerVars, SetStatus,
        SetActivity, ResetForRetry, UpdateWhere, Fault, Publishers
<1>1. UNCHANGED <<status, expires, interrupted>>
      => [RowLifecycle!Next]_<<rowPhaseBar, interrupted>>
  BY DEF rowPhaseBar, RowPhase, Active
<1>2. ASSUME NEW p \in Recoveries, ScanStale(p)
      PROVE [RowLifecycle!Next]_<<rowPhaseBar, interrupted>>
  BY <1>1, <1>2 DEF ScanStale
<1>3. ASSUME NEW p \in Publishers,
        \/ StampQueued(p) \/ Send(p) \/ EndRecovery(p)
        \/ SendFails(p) \/ PublisherCrash(p)
      PROVE  [RowLifecycle!Next]_<<rowPhaseBar, interrupted>>
  BY <1>1, <1>3 DEF StampQueued, Send, EndRecovery, SendFails,
     PublisherCrash
<1>4. ASSUME NEW p \in Publishers, NEW j \in Jobs, SkipRecovered(p, j)
      PROVE [RowLifecycle!Next]_<<rowPhaseBar, interrupted>>
  BY <1>1, <1>4 DEF SkipRecovered
<1>5. ASSUME NEW w \in Workers, NEW j \in Jobs,
        \/ TakeJob(w, j) \/ DropDuplicate(w, j)
      PROVE  [RowLifecycle!Next]_<<rowPhaseBar, interrupted>>
  BY <1>1, <1>5 DEF TakeJob, DropDuplicate
<1>6. ASSUME NEW w \in Workers,
        \/ SkipAttempt(w) \/ TaskRaises(w) \/ DeleteOldObject(w) \/ Upload(w)
        \/ MarkReadyRefused(w) \/ DeleteUpload(w) \/ EndTask(w)
        \/ Heartbeat(w) \/ AttemptFails(w) \/ WorkerLost(w)
        \/ HardTimeLimit(w) \/ LoseConnection(w)
      PROVE  [RowLifecycle!Next]_<<rowPhaseBar, interrupted>>
  BY <1>1, <1>6 DEF SkipAttempt, TaskRaises, DeleteOldObject, Upload,
     MarkReadyRefused, DeleteUpload, EndTask, Heartbeat, AttemptFails,
     WorkerLost, HardTimeLimit, LoseConnection
<1>7. ASSUME NEW c \in Cleaners,
        \/ ScanExpired(c) \/ EndCleanup(c) \/ CleanerCrash(c)
      PROVE  [RowLifecycle!Next]_<<rowPhaseBar, interrupted>>
  BY <1>1, <1>7 DEF ScanExpired, EndCleanup, CleanerCrash
<1>8. ASSUME NEW c \in Cleaners, NEW j \in Jobs,
        \/ DeleteExpired(c, j) \/ DeleteExpiredFails(c, j)
      PROVE  [RowLifecycle!Next]_<<rowPhaseBar, interrupted>>
  BY <1>1, <1>8 DEF DeleteExpired, DeleteExpiredFails
<1>9. ASSUME NEW j \in Jobs, LoseMessage(j)
      PROVE [RowLifecycle!Next]_<<rowPhaseBar, interrupted>>
  BY <1>1, <1>9 DEF LoseMessage
<1>10. ASSUME NEW p \in Requests, NEW j \in Jobs, CreateExport(p, j)
       PROVE [RowLifecycle!Next]_<<rowPhaseBar, interrupted>>
  <2>1. rowPhaseBar' = [rowPhaseBar EXCEPT ![j] = RowPhase(j)']
    BY <1>10, OneRowChanges DEF CreateExport, TypeOK
  <2>2. RowPhase(j) = "none" /\ RowPhase(j)' = "waiting"
    BY <1>10 DEF CreateExport, TypeOK, RowPhase, Active
  <2> QED
    BY <1>10, <2>1, <2>2, PhaseMoves DEF CreateExport
<1>11. ASSUME NEW p \in Requests, NEW j \in Jobs, RetryExport(p, j)
       PROVE [RowLifecycle!Next]_<<rowPhaseBar, interrupted>>
  <2>1. rowPhaseBar' = [rowPhaseBar EXCEPT ![j] = RowPhase(j)']
    BY <1>11, OneRowChanges DEF RetryExport, TypeOK
  <2>2. RowPhase(j) \in {"failed", "waiting"} /\ RowPhase(j)' = "waiting"
    BY <1>11 DEF RetryExport, TypeOK, RowPhase, Active, Stale
  <2> QED
    BY <1>11, <2>1, <2>2, PhaseMoves DEF RetryExport
<1>12. ASSUME NEW p \in Publishers, RefuseExport(p)
       PROVE [RowLifecycle!Next]_<<rowPhaseBar, interrupted>>
  <2>1. CASE UNCHANGED status
    BY <1>1, <1>12, <2>1 DEF RefuseExport
  <2>2. CASE status' # status
    <3> PICK j \in Jobs : pjob[p] = j
      BY <1>12 DEF RefuseExport, Assigned
    <3>1. rowPhaseBar' = [rowPhaseBar EXCEPT ![j] = RowPhase(j)']
      BY <1>12, <2>2, OneRowChanges DEF RefuseExport, TypeOK
    <3>2. RowPhase(j) = "waiting" /\ RowPhase(j)' = "failed"
      BY <1>12, <2>2 DEF RefuseExport, TypeOK, RowPhase, Active
    <3> QED
      BY <1>12, <3>1, <3>2, PhaseMoves DEF RefuseExport
  <2> QED
    BY <2>1, <2>2
<1>13. ASSUME NEW p \in Publishers, NEW j \in Jobs, RecoverJob(p, j)
       PROVE [RowLifecycle!Next]_<<rowPhaseBar, interrupted>>
  <2>1. rowPhaseBar' = [rowPhaseBar EXCEPT ![j] = RowPhase(j)']
    BY <1>13, OneRowChanges DEF RecoverJob, TypeOK
  <2>2. RowPhase(j) = "waiting" /\ RowPhase(j)' = "waiting"
    BY <1>13 DEF RecoverJob, TypeOK, RowPhase, Active, Stale
  <2> QED
    BY <1>13, <2>1, <2>2, PhaseMoves DEF RecoverJob
<1>14. ASSUME NEW w \in Workers, BeginAttempt(w)
       PROVE [RowLifecycle!Next]_<<rowPhaseBar, interrupted>>
  <2> PICK j \in Jobs : wjob[w] = j
    BY <1>14 DEF BeginAttempt, Assigned
  <2>1. rowPhaseBar' = [rowPhaseBar EXCEPT ![j] = RowPhase(j)']
    BY <1>14, OneRowChanges DEF BeginAttempt, TypeOK
  <2>2. RowPhase(j) = "waiting" /\ RowPhase(j)' = "waiting"
    BY <1>14 DEF BeginAttempt, TypeOK, RowPhase, Active
  <2> QED
    BY <1>14, <2>1, <2>2, PhaseMoves DEF BeginAttempt
<1>15. ASSUME NEW w \in Workers, MarkReady(w)
       PROVE [RowLifecycle!Next]_<<rowPhaseBar, interrupted>>
  <2> PICK j \in Jobs : wjob[w] = j
    BY <1>15 DEF MarkReady, PublishRow, Assigned
  <2>1. rowPhaseBar' = [rowPhaseBar EXCEPT ![j] = RowPhase(j)']
    BY <1>15, OneRowChanges DEF MarkReady, PublishRow, TypeOK
  <2>2. RowPhase(j) = "waiting" /\ RowPhase(j)' \in {"available", "gone"}
    BY <1>15 DEF MarkReady, PublishRow, TypeOK, RowPhase, Active
  <2> QED
    BY <1>15, <2>1, <2>2, PhaseMoves DEF MarkReady
<1>16. ASSUME NEW w \in Workers, RecordFailure(w)
       PROVE [RowLifecycle!Next]_<<rowPhaseBar, interrupted>>
  <2>1. CASE UNCHANGED status
    BY <1>1, <1>16, <2>1 DEF RecordFailure
  <2>2. CASE status' # status
    <3> PICK j \in Jobs : wjob[w] = j
      BY <1>16 DEF RecordFailure, Assigned
    <3>1. rowPhaseBar' = [rowPhaseBar EXCEPT ![j] = RowPhase(j)']
      BY <1>16, <2>2, OneRowChanges DEF RecordFailure, TypeOK
    <3>2. RowPhase(j) = "waiting" /\ RowPhase(j)' = "failed"
      BY <1>16, <2>2 DEF RecordFailure, TypeOK, RowPhase, Active
    <3> QED
      BY <1>16, <3>1, <3>2, PhaseMoves DEF RecordFailure
  <2> QED
    BY <2>1, <2>2
<1>17. ASSUME NEW w \in Workers,
              MarkReadyInterrupted(w) \/ MarkReadyReplyLost(w)
       PROVE [RowLifecycle!Next]_<<rowPhaseBar, interrupted>>
  <2> PICK j \in Jobs : wjob[w] = j
    BY <1>17 DEF MarkReadyInterrupted, MarkReadyReplyLost, PublishRow, Assigned
  <2> USE DEF MarkReadyInterrupted, MarkReadyReplyLost, PublishRow
  <2>1. rowPhaseBar' = [rowPhaseBar EXCEPT ![j] = RowPhase(j)']
    BY <1>17, OneRowChanges DEF TypeOK
  <2>2. RowPhase(j) = "waiting" /\ RowPhase(j)' \in {"available", "gone"}
    BY <1>17 DEF TypeOK, RowPhase, Active
  <2>3. rowPhaseBar[j] = "waiting" /\ interrupted' = interrupted \cup {j}
    BY <1>17, <2>2 DEF rowPhaseBar
  <2> QED
    BY <2>1, <2>2, <2>3
    DEF RowLifecycle!Next, RowLifecycle!CompleteInterrupted
<1>18. ASSUME NEW c \in Cleaners, SaveExpired(c)
       PROVE [RowLifecycle!Next]_<<rowPhaseBar, interrupted>>
  <2>1. CASE UNCHANGED status
    BY <1>1, <1>18, <2>1 DEF SaveExpired
  <2>2. CASE status' # status
    <3> PICK j \in Jobs : cjob[c] = j
      BY <1>18 DEF SaveExpired, Assigned
    <3>1. rowPhaseBar' = [rowPhaseBar EXCEPT ![j] = RowPhase(j)']
      BY <1>18, <2>2, OneRowChanges DEF SaveExpired, TypeOK
    <3>2. RowPhase(j) = "gone" /\ RowPhase(j)' = "gone"
      BY <1>18, <2>2 DEF SaveExpired, TypeOK, RowPhase, Active, CleanerOver, Over, Expired
    <3> QED
      BY <1>18, <3>1, <3>2, PhaseMoves DEF SaveExpired
  <2> QED
    BY <2>1, <2>2
<1>19. ASSUME NEW j \in Jobs, DeleteRow(j)
       PROVE [RowLifecycle!Next]_<<rowPhaseBar, interrupted>>
  <2>1. rowPhaseBar' = [rowPhaseBar EXCEPT ![j] = RowPhase(j)']
    BY <1>19, OneRowChanges DEF DeleteRow, TypeOK
  <2>2. \/ RowPhase(j) = "gone"
              \/ RowPhase(j) \in {"waiting", "available", "failed"}
        /\ RowPhase(j)' = "gone"
    BY <1>19 DEF DeleteRow, TypeOK, RowPhase, Active, Status
  <2> QED
    BY <1>19, <2>1, <2>2, PhaseMoves DEF DeleteRow
<1>20. CASE Tick
  <2> DEFINE leaving == {j \in Jobs : RowPhase(j) = "available" /\ expires[j] = 1}
  <2>1. ASSUME NEW j \in Jobs
        PROVE  rowPhaseBar'[j] = IF j \in leaving THEN "gone" ELSE rowPhaseBar[j]
    BY <1>20 DEF Tick, TypeOK, rowPhaseBar, RowPhase, Active
  <2>2. \A j \in leaving : rowPhaseBar[j] = "available"
    BY DEF rowPhaseBar
  <2>3. rowPhaseBar' =
          [j \in Jobs |-> IF j \in leaving THEN "gone" ELSE rowPhaseBar[j]]
    BY <2>1 DEF rowPhaseBar
  <2> QED
    BY <1>20, <2>2, <2>3 DEF Tick, RowLifecycle!Next, RowLifecycle!Expire
<1>21. CASE UNCHANGED vars
  BY <1>1, <1>21 DEF vars
<1> QED
  BY <1>2, <1>3, <1>4, <1>5, <1>6, <1>7, <1>8, <1>9, <1>10, <1>11,
     <1>12, <1>13, <1>14, <1>15, <1>16, <1>17, <1>18, <1>19, <1>20,
     <1>21
  DEF Next, PublisherStep, AttemptStep, CleanerStep, Publishers

(* The rows follow the lifecycle, with or without connection losses. *)
THEOREM RowRefinement == Spec => RowsFollowLifecycle
<1>1. Init => TypeOK /\ Assigned /\ CleanerOver
  BY IInvInit DEF IInv
<1>2. TypeOK /\ Assigned /\ CleanerOver /\ [Next]_vars
      => (TypeOK /\ Assigned /\ CleanerOver)'
  BY AssignedStep, TypeStep, CleanerOverStep
<1>3. Init => RowLifecycle!Init
  BY DEF Init, RowLifecycle!Init, rowPhaseBar, RowPhase, Active
<1>4. TypeOK /\ Assigned /\ CleanerOver /\ [Next]_vars
      => [RowLifecycle!Next]_<<rowPhaseBar, interrupted>>
  BY RowLifecycleStep
<1> QED
  BY <1>1, <1>2, <1>3, <1>4, PTL
  DEF Spec, RowsFollowLifecycle, RowLifecycle!Spec, RowLifecycle!lifecycle

(* A step that writes or removes objects touches one object and no row. *)
ObjectStep ==
    /\ UNCHANGED <<status, expires, interrupted>>
    /\ \E j \in Jobs :
         \/ stored' = stored \cup {j} /\ status[j] # "ready"
         \/ stored' = stored \ {j}

(* Any other step leaves the bucket alone, and publishes what is in it. *)
RowStep ==
    /\ UNCHANGED stored
    /\ \A j \in Jobs : status'[j] = "ready" /\ status[j] # "ready" => j \in stored

(* No step touches rows and objects at once. *)
LEMMA StepKinds ==
  ASSUME IInv, [Next]_vars
  PROVE  ObjectStep \/ RowStep
<1> USE DEF IInv, TypeOK, Assigned, rowVars, workerVars, publisherVars,
            cleanerVars, SetStatus, SetActivity, ResetForRetry, UpdateWhere
<1>1. UNCHANGED <<status, stored>> => RowStep
  BY DEF RowStep
<1>2. UNCHANGED <<rowVars, stored, interrupted>> => RowStep
  BY <1>1
<1>3. ASSUME NEW p \in Requests, NEW j \in Jobs,
             CreateExport(p, j) \/ RetryExport(p, j)
      PROVE  RowStep
  BY <1>3 DEF CreateExport, RetryExport, RowStep
<1>4. ASSUME NEW p \in Recoveries, ScanStale(p) PROVE RowStep
  BY <1>2, <1>4 DEF ScanStale
<1>5. ASSUME NEW p \in Publishers,
             \/ StampQueued(p) \/ Send(p) \/ EndRecovery(p)
             \/ SendFails(p) \/ PublisherCrash(p)
      PROVE  RowStep
  BY <1>1, <1>5 DEF StampQueued, Send, EndRecovery, SendFails, PublisherCrash
<1>6. ASSUME NEW p \in Publishers, RefuseExport(p) PROVE RowStep
  BY <1>6 DEF RefuseExport, RowStep
<1>7. ASSUME NEW p \in Publishers, NEW j \in Jobs,
             RecoverJob(p, j) \/ SkipRecovered(p, j)
      PROVE  RowStep
  BY <1>7 DEF RecoverJob, SkipRecovered, RowStep
<1>8. ASSUME NEW w \in Workers, NEW j \in Jobs,
             TakeJob(w, j) \/ DropDuplicate(w, j)
      PROVE  RowStep
  BY <1>2, <1>8 DEF TakeJob, DropDuplicate
<1>9. ASSUME NEW w \in Workers,
             \/ SkipAttempt(w) \/ TaskRaises(w) \/ MarkReadyRefused(w)
             \/ EndTask(w) \/ Heartbeat(w) \/ WorkerLost(w)
             \/ HardTimeLimit(w) \/ LoseConnection(w)
      PROVE  RowStep
  BY <1>1, <1>9 DEF SkipAttempt, TaskRaises, MarkReadyRefused, EndTask,
     Heartbeat, WorkerLost, HardTimeLimit, LoseConnection
<1>10. ASSUME NEW w \in Workers, BeginAttempt(w) \/ RecordFailure(w)
       PROVE  RowStep
  BY <1>10 DEF BeginAttempt, RecordFailure, RowStep
<1>11. ASSUME NEW w \in Workers, PublishRow(w), UNCHANGED stored
       PROVE  RowStep
  BY <1>11 DEF PublishRow, RowStep, UploadPresent
<1>12. ASSUME NEW w \in Workers,
              \/ MarkReady(w) \/ MarkReadyInterrupted(w)
              \/ MarkReadyReplyLost(w)
       PROVE  RowStep
  BY <1>11, <1>12 DEF MarkReady, MarkReadyInterrupted, MarkReadyReplyLost
<1>13. ASSUME NEW w \in Workers, DeleteOldObject(w) \/ Upload(w)
       PROVE  ObjectStep
  BY <1>13 DEF DeleteOldObject, Upload, ObjectStep, AttemptFresh, Attempting
<1>14. ASSUME NEW w \in Workers, AttemptFails(w) \/ DeleteUpload(w)
       PROVE  ObjectStep \/ RowStep
  <2>1. CASE UNCHANGED stored
    BY <1>2, <1>14, <2>1 DEF AttemptFails, DeleteUpload
  <2>2. CASE stored' # stored
    BY <1>14, <2>2
    DEF AttemptFails, DeleteUpload, ObjectStep, AttemptFresh, Attempting
  <2> QED
    BY <2>1, <2>2
<1>15. ASSUME NEW c \in Cleaners,
              \/ ScanExpired(c) \/ EndCleanup(c) \/ CleanerCrash(c)
       PROVE  RowStep
  BY <1>2, <1>15 DEF ScanExpired, EndCleanup, CleanerCrash
<1>16. ASSUME NEW c \in Cleaners, SaveExpired(c) PROVE RowStep
  BY <1>16 DEF SaveExpired, RowStep
<1>17. ASSUME NEW c \in Cleaners, NEW j \in Jobs,
              DeleteExpired(c, j) \/ DeleteExpiredFails(c, j)
       PROVE  ObjectStep \/ RowStep
  BY <1>2, <1>17 DEF DeleteExpired, DeleteExpiredFails, ObjectStep
<1>18. ASSUME NEW j \in Jobs, DeleteRow(j) \/ LoseMessage(j) PROVE RowStep
  BY <1>18 DEF DeleteRow, LoseMessage, RowStep
<1>19. Tick \/ UNCHANGED vars => RowStep
  BY <1>1 DEF Tick, vars
<1> QED
  BY <1>3, <1>4, <1>5, <1>6, <1>7, <1>8, <1>9, <1>10, <1>12, <1>13, <1>14,
     <1>15, <1>16, <1>17, <1>18, <1>19
  DEF Next, PublisherStep, AttemptStep, CleanerStep, Publishers

(* A poller's phase is the row's, unless the object is missing. *)
LEMMA PhaseOfRow ==
  ASSUME NEW j \in Jobs
  PROVE  phaseBar[j] = IF rowPhaseBar[j] = "available" /\ j \notin stored
                       THEN "broken" ELSE rowPhaseBar[j]
  BY DEF phaseBar, rowPhaseBar, Phase

(* Removing an object breaks an export only if its publication was         *)
(* interrupted, and no upload repairs one.                                 *)
LEMMA ObjectStepPhases ==
  ASSUME IInv, IInv', ObjectStep
  PROVE  [Lifecycle!Next]_<<phaseBar, interrupted>>
<1> PICK j \in Jobs : \/ stored' = stored \cup {j} /\ status[j] # "ready"
                      \/ stored' = stored \ {j}
  BY DEF ObjectStep
<1>1. \A i \in Jobs : RowPhase(i)' = RowPhase(i)
  BY DEF ObjectStep, RowPhase, Active
<1>2. \A i \in Jobs \ {j} : Phase(i)' = Phase(i)
  BY <1>1 DEF Phase
<1>3. CASE Phase(j)' = Phase(j)
  BY <1>2, <1>3 DEF phaseBar, ObjectStep
<1>4. CASE Phase(j)' # Phase(j)
  <2>1. stored' = stored \ {j} /\ Phase(j) = "available" /\ Phase(j)' = "broken"
    BY <1>1, <1>4 DEF Phase, RowPhase, Active
  <2>2. j \in interrupted
    BY <1>1, <2>1
    DEF IInv, DownloadableHasObject, Phase, RowPhase, Active, ObjectStep
  <2>3. phaseBar' = [phaseBar EXCEPT ![j] = "broken"] /\ phaseBar[j] = "available"
    BY <1>2, <2>1 DEF phaseBar
  <2> QED
    BY <2>2, <2>3
    DEF ObjectStep, Lifecycle!Next, Lifecycle!Break, Lifecycle!Move
<1> QED
  BY <1>3, <1>4

(* A step of the rows is the same step for a poller, who may find the      *)
(* export broken that is withdrawn or expires.                             *)
LEMMA RowStepPhases ==
  ASSUME TypeOK, RowStep, [RowLifecycle!Next]_<<rowPhaseBar, interrupted>>
  PROVE  [Lifecycle!Next]_<<phaseBar, interrupted>>
<1>1. DOMAIN phaseBar = Jobs /\ DOMAIN phaseBar' = Jobs
  BY DEF phaseBar
<1>2. DOMAIN rowPhaseBar = Jobs
  BY DEF rowPhaseBar
<1>3. ASSUME NEW i \in Jobs
      PROVE  /\ phaseBar[i] = IF rowPhaseBar[i] = "available" /\ i \notin stored
                              THEN "broken" ELSE rowPhaseBar[i]
             /\ phaseBar'[i] = IF rowPhaseBar'[i] = "available" /\ i \notin stored
                               THEN "broken" ELSE rowPhaseBar'[i]
  BY PhaseOfRow DEF RowStep, phaseBar, rowPhaseBar, Phase
<1>4. ASSUME NEW i \in Jobs, rowPhaseBar[i] = "waiting",
             rowPhaseBar'[i] = "available"
      PROVE  i \in stored
  BY <1>4 DEF RowStep, rowPhaseBar, RowPhase, Active
<1>5. CASE UNCHANGED <<rowPhaseBar, interrupted>>
  <2>1. \A i \in Jobs : phaseBar'[i] = phaseBar[i]
    BY <1>3, <1>5
  <2> QED
    BY <1>5, <2>1 DEF phaseBar
<1>6. ASSUME NEW j \in Jobs, NEW to,
             rowPhaseBar' = [rowPhaseBar EXCEPT ![j] = to],
             to # "available" \/ j \in stored
      PROVE  phaseBar' = [phaseBar EXCEPT ![j] = to]
  <2>1. \A i \in Jobs : phaseBar'[i] = IF i = j THEN to ELSE phaseBar[i]
    BY <1>2, <1>3, <1>6
  <2> QED
    BY <2>1 DEF phaseBar
<1>7. ASSUME NEW j \in Jobs,
             \/ RowLifecycle!Request(j) \/ RowLifecycle!Fail(j)
             \/ RowLifecycle!Retry(j) \/ RowLifecycle!Withdraw(j)
      PROVE  Lifecycle!Next
  BY <1>3, <1>6, <1>7
  DEF RowLifecycle!Request, RowLifecycle!Fail, RowLifecycle!Retry,
      RowLifecycle!Withdraw, RowLifecycle!Move, Lifecycle!Next,
      Lifecycle!Request, Lifecycle!Fail, Lifecycle!Retry,
      Lifecycle!Withdraw, Lifecycle!Move
<1>8. ASSUME NEW j \in Jobs, RowLifecycle!Complete(j) PROVE Lifecycle!Next
  <2>1. rowPhaseBar[j] = "waiting" /\ rowPhaseBar'[j] = "available"
    BY <1>2, <1>8 DEF RowLifecycle!Complete, RowLifecycle!Move
  <2> QED
    BY <1>3, <1>4, <1>6, <1>8, <2>1
    DEF RowLifecycle!Complete, RowLifecycle!Move, Lifecycle!Next,
        Lifecycle!Complete, Lifecycle!Move
<1>9. ASSUME NEW j \in Jobs, RowLifecycle!CompleteInterrupted(j)
      PROVE  Lifecycle!Next
  <2> PICK to \in {"available", "gone"} :
           rowPhaseBar' = [rowPhaseBar EXCEPT ![j] = to]
    BY <1>9 DEF RowLifecycle!CompleteInterrupted
  <2>1. rowPhaseBar[j] = "waiting" /\ rowPhaseBar'[j] = to
    BY <1>2, <1>9 DEF RowLifecycle!CompleteInterrupted
  <2>2. phaseBar' = [phaseBar EXCEPT ![j] = to] /\ phaseBar[j] = "waiting"
    BY <1>3, <1>4, <1>6, <2>1
  <2> QED
    BY <1>9, <2>2
    DEF RowLifecycle!CompleteInterrupted, Lifecycle!Next,
        Lifecycle!CompleteInterrupted
<1>10. ASSUME NEW j \in Jobs, RowLifecycle!Break(j) PROVE FALSE
  <2>1. rowPhaseBar'[j] = "broken"
    BY <1>2, <1>10 DEF RowLifecycle!Break, RowLifecycle!Move
  <2> QED
    BY <2>1 DEF rowPhaseBar, RowPhase
<1>11. ASSUME NEW js \in SUBSET Jobs, RowLifecycle!Expire(js)
       PROVE  Lifecycle!Next
  <2>1. \A j \in js : phaseBar[j] \in {"available", "broken"}
    BY <1>3, <1>11 DEF RowLifecycle!Expire
  <2>2. \A i \in Jobs : phaseBar'[i] = IF i \in js THEN "gone" ELSE phaseBar[i]
    BY <1>3, <1>11 DEF RowLifecycle!Expire
  <2>3. phaseBar' = [j \in Jobs |-> IF j \in js THEN "gone" ELSE phaseBar[j]]
    BY <2>2 DEF phaseBar
  <2> QED
    BY <1>11, <2>1, <2>3
    DEF RowLifecycle!Expire, Lifecycle!Next, Lifecycle!Expire
<1> QED
  BY <1>5, <1>7, <1>8, <1>9, <1>10, <1>11 DEF RowLifecycle!Next

(* While connections last the whole system implements the lifecycle        *)
(* promised to administrators: a poller meets a broken export only where   *)
(* its publication was interrupted after the commit.                       *)
THEOREM Refinement ==
  ASSUME ~ConnectionLoss
  PROVE  Spec => ImplementsLifecycle
<1>1. Init => Lifecycle!Init
  BY DEF Init, Lifecycle!Init, phaseBar, Phase, RowPhase, Active
<1>2. ASSUME IInv, IInv', [Next]_vars
      PROVE  [Lifecycle!Next]_<<phaseBar, interrupted>>
  <2>1. [RowLifecycle!Next]_<<rowPhaseBar, interrupted>>
    BY <1>2, RowLifecycleStep DEF IInv
  <2> QED
    BY <1>2, <2>1, StepKinds, ObjectStepPhases, RowStepPhases DEF IInv
<1> QED
  BY <1>1, <1>2, Inductive, PTL
  DEF Spec, ImplementsLifecycle, Lifecycle!Spec, Lifecycle!lifecycle
=============================================================================
