------------------------------ MODULE AnalysisJob ------------------------------
(***************************************************************************)
(* The durable analysis job of a submitted document: its row in            *)
(* PostgreSQL, the transactional dispatch outbox, the Celery broker and    *)
(* the workers that claim, evaluate and finish it                          *)
(* (services/analysis_job.py, services/analysis_dispatch.py,               *)
(* workers/tasks.py).                                                      *)
(*                                                                         *)
(* A worker handles a message in two transactions.  The first one claims   *)
(* the job (SELECT ... FOR UPDATE SKIP LOCKED) and commits; the second one *)
(* evaluates the document and finishes with a compare-and-set on the       *)
(* claimed attempt.  Row locks are explicit in pc: a worker at "claim"     *)
(* holds the job row, one at "hold" the submission and document rows, one  *)
(* at "stamp" all of them.  Time is not a number: a lease is fresh or      *)
(* stale, a dispatch row is due or later.                                  *)
(***************************************************************************)
EXTENDS Naturals

CONSTANTS
    Jobs,         \* analysis jobs, one for each document version
    Workers,      \* Celery worker processes
    NoJob,        \* the job of an idle worker
    MaxAttempts,  \* AnalysisJob.max_attempts
    MaxMessages,  \* bound: the publisher waits at this broker queue length
    MaxCrashes,   \* bound: worker processes lost in a behaviour
    Faults        \* the faults considered, beside crashes

\* "task_error": a database or broker error raised in a task, whose message
\* Celery then acknowledges.  "slow_worker": a live worker whose heartbeats
\* stop reaching the database for longer than the lease.
ASSUME ConstantsOK ==
    /\ NoJob \notin Jobs
    /\ MaxAttempts \in Nat \ {0}
    /\ MaxMessages \in Nat \ {0}
    /\ MaxCrashes \in Nat
    /\ Faults \subseteq {"task_error", "slow_worker"}

VARIABLES
    status,     \* AnalysisJob.status, "NONE" before the upload is completed
    attempt,    \* AnalysisJob.attempt_count
    fresh,      \* heartbeat_at is later than now - lease
    doc,        \* DocumentVersion.status
    resultOf,   \* the attempt whose evaluation was committed last, 0 for none
    dispatch,   \* the AnalysisJobDispatch row: "none", "due" or "later"
    publisher,  \* the transaction that holds the dispatch row
    broker,     \* messages waiting in the broker
    pc,         \* what a worker is doing
    wjob,       \* the job of the message a worker handles
    claimed,    \* the attempt a worker claimed
    outcome,    \* job_outcome of the evaluation
    crashes

jobVars == <<status, attempt, fresh, doc, resultOf>>
queueVars == <<dispatch, publisher, broker>>
workerVars == <<pc, wjob, claimed, outcome>>
vars == <<jobVars, queueVars, workerVars, crashes>>

JobStatus == {"NONE", "QUEUED", "RUNNING", "DONE", "ERROR"}
DocumentStatus == {"UPLOADING", "QUEUED", "PROCESSING", "AWAITING_REVIEW",
                   "INVALID", "PROCESSING_FAILED"}

\* "failure" stands for storage_error, ir_extraction_error and
\* evaluation_error; "stamping" for an evaluation that has a snapshot to write.
Outcomes == {"success", "validation_error", "failure", "stamping"}

TypeOK ==
    /\ status \in [Jobs -> JobStatus]
    /\ attempt \in [Jobs -> 0..MaxAttempts]
    /\ fresh \in [Jobs -> BOOLEAN]
    /\ doc \in [Jobs -> DocumentStatus]
    /\ resultOf \in [Jobs -> 0..MaxAttempts]
    /\ dispatch \in [Jobs -> {"none", "due", "later"}]
    /\ publisher \in [Jobs -> {"idle", "locked", "sent", "failed"}]
    /\ broker \in [Jobs -> Nat]
    /\ pc \in [Workers -> {"idle", "miss", "claim", "load", "hold", "stamp"}]
    /\ wjob \in [Workers -> Jobs \union {NoJob}]
    /\ claimed \in [Workers -> 0..MaxAttempts]
    /\ outcome \in [Workers -> Outcomes \union {"none"}]
    /\ crashes \in Nat

Init ==
    /\ status = [j \in Jobs |-> "NONE"]
    /\ attempt = [j \in Jobs |-> 0]
    /\ fresh = [j \in Jobs |-> FALSE]
    /\ doc = [j \in Jobs |-> "UPLOADING"]
    /\ resultOf = [j \in Jobs |-> 0]
    /\ dispatch = [j \in Jobs |-> "none"]
    /\ publisher = [j \in Jobs |-> "idle"]
    /\ broker = [j \in Jobs |-> 0]
    /\ pc = [w \in Workers |-> "idle"]
    /\ wjob = [w \in Workers |-> NoJob]
    /\ claimed = [w \in Workers |-> 0]
    /\ outcome = [w \in Workers |-> "none"]
    /\ crashes = 0

-------------------------------------------------------------------------------
(* Row locks and derived notions.                                          *)

Running == {"load", "hold", "stamp"}

Runs(w, j) == wjob[w] = j /\ pc[w] \in Running

\* Worker w evaluates the attempt the job is in.
IsCurrent(w, j) == Runs(w, j) /\ claimed[w] = attempt[j]

HasJobRow(w, j) == wjob[w] = j /\ pc[w] \in {"claim", "stamp"}
HasDocumentRow(w, j) == wjob[w] = j /\ pc[w] \in {"hold", "stamp"}

JobRowFree(j) == \A w \in Workers : ~HasJobRow(w, j)
DocumentRowFree(j) == \A w \in Workers : ~HasDocumentRow(w, j)

\* The heartbeat task of w can still update the row of its job.
Beats(w, j) ==
    /\ IsCurrent(w, j)
    /\ status[j] = "RUNNING"
    /\ JobRowFree(j)

\* What claim_job_by_id selects: a queued job or a stale running one.
Claimable(j) == status[j] = "QUEUED" \/ (status[j] = "RUNNING" /\ ~fresh[j])

\* Mutant: one attempt too many.
AttemptsLeftOffByOne(j) == attempt[j] <= MaxAttempts

AttemptsLeft(j) == attempt[j] < MaxAttempts

\* INSERT ... ON CONFLICT DO NOTHING: a row that exists, locked by the
\* publisher or not, stays as it is.
EnsureDispatch(j) ==
    dispatch' = [dispatch EXCEPT ![j] = IF @ = "none" THEN "due" ELSE @]

\* INSERT ... ON CONFLICT DO UPDATE waits for the transaction that holds the row.
UpsertDispatch(j, when) ==
    /\ publisher[j] = "idle"
    /\ dispatch' = [dispatch EXCEPT ![j] = when]

Release(w) ==
    /\ pc' = [pc EXCEPT ![w] = "idle"]
    /\ wjob' = [wjob EXCEPT ![w] = NoJob]
    /\ claimed' = [claimed EXCEPT ![w] = 0]
    /\ outcome' = [outcome EXCEPT ![w] = "none"]

-------------------------------------------------------------------------------
(* The API process.                                                        *)

\* Mutant: a repeated completion queues the document and the job again.
CompleteUploadTwice(j) ==
    /\ status' = [status EXCEPT ![j] = "QUEUED"]
    /\ doc' = [doc EXCEPT ![j] = "QUEUED"]
    /\ EnsureDispatch(j)
    /\ UNCHANGED <<attempt, fresh, resultOf, publisher, broker, workerVars, crashes>>

\* complete_upload of a new document: it is queued with its job and dispatch.
CompleteUpload(j) ==
    /\ status[j] = "NONE"
    /\ status' = [status EXCEPT ![j] = "QUEUED"]
    /\ doc' = [doc EXCEPT ![j] = "QUEUED"]
    /\ EnsureDispatch(j)
    /\ UNCHANGED <<attempt, fresh, resultOf, publisher, broker, workerVars, crashes>>

\* complete_upload called again: the job is returned, and woken if still queued.
CompleteAgain(j) ==
    /\ status[j] = "QUEUED"
    /\ DocumentRowFree(j)
    /\ EnsureDispatch(j)
    /\ UNCHANGED <<jobVars, publisher, broker, workerVars, crashes>>

\* retry_job: a failed job with attempts left goes back to the queue.
RetryJob(j) ==
    /\ status[j] = "ERROR"
    /\ AttemptsLeft(j)
    /\ JobRowFree(j)
    /\ DocumentRowFree(j)
    /\ status' = [status EXCEPT ![j] = "QUEUED"]
    /\ doc' = [doc EXCEPT ![j] = "QUEUED"]
    /\ fresh' = [fresh EXCEPT ![j] = FALSE]
    /\ UpsertDispatch(j, "due")
    /\ UNCHANGED <<attempt, resultOf, publisher, broker, workerVars, crashes>>

-------------------------------------------------------------------------------
(* The outbox publisher: the poller, or the dispatch after a commit.  The  *)
(* row lock (FOR UPDATE SKIP LOCKED) keeps one transaction per row.        *)

DispatchDue(j) ==
    /\ dispatch[j] = "later"
    /\ dispatch' = [dispatch EXCEPT ![j] = "due"]
    /\ UNCHANGED <<jobVars, publisher, broker, workerVars, crashes>>

LockDispatch(j) ==
    /\ dispatch[j] = "due"
    /\ publisher[j] = "idle"
    /\ publisher' = [publisher EXCEPT ![j] = "locked"]
    /\ UNCHANGED <<jobVars, dispatch, broker, workerVars, crashes>>

Publish(j) ==
    /\ publisher[j] = "locked"
    /\ broker[j] < MaxMessages
    /\ publisher' = [publisher EXCEPT ![j] = "sent"]
    /\ broker' = [broker EXCEPT ![j] = @ + 1]
    /\ UNCHANGED <<jobVars, dispatch, workerVars, crashes>>

\* The publish call fails, or times out while the shielded call goes on and
\* the broker accepts the message anyway.
PublishFails(j) ==
    /\ publisher[j] = "locked"
    /\ publisher' = [publisher EXCEPT ![j] = "failed"]
    /\ \/ UNCHANGED broker
       \/ /\ broker[j] < MaxMessages
          /\ broker' = [broker EXCEPT ![j] = @ + 1]
    /\ UNCHANGED <<jobVars, dispatch, workerVars, crashes>>

\* Mutant: the row is deleted whatever became of its message.
CommitDispatchAlways(j) ==
    /\ publisher[j] \in {"sent", "failed"}
    /\ publisher' = [publisher EXCEPT ![j] = "idle"]
    /\ dispatch' = [dispatch EXCEPT ![j] = "none"]
    /\ UNCHANGED <<jobVars, broker, workerVars, crashes>>

\* The row is deleted once its message was accepted, and backed off otherwise.
CommitDispatch(j) ==
    /\ publisher[j] \in {"sent", "failed"}
    /\ publisher' = [publisher EXCEPT ![j] = "idle"]
    /\ dispatch' = [dispatch EXCEPT
                      ![j] = IF publisher[j] = "sent" THEN "none" ELSE "later"]
    /\ UNCHANGED <<jobVars, broker, workerVars, crashes>>

\* A rollback, or the loss of the API process: the row is due as before.
AbortDispatch(j) ==
    /\ publisher[j] # "idle"
    /\ publisher' = [publisher EXCEPT ![j] = "idle"]
    /\ UNCHANGED <<jobVars, dispatch, broker, workerVars, crashes>>

-------------------------------------------------------------------------------
(* First transaction of a worker: the claim.                               *)

ClaimLock(w, j) ==
    /\ pc[w] = "idle"
    /\ broker[j] > 0
    /\ Claimable(j)
    /\ JobRowFree(j)
    /\ broker' = [broker EXCEPT ![j] = @ - 1]
    /\ pc' = [pc EXCEPT ![w] = "claim"]
    /\ wjob' = [wjob EXCEPT ![w] = j]
    /\ UNCHANGED <<jobVars, dispatch, publisher, claimed, outcome, crashes>>

\* The row is locked by another transaction or not to be claimed.
ClaimMiss(w, j) ==
    /\ pc[w] = "idle"
    /\ broker[j] > 0
    /\ ~(Claimable(j) /\ JobRowFree(j))
    /\ broker' = [broker EXCEPT ![j] = @ - 1]
    /\ pc' = [pc EXCEPT ![w] = "miss"]
    /\ wjob' = [wjob EXCEPT ![w] = j]
    /\ UNCHANGED <<jobVars, dispatch, publisher, claimed, outcome, crashes>>

\* active_lease_retry_delay reads the committed status, without a lock.
MissDrop(w) ==
    /\ pc[w] = "miss"
    /\ status[wjob[w]] # "RUNNING"
    /\ Release(w)
    /\ UNCHANGED <<jobVars, queueVars, crashes>>

\* Mutant: a message that finds a live lease is dropped too.
MissForgets(w) ==
    /\ pc[w] = "miss"
    /\ status[wjob[w]] = "RUNNING"
    /\ Release(w)
    /\ UNCHANGED <<jobVars, queueVars, crashes>>

\* The wake-up is put off to the end of the lease twice: by a dispatch row
\* and by a retry of the Celery task, which the broker may refuse.
MissDefer(w) ==
    LET j == wjob[w] IN
    /\ pc[w] = "miss"
    /\ status[j] = "RUNNING"
    /\ UpsertDispatch(j, "later")
    /\ \/ broker' = [broker EXCEPT ![j] = @ + 1]
       \/ "task_error" \in Faults /\ UNCHANGED broker
    /\ Release(w)
    /\ UNCHANGED <<jobVars, publisher, crashes>>

\* Mutant: a takeover goes on with the attempt it found.
MarkRunningAgain(w, j) ==
    /\ status' = [status EXCEPT ![j] = "RUNNING"]
    /\ attempt' = [attempt EXCEPT ![j] = IF status[j] = "QUEUED" THEN @ + 1 ELSE @]
    /\ fresh' = [fresh EXCEPT ![j] = TRUE]
    /\ doc' = [doc EXCEPT ![j] = "PROCESSING"]
    /\ pc' = [pc EXCEPT ![w] = "load"]
    /\ claimed' = [claimed EXCEPT ![w] = attempt'[j]]
    /\ UNCHANGED <<resultOf, wjob, outcome>>

\* _mark_running, committed: a new attempt with a fresh lease.
MarkRunning(w, j) ==
    /\ status' = [status EXCEPT ![j] = "RUNNING"]
    /\ attempt' = [attempt EXCEPT ![j] = @ + 1]
    /\ fresh' = [fresh EXCEPT ![j] = TRUE]
    /\ doc' = [doc EXCEPT ![j] = "PROCESSING"]
    /\ pc' = [pc EXCEPT ![w] = "load"]
    /\ claimed' = [claimed EXCEPT ![w] = attempt[j] + 1]
    /\ UNCHANGED <<resultOf, wjob, outcome>>

ClaimQueued(w) ==
    LET j == wjob[w] IN
    /\ pc[w] = "claim"
    /\ status[j] = "QUEUED"
    /\ DocumentRowFree(j)
    /\ MarkRunning(w, j)
    /\ UNCHANGED <<queueVars, crashes>>

\* A stale attempt is put back to QUEUED, where the outbox trigger fires, and
\* claimed in the same transaction.
ClaimStale(w) ==
    LET j == wjob[w] IN
    /\ pc[w] = "claim"
    /\ status[j] = "RUNNING"
    /\ AttemptsLeft(j)
    /\ DocumentRowFree(j)
    /\ MarkRunning(w, j)
    /\ EnsureDispatch(j)
    /\ UNCHANGED <<publisher, broker, crashes>>

\* LEASE_EXPIRED: a stale last attempt ends the job.
GiveUp(w) ==
    LET j == wjob[w] IN
    /\ pc[w] = "claim"
    /\ status[j] = "RUNNING"
    /\ ~AttemptsLeft(j)
    /\ DocumentRowFree(j)
    /\ status' = [status EXCEPT ![j] = "ERROR"]
    /\ doc' = [doc EXCEPT ![j] = "PROCESSING_FAILED"]
    /\ Release(w)
    /\ UNCHANGED <<attempt, fresh, resultOf, queueVars, crashes>>

-------------------------------------------------------------------------------
(* Second transaction of a worker: the evaluation.                         *)

\* The document row is locked before anything is written: by
\* get_or_build_document_ir, or by the flush of a storage failure.
LockDocument(w) ==
    /\ pc[w] = "load"
    /\ DocumentRowFree(wjob[w])
    /\ pc' = [pc EXCEPT ![w] = "hold"]
    /\ \E o \in Outcomes : outcome' = [outcome EXCEPT ![w] = o]
    /\ UNCHANGED <<jobVars, queueVars, wjob, claimed, crashes>>

\* evaluate_citations writes job.snapshot; the next flush updates the job row
\* by its id, whatever its status and attempt, and keeps it locked.
StampSnapshot(w) ==
    /\ pc[w] = "hold"
    /\ outcome[w] = "stamping"
    /\ JobRowFree(wjob[w])
    /\ pc' = [pc EXCEPT ![w] = "stamp"]
    /\ \E o \in {"success", "failure"} : outcome' = [outcome EXCEPT ![w] = o]
    /\ UNCHANGED <<jobVars, queueVars, wjob, claimed, crashes>>

\* The update of mark_done or mark_error matches the row (it waits for a
\* claimer that holds it), and the transaction commits.
ReadyToFinish(w) == pc[w] = "stamp" \/ (pc[w] = "hold" /\ outcome[w] # "stamping")

\* Mutants: the compare-and-set forgets the attempt, or the status.
MatchesStatus(w, j) == status[j] = "RUNNING"
MatchesAttempt(w, j) == attempt[j] = claimed[w]

MatchesClaim(w, j) == status[j] = "RUNNING" /\ attempt[j] = claimed[w]

FinishedDocument ==
    [success |-> "AWAITING_REVIEW", validation_error |-> "INVALID",
     failure |-> "PROCESSING_FAILED"]

Finish(w) ==
    LET j == wjob[w] IN
    /\ ReadyToFinish(w)
    /\ MatchesClaim(w, j)
    /\ \A v \in Workers \ {w} : ~HasJobRow(v, j)
    /\ status' = [status EXCEPT ![j] = IF outcome[w] = "success" THEN "DONE" ELSE "ERROR"]
    /\ doc' = [doc EXCEPT ![j] = FinishedDocument[outcome[w]]]
    /\ resultOf' = [resultOf EXCEPT ![j] = claimed[w]]
    /\ Release(w)
    /\ UNCHANGED <<attempt, fresh, queueVars, crashes>>

\* The update matches no row: everything is rolled back, the message consumed.
FinishTooLate(w) ==
    /\ ReadyToFinish(w)
    /\ ~MatchesClaim(w, wjob[w])
    /\ Release(w)
    /\ UNCHANGED <<jobVars, queueVars, crashes>>

\* update_heartbeat of the current attempt renews the lease.
Heartbeat(w) ==
    LET j == wjob[w] IN
    /\ pc[w] \in Running
    /\ Beats(w, j)
    /\ ~fresh[j]
    /\ fresh' = [fresh EXCEPT ![j] = TRUE]
    /\ UNCHANGED <<status, attempt, doc, resultOf, queueVars, workerVars, crashes>>

-------------------------------------------------------------------------------
(* Time and faults.                                                        *)

\* The heartbeat period is shorter than the lease, so only a worker that
\* cannot reach the row lets the lease expire, unless workers may be slow.
LeaseExpires(j) ==
    /\ status[j] = "RUNNING"
    /\ fresh[j]
    /\ "slow_worker" \in Faults \/ \A w \in Workers : ~Beats(w, j)
    /\ fresh' = [fresh EXCEPT ![j] = FALSE]
    /\ UNCHANGED <<status, attempt, doc, resultOf, queueVars, workerVars, crashes>>

\* task_reject_on_worker_lost: the transaction is lost, the message is not.
Crash(w) ==
    /\ pc[w] # "idle"
    /\ crashes < MaxCrashes
    /\ crashes' = crashes + 1
    /\ broker' = [broker EXCEPT ![wjob[w]] = @ + 1]
    /\ Release(w)
    /\ UNCHANGED <<jobVars, dispatch, publisher>>

\* An exception rolls the transaction back, and Celery acknowledges the message.
TaskFails(w) ==
    /\ "task_error" \in Faults
    /\ pc[w] # "idle"
    /\ Release(w)
    /\ UNCHANGED <<jobVars, queueVars, crashes>>

\* A claimer holds the job row and waits for the document row, an evaluation
\* the other way round: PostgreSQL aborts one of them, and its task fails.
Deadlocked(claimer, evaluator) ==
    /\ pc[claimer] = "claim"
    /\ pc[evaluator] = "hold"
    /\ wjob[claimer] = wjob[evaluator]
    /\ outcome[evaluator] = "stamping" \/ MatchesClaim(evaluator, wjob[evaluator])

\* retry_job too locks the job row before the document row.
RetryDeadlocked(evaluator) ==
    /\ pc[evaluator] = "hold"
    /\ outcome[evaluator] = "stamping"
    /\ status[wjob[evaluator]] = "ERROR"
    /\ AttemptsLeft(wjob[evaluator])

DeadlockVictim(w) ==
    /\ RetryDeadlocked(w) \/ \E v \in Workers : Deadlocked(w, v) \/ Deadlocked(v, w)
    /\ Release(w)
    /\ UNCHANGED <<jobVars, queueVars, crashes>>

-------------------------------------------------------------------------------

Api(j) == CompleteUpload(j) \/ CompleteAgain(j) \/ RetryJob(j)

Publisher(j) ==
    \/ DispatchDue(j) \/ LockDispatch(j) \/ Publish(j) \/ PublishFails(j)
    \/ CommitDispatch(j) \/ AbortDispatch(j)

Deliver(j) == \E w \in Workers : ClaimLock(w, j) \/ ClaimMiss(w, j)

Work(w) ==
    \/ MissDrop(w) \/ MissDefer(w)
    \/ ClaimQueued(w) \/ ClaimStale(w) \/ GiveUp(w)
    \/ LockDocument(w) \/ StampSnapshot(w) \/ Finish(w) \/ FinishTooLate(w)
    \/ DeadlockVictim(w)

Next ==
    \/ \E j \in Jobs : Api(j) \/ Publisher(j) \/ Deliver(j) \/ LeaseExpires(j)
    \/ \E w \in Workers : Work(w) \/ Heartbeat(w) \/ Crash(w) \/ TaskFails(w)

Spec == Init /\ [][Next]_vars

\* The poller runs every second, its publish calls time out, and a worker that
\* can go on does; a waiter for a row lock gets it in the end, and a broker
\* that is asked again and again accepts a message in the end.
Fairness ==
    /\ \A w \in Workers : WF_vars(Work(w)) /\ SF_vars(MissDefer(w))
    /\ \A j \in Jobs :
          /\ WF_vars(Deliver(j))
          /\ WF_vars(LeaseExpires(j))
          /\ WF_vars(DispatchDue(j))
          /\ WF_vars(LockDispatch(j))
          /\ WF_vars(Publish(j) \/ PublishFails(j) \/ CommitDispatch(j))
          /\ SF_vars(Publish(j))

FairSpec == Spec /\ Fairness

-------------------------------------------------------------------------------
(* Properties.                                                             *)

\* The document is in the state its job is in, whatever worker, retry or
\* expired lease moved the job last.
DocumentFollowsJob ==
    \A j \in Jobs :
        /\ status[j] = "QUEUED" => doc[j] = "QUEUED"
        /\ status[j] = "RUNNING" => doc[j] = "PROCESSING"
        /\ status[j] = "DONE" => doc[j] = "AWAITING_REVIEW"
        /\ status[j] = "ERROR" => doc[j] \in {"INVALID", "PROCESSING_FAILED"}

\* Redelivered and duplicated messages never put two workers on one attempt.
OneWorkerPerAttempt ==
    \A j \in Jobs : \A v, w \in Workers :
        Runs(v, j) /\ Runs(w, j) /\ claimed[v] = claimed[w] => v = w

\* What a finished job shows was computed by its last attempt: a worker that
\* lost its lease neither finishes the job nor replaces a newer result.
ResultOfLastAttempt ==
    \A j \in Jobs :
        /\ status[j] = "DONE" => resultOf[j] = attempt[j]
        /\ resultOf[j] = attempt[j] /\ attempt[j] > 0 => status[j] # "RUNNING"

NoStaleOverwrite == [][\A j \in Jobs : resultOf'[j] >= resultOf[j]]_vars

\* A worker that stamped its snapshot keeps its attempt to the end of its
\* transaction, although its heartbeats wait for that very transaction.
StampPinsAttempt ==
    [][\A w \in Workers, j \in Jobs :
          /\ pc[w] = "stamp" /\ pc'[w] = "stamp"
          /\ IsCurrent(w, j)
          => attempt'[j] = attempt[j] /\ status'[j] = status[j]]_vars

\* Something will look at job j again: an outbox row, a message, a worker that
\* claims it, runs its current attempt or is about to put it off.
WakeUpPending(j) ==
    \/ dispatch[j] # "none"
    \/ broker[j] > 0
    \/ \E w \in Workers :
          \/ wjob[w] = j /\ pc[w] = "claim"
          \/ wjob[w] = j /\ pc[w] = "miss" /\ status[j] = "RUNNING"
          \/ IsCurrent(w, j)

\* No unfinished job is forgotten.
NoLostWakeUp ==
    \A j \in Jobs : status[j] \in {"QUEUED", "RUNNING"} => WakeUpPending(j)

\* A submitted job ends, and so does every retry of it.
EveryJobEnds ==
    \A j \in Jobs : status[j] \in {"QUEUED", "RUNNING"} ~> status[j] \in {"DONE", "ERROR"}

\* A running job whose lease ran out does not stay in that attempt: it is
\* claimed again, ends, or is given up.
StaleJobReclaimed ==
    \A j \in Jobs, n \in 1..MaxAttempts :
        status[j] = "RUNNING" /\ attempt[j] = n /\ ~fresh[j]
            ~> ~(status[j] = "RUNNING" /\ attempt[j] = n)

\* The pipeline implements the documented lifecycle of a job and its document.
Lifecycle == INSTANCE JobLifecycle
ImplementsLifecycle == Lifecycle!Spec
===============================================================================
