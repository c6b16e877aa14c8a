--------------------------- MODULE AnalysisJobProofs ---------------------------
(***************************************************************************)
(* Theorems about AnalysisJob for every number of jobs, workers, attempts, *)
(* messages and crashes.                                                   *)
(***************************************************************************)
EXTENDS AnalysisJob, TLAPS

\* attempt stays within MaxAttempts because a job is queued only with an
\* attempt left, which makes TypeOK inductive.
QueuedHasAttemptLeft ==
    \A j \in Jobs :
        /\ status[j] = "NONE" => attempt[j] = 0
        /\ status[j] = "QUEUED" => attempt[j] < MaxAttempts

\* What a busy worker remembers of its job.
WorkerKnowsJob ==
    \A w \in Workers :
        /\ pc[w] # "idle" => wjob[w] \in Jobs
        /\ pc[w] \in Running =>
              /\ claimed[w] >= 1
              /\ claimed[w] <= attempt[wjob[w]]
        /\ pc[w] = "hold" => outcome[w] \in Outcomes
        /\ pc[w] = "stamp" => outcome[w] \in {"success", "failure"}

TypeInv == TypeOK /\ QueuedHasAttemptLeft /\ WorkerKnowsJob

LEMMA InitTypeInv == Init => TypeInv
BY ConstantsOK DEF Init, TypeInv, TypeOK, QueuedHasAttemptLeft, WorkerKnowsJob,
                   JobStatus, DocumentStatus, Running

LEMMA NextTypeInv == TypeInv /\ [Next]_vars => TypeInv'
<1> SUFFICES ASSUME TypeInv, [Next]_vars PROVE TypeInv'
  OBVIOUS
<1> USE ConstantsOK DEF TypeInv, TypeOK, QueuedHasAttemptLeft, WorkerKnowsJob,
        JobStatus, DocumentStatus, Outcomes, Running, AttemptsLeft, jobVars,
        queueVars, workerVars
<1>1. ASSUME NEW j \in Jobs, Api(j) PROVE TypeInv'
  <2>1. CASE CompleteUpload(j) BY <2>1 DEF CompleteUpload, EnsureDispatch
  <2>2. CASE CompleteAgain(j) BY <2>2 DEF CompleteAgain, EnsureDispatch
  <2>3. CASE RetryJob(j) BY <2>3 DEF RetryJob, UpsertDispatch
  <2> QED BY <1>1, <2>1, <2>2, <2>3 DEF Api
<1>2. ASSUME NEW j \in Jobs, Publisher(j) PROVE TypeInv'
  BY <1>2 DEF Publisher, DispatchDue, LockDispatch, Publish, PublishFails,
              CommitDispatch, AbortDispatch
<1>3. ASSUME NEW j \in Jobs, NEW w \in Workers, ClaimLock(w, j) \/ ClaimMiss(w, j)
      PROVE TypeInv'
  BY <1>3 DEF ClaimLock, ClaimMiss
<1>4. ASSUME NEW j \in Jobs, LeaseExpires(j) PROVE TypeInv'
  BY <1>4 DEF LeaseExpires
<1>5. ASSUME NEW w \in Workers, Work(w) PROVE TypeInv'
  <2>1. CASE MissDrop(w) \/ FinishTooLate(w) \/ DeadlockVictim(w)
    BY <2>1 DEF MissDrop, FinishTooLate, DeadlockVictim, Release
  <2>2. CASE MissDefer(w) BY <2>2 DEF MissDefer, UpsertDispatch, Release
  <2>3. CASE ClaimQueued(w) BY <2>3 DEF ClaimQueued, MarkRunning
  <2>4. CASE ClaimStale(w) BY <2>4 DEF ClaimStale, MarkRunning, EnsureDispatch
  <2>5. CASE GiveUp(w) BY <2>5 DEF GiveUp, Release
  <2>6. CASE LockDocument(w) BY <2>6 DEF LockDocument
  <2>7. CASE StampSnapshot(w) BY <2>7 DEF StampSnapshot
  <2>8. CASE Finish(w)
    BY <2>8 DEF Finish, ReadyToFinish, MatchesClaim, FinishedDocument, Release
  <2> QED BY <1>5, <2>1, <2>2, <2>3, <2>4, <2>5, <2>6, <2>7, <2>8 DEF Work
<1>6. ASSUME NEW w \in Workers, Heartbeat(w) PROVE TypeInv'
  BY <1>6 DEF Heartbeat
<1>7. ASSUME NEW w \in Workers, Crash(w) \/ TaskFails(w) PROVE TypeInv'
  BY <1>7 DEF Crash, TaskFails, Release
<1>8. CASE UNCHANGED vars BY <1>8 DEF vars
<1> QED BY <1>1, <1>2, <1>3, <1>4, <1>5, <1>6, <1>7, <1>8 DEF Next, Deliver

\* Every variable keeps its type: in particular no job is ever attempted more
\* than MaxAttempts times, however often it is retried, redelivered or reclaimed.
THEOREM TypeCorrect == Spec => []TypeOK
<1>1. TypeInv => TypeOK BY DEF TypeInv
<1> QED BY InitTypeInv, NextTypeInv, <1>1, PTL DEF Spec

-------------------------------------------------------------------------------
(* Safety of the lifecycle.                                                *)

\* The row locks: two transactions never hold the same row.
RowsHeldOnce ==
    \A j \in Jobs : \A v, w \in Workers :
        /\ HasJobRow(v, j) /\ HasJobRow(w, j) => v = w
        /\ HasDocumentRow(v, j) /\ HasDocumentRow(w, j) => v = w

\* A result belongs to an attempt that was opened; a running attempt has none.
ResultsAreOld ==
    \A j \in Jobs : resultOf[j] <= attempt[j]

SafetyInv ==
    /\ TypeInv
    /\ DocumentFollowsJob
    /\ OneWorkerPerAttempt
    /\ RowsHeldOnce
    /\ ResultsAreOld
    /\ ResultOfLastAttempt

LEMMA InitSafetyInv == Init => SafetyInv
<1> SUFFICES ASSUME Init PROVE SafetyInv
  OBVIOUS
<1>1. TypeInv BY InitTypeInv
<1>2. DocumentFollowsJob BY DEF Init, DocumentFollowsJob
<1>3. OneWorkerPerAttempt BY DEF Init, OneWorkerPerAttempt, Runs, Running
<1>4. RowsHeldOnce BY DEF Init, RowsHeldOnce, HasJobRow, HasDocumentRow
<1>5. ResultsAreOld /\ ResultOfLastAttempt BY DEF Init, ResultsAreOld, ResultOfLastAttempt
<1> QED BY <1>1, <1>2, <1>3, <1>4, <1>5 DEF SafetyInv

LEMMA NextDocumentFollowsJob ==
    TypeInv /\ DocumentFollowsJob /\ [Next]_vars => DocumentFollowsJob'
<1> SUFFICES ASSUME TypeInv, DocumentFollowsJob, [Next]_vars PROVE DocumentFollowsJob'
  OBVIOUS
<1> USE DEF TypeInv, TypeOK, WorkerKnowsJob, DocumentFollowsJob, Outcomes, jobVars
<1>1. ASSUME NEW j \in Jobs, Api(j) PROVE DocumentFollowsJob'
  BY <1>1 DEF Api, CompleteUpload, CompleteAgain, RetryJob
<1>2. ASSUME NEW w \in Workers, Work(w) PROVE DocumentFollowsJob'
  <2>1. CASE ClaimQueued(w) \/ ClaimStale(w)
    BY <2>1 DEF ClaimQueued, ClaimStale, MarkRunning
  <2>2. CASE GiveUp(w) BY <2>2 DEF GiveUp
  <2>3. CASE Finish(w) BY <2>3 DEF Finish, ReadyToFinish, FinishedDocument
  <2>4. CASE UNCHANGED jobVars BY <2>4
  <2> QED
    BY <1>2, <2>1, <2>2, <2>3, <2>4
    DEF Work, MissDrop, MissDefer, LockDocument, StampSnapshot, FinishTooLate, DeadlockVictim
<1>3. ASSUME UNCHANGED <<status, doc>> PROVE DocumentFollowsJob'
  BY <1>3
<1> QED
  BY <1>1, <1>2, <1>3
  DEF Next, Publisher, DispatchDue, LockDispatch, Publish, PublishFails,
      CommitDispatch, AbortDispatch, Deliver, ClaimLock, ClaimMiss, LeaseExpires,
      Heartbeat, Crash, TaskFails, vars

LEMMA NextOneWorkerPerAttempt ==
    TypeInv /\ OneWorkerPerAttempt /\ [Next]_vars => OneWorkerPerAttempt'
<1> SUFFICES ASSUME TypeInv, OneWorkerPerAttempt, [Next]_vars PROVE OneWorkerPerAttempt'
  OBVIOUS
<1> USE DEF TypeInv, TypeOK, WorkerKnowsJob, OneWorkerPerAttempt, Runs, Running, workerVars
<1>1. ASSUME NEW j \in Jobs, NEW w \in Workers, ClaimLock(w, j) \/ ClaimMiss(w, j)
      PROVE OneWorkerPerAttempt'
  BY <1>1 DEF ClaimLock, ClaimMiss
<1>2. ASSUME NEW w \in Workers, ClaimQueued(w) \/ ClaimStale(w)
      PROVE OneWorkerPerAttempt'
  BY <1>2 DEF ClaimQueued, ClaimStale, MarkRunning
<1>3. ASSUME NEW w \in Workers, LockDocument(w) \/ StampSnapshot(w)
      PROVE OneWorkerPerAttempt'
  BY <1>3 DEF LockDocument, StampSnapshot
<1>4. ASSUME NEW w \in Workers, Release(w) PROVE OneWorkerPerAttempt'
  BY <1>4 DEF Release
<1>5. ASSUME UNCHANGED workerVars PROVE OneWorkerPerAttempt'
  BY <1>5
<1> QED
  BY <1>1, <1>2, <1>3, <1>4, <1>5
  DEF Next, Api, CompleteUpload, CompleteAgain, RetryJob, Publisher, DispatchDue,
      LockDispatch, Publish, PublishFails, CommitDispatch, AbortDispatch, Deliver,
      LeaseExpires, Heartbeat, Crash, TaskFails, Work, MissDrop, MissDefer, GiveUp,
      Finish, FinishTooLate, DeadlockVictim, vars

LEMMA NextRowsHeldOnce ==
    TypeInv /\ RowsHeldOnce /\ [Next]_vars => RowsHeldOnce'
<1> SUFFICES ASSUME TypeInv, RowsHeldOnce, [Next]_vars PROVE RowsHeldOnce'
  OBVIOUS
<1> USE DEF TypeInv, TypeOK, WorkerKnowsJob, RowsHeldOnce, HasJobRow, HasDocumentRow,
        workerVars
<1>1. ASSUME NEW j \in Jobs, NEW w \in Workers, ClaimLock(w, j) \/ ClaimMiss(w, j)
      PROVE RowsHeldOnce'
  <2>1. CASE ClaimLock(w, j) BY <2>1 DEF ClaimLock, JobRowFree
  <2>2. CASE ClaimMiss(w, j)
    <3>1. \A i \in Jobs, v \in Workers :
            /\ HasJobRow(v, i)' => HasJobRow(v, i)
            /\ HasDocumentRow(v, i)' => HasDocumentRow(v, i)
      BY <2>2 DEF ClaimMiss
    <3> QED BY <3>1
  <2> QED BY <1>1, <2>1, <2>2
<1>2. ASSUME NEW w \in Workers, ClaimQueued(w) \/ ClaimStale(w) PROVE RowsHeldOnce'
  <2>1. MarkRunning(w, wjob[w])
    BY <1>2 DEF ClaimQueued, ClaimStale
  <2>2. \A i \in Jobs, v \in Workers :
          /\ HasJobRow(v, i)' => HasJobRow(v, i)
          /\ HasDocumentRow(v, i)' => HasDocumentRow(v, i)
    BY <2>1 DEF MarkRunning
  <2> QED BY <2>2
<1>3. ASSUME NEW w \in Workers, LockDocument(w) PROVE RowsHeldOnce'
  BY <1>3, wjob[w] \in Jobs DEF LockDocument, DocumentRowFree
<1>4. ASSUME NEW w \in Workers, StampSnapshot(w) PROVE RowsHeldOnce'
  BY <1>4, wjob[w] \in Jobs DEF StampSnapshot, JobRowFree
<1>5. ASSUME NEW w \in Workers, Release(w) PROVE RowsHeldOnce'
  BY <1>5 DEF Release
<1>6. ASSUME UNCHANGED workerVars PROVE RowsHeldOnce'
  BY <1>6
<1> QED
  BY <1>1, <1>2, <1>3, <1>4, <1>5, <1>6
  DEF Next, Api, CompleteUpload, CompleteAgain, RetryJob, Publisher, DispatchDue,
      LockDispatch, Publish, PublishFails, CommitDispatch, AbortDispatch, Deliver,
      LeaseExpires, Heartbeat, Crash, TaskFails, Work, MissDrop, MissDefer, GiveUp,
      Finish, FinishTooLate, DeadlockVictim, vars

LEMMA NextResults ==
    TypeInv /\ ResultsAreOld /\ ResultOfLastAttempt /\ [Next]_vars
        => /\ ResultsAreOld' /\ ResultOfLastAttempt'
           /\ \A j \in Jobs : resultOf'[j] >= resultOf[j]
<1> DEFINE Goal == /\ ResultsAreOld' /\ ResultOfLastAttempt'
                   /\ \A j \in Jobs : resultOf'[j] >= resultOf[j]
<1> SUFFICES ASSUME TypeInv, ResultsAreOld, ResultOfLastAttempt, [Next]_vars PROVE Goal
  OBVIOUS
<1> USE ConstantsOK DEF TypeInv, TypeOK, QueuedHasAttemptLeft, WorkerKnowsJob,
        ResultsAreOld, ResultOfLastAttempt, jobVars
<1>1. ASSUME NEW j \in Jobs, Api(j) PROVE Goal
  BY <1>1 DEF Api, CompleteUpload, CompleteAgain, RetryJob
<1>2. ASSUME NEW w \in Workers, Work(w) PROVE Goal
  <2>1. CASE ClaimQueued(w) \/ ClaimStale(w)
    BY <2>1 DEF ClaimQueued, ClaimStale, MarkRunning
  <2>2. CASE GiveUp(w) BY <2>2 DEF GiveUp
  <2>3. CASE Finish(w)
    BY <2>3 DEF Finish, ReadyToFinish, MatchesClaim, Running
  <2>4. CASE UNCHANGED jobVars BY <2>4
  <2> QED
    BY <1>2, <2>1, <2>2, <2>3, <2>4
    DEF Work, MissDrop, MissDefer, LockDocument, StampSnapshot, FinishTooLate, DeadlockVictim
<1>3. ASSUME UNCHANGED <<status, attempt, resultOf>> PROVE Goal
  BY <1>3
<1> QED
  BY <1>1, <1>2, <1>3
  DEF Next, Publisher, DispatchDue, LockDispatch, Publish, PublishFails,
      CommitDispatch, AbortDispatch, Deliver, ClaimLock, ClaimMiss, LeaseExpires,
      Heartbeat, Crash, TaskFails, vars

LEMMA NextSafetyInv == SafetyInv /\ [Next]_vars => SafetyInv'
BY NextTypeInv, NextDocumentFollowsJob, NextOneWorkerPerAttempt, NextRowsHeldOnce,
   NextResults DEF SafetyInv

LEMMA SafetyInvariant == Spec => []SafetyInv
BY InitSafetyInv, NextSafetyInv, PTL DEF Spec

\* The document never disagrees with its job, even when workers lose their
\* leases, tasks fail, transactions deadlock and jobs are retried.
THEOREM DocumentAgreesWithJob == Spec => []DocumentFollowsJob
<1>1. SafetyInv => DocumentFollowsJob BY DEF SafetyInv
<1> QED BY SafetyInvariant, <1>1, PTL

\* Duplicated and redelivered messages never give one attempt to two workers.
THEOREM AttemptsAreExclusive == Spec => []OneWorkerPerAttempt
<1>1. SafetyInv => OneWorkerPerAttempt BY DEF SafetyInv
<1> QED BY SafetyInvariant, <1>1, PTL

\* A finished job shows the result of its last attempt and no other.
THEOREM ResultsAreCurrent == Spec => []ResultOfLastAttempt
<1>1. SafetyInv => ResultOfLastAttempt BY DEF SafetyInv
<1> QED BY SafetyInvariant, <1>1, PTL

\* A worker that lost its lease never replaces the result of a later attempt.
THEOREM StaleWorkersNeverOverwrite == Spec => NoStaleOverwrite
<1>1. SafetyInv /\ [Next]_vars => [\A j \in Jobs : resultOf'[j] >= resultOf[j]]_vars
  BY NextResults DEF SafetyInv
<1> QED BY SafetyInvariant, <1>1, PTL DEF Spec, NoStaleOverwrite

-------------------------------------------------------------------------------
(* Stamped attempts.                                                       *)

LEMMA StampedStaysStep ==
    ASSUME SafetyInv, [Next]_vars, NEW w \in Workers, NEW j \in Jobs,
           pc[w] = "stamp", pc'[w] = "stamp", IsCurrent(w, j)
    PROVE attempt'[j] = attempt[j] /\ status'[j] = status[j]
<1> USE ConstantsOK DEF SafetyInv, TypeInv, TypeOK, WorkerKnowsJob, IsCurrent, Runs,
        Running, jobVars
<1>1. HasJobRow(w, j) BY DEF HasJobRow
<1>2. ASSUME NEW i \in Jobs, Api(i) PROVE attempt'[j] = attempt[j] /\ status'[j] = status[j]
  <2>1. attempt[j] # 0 BY DEF Running
  <2>2. CASE CompleteUpload(i) BY <2>1, <2>2 DEF CompleteUpload, QueuedHasAttemptLeft
  <2>3. CASE CompleteAgain(i) BY <2>3 DEF CompleteAgain
  <2>4. CASE RetryJob(i) BY <1>1, <2>4 DEF RetryJob, JobRowFree
  <2> QED BY <1>2, <2>2, <2>3, <2>4 DEF Api
<1>3. ASSUME NEW v \in Workers, ClaimQueued(v) \/ ClaimStale(v) \/ GiveUp(v)
      PROVE attempt'[j] = attempt[j] /\ status'[j] = status[j]
  <2>1. v # w /\ pc[v] = "claim" BY <1>3 DEF ClaimQueued, ClaimStale, GiveUp
  <2>2. wjob[v] # j BY <1>1, <2>1 DEF RowsHeldOnce, HasJobRow
  <2> QED BY <1>3, <2>1, <2>2 DEF ClaimQueued, ClaimStale, GiveUp, MarkRunning
<1>4. ASSUME NEW v \in Workers, Finish(v)
      PROVE attempt'[j] = attempt[j] /\ status'[j] = status[j]
  <2>1. v # w BY <1>4 DEF Finish, Release
  <2>2. wjob[v] # j BY <1>1, <1>4, <2>1 DEF Finish
  <2> QED BY <1>4, <2>2 DEF Finish, ReadyToFinish
<1>5. CASE UNCHANGED <<status, attempt>> BY <1>5
<1> QED
  BY <1>2, <1>3, <1>4, <1>5
  DEF Next, Publisher, DispatchDue, LockDispatch, Publish, PublishFails,
      CommitDispatch, AbortDispatch, Deliver, ClaimLock, ClaimMiss, LeaseExpires,
      Heartbeat, Crash, TaskFails, Work, MissDrop, MissDefer, LockDocument,
      StampSnapshot, FinishTooLate, DeadlockVictim, vars

\* The row lock taken by the snapshot replaces the heartbeats it blocks: nobody
\* takes the attempt over before the transaction ends.
THEOREM StampKeepsAttempt == Spec => StampPinsAttempt
<1>1. SafetyInv /\ [Next]_vars =>
        [\A w \in Workers, j \in Jobs :
            /\ pc[w] = "stamp" /\ pc'[w] = "stamp"
            /\ IsCurrent(w, j)
            => attempt'[j] = attempt[j] /\ status'[j] = status[j]]_vars
  BY StampedStaysStep
<1> QED BY SafetyInvariant, <1>1, PTL DEF Spec, StampPinsAttempt

-------------------------------------------------------------------------------
(* Refinement.                                                             *)

LEMMA LifecycleStep ==
    SafetyInv /\ [Next]_vars => [Lifecycle!Next]_<<status, attempt, doc>>
<1> SUFFICES ASSUME SafetyInv, [Next]_vars
             PROVE [Lifecycle!Next]_<<status, attempt, doc>>
  OBVIOUS
<1> USE DEF SafetyInv, TypeInv, TypeOK, WorkerKnowsJob, jobVars
<1>1. ASSUME NEW j \in Jobs, CompleteUpload(j) PROVE Lifecycle!Submit(j)
  BY <1>1 DEF CompleteUpload, Lifecycle!Submit, Lifecycle!Move
<1>2. ASSUME NEW j \in Jobs, RetryJob(j) PROVE Lifecycle!Retry(j)
  BY <1>2 DEF RetryJob, AttemptsLeft, Lifecycle!Retry, Lifecycle!Move
<1>3. ASSUME NEW w \in Workers, ClaimQueued(w) \/ ClaimStale(w)
      PROVE Lifecycle!Begin(wjob[w])
  BY <1>3, ConstantsOK
  DEF ClaimQueued, ClaimStale, MarkRunning, AttemptsLeft, QueuedHasAttemptLeft,
      Lifecycle!Begin, Lifecycle!Move
<1>4. ASSUME NEW w \in Workers, GiveUp(w) PROVE Lifecycle!Fail(wjob[w])
  BY <1>4 DEF GiveUp, Lifecycle!Fail, Lifecycle!Failures, Lifecycle!Move
<1>5. ASSUME NEW w \in Workers, Finish(w), outcome[w] = "success"
      PROVE Lifecycle!Succeed(wjob[w])
  BY <1>5
  DEF Finish, MatchesClaim, FinishedDocument, Lifecycle!Succeed, Lifecycle!Move
<1>6. ASSUME NEW w \in Workers, Finish(w), outcome[w] # "success"
      PROVE Lifecycle!Fail(wjob[w])
  <2>1. outcome[w] \in {"validation_error", "failure"}
    BY <1>6 DEF Finish, ReadyToFinish, Outcomes
  <2>2. FinishedDocument[outcome[w]] \in Lifecycle!Failures
    BY <2>1 DEF FinishedDocument, Lifecycle!Failures
  <2> QED
    BY <1>6, <2>2 DEF Finish, MatchesClaim, Lifecycle!Fail, Lifecycle!Move
<1>7. ASSUME NEW w \in Workers, pc[w] # "idle" PROVE wjob[w] \in Jobs
  BY <1>7
<1>8. CASE UNCHANGED <<status, attempt, doc>> BY <1>8
<1>9. ASSUME NEW w \in Workers,
             ClaimQueued(w) \/ ClaimStale(w) \/ GiveUp(w) \/ Finish(w)
      PROVE Lifecycle!Next
  <2>1. wjob[w] \in Jobs
    BY <1>9 DEF ClaimQueued, ClaimStale, GiveUp, Finish, ReadyToFinish
  <2> QED BY <1>3, <1>4, <1>5, <1>6, <1>9, <2>1 DEF Lifecycle!Next
<1>10. ASSUME NEW j \in Jobs, CompleteUpload(j) \/ RetryJob(j) PROVE Lifecycle!Next
  BY <1>1, <1>2, <1>10 DEF Lifecycle!Next
<1> QED
  BY <1>8, <1>9, <1>10
  DEF Next, Api, CompleteAgain, Publisher, DispatchDue, LockDispatch, Publish,
      PublishFails, CommitDispatch, AbortDispatch, Deliver, ClaimLock, ClaimMiss,
      LeaseExpires, Heartbeat, Crash, TaskFails, Work, MissDrop, MissDefer,
      LockDocument, StampSnapshot, FinishTooLate, DeadlockVictim, vars

\* Queue, outbox, leases and workers implement the documented job lifecycle.
THEOREM PipelineImplementsLifecycle == Spec => ImplementsLifecycle
<1>1. Init => Lifecycle!Init BY DEF Init, Lifecycle!Init
<1> QED
  BY SafetyInvariant, LifecycleStep, <1>1, PTL
  DEF Spec, ImplementsLifecycle, Lifecycle!Spec, Lifecycle!lifecycleVars

-------------------------------------------------------------------------------
(* No unfinished job is forgotten as long as workers only crash and the    *)
(* broker only refuses or duplicates messages: the theorem for             *)
(* Faults = {}.                                                            *)

\* A worker that evaluates is current, and its lease holds until it stamps.
RunnersAreCurrent ==
    \A j \in Jobs : \A w \in Workers :
        Runs(w, j) =>
            /\ IsCurrent(w, j)
            /\ status[j] = "RUNNING"
            /\ pc[w] # "stamp" => fresh[j]

\* Nobody evaluates a job that is being claimed.
ClaimsAreExclusive ==
    \A j \in Jobs : \A v, w \in Workers :
        wjob[v] = j /\ pc[v] = "claim" => ~Runs(w, j)

\* The publisher holds a row that is due, and no row precedes its job.
PublisherHoldsDueRow ==
    \A j \in Jobs :
        /\ publisher[j] # "idle" => dispatch[j] = "due"
        /\ status[j] = "NONE" => dispatch[j] = "none"

\* WakeUpPending without the row that a successful publish is about to delete.
Awake(j) ==
    \/ dispatch[j] # "none" /\ publisher[j] # "sent"
    \/ broker[j] > 0
    \/ \E w \in Workers :
          \/ wjob[w] = j /\ pc[w] = "claim"
          \/ wjob[w] = j /\ pc[w] = "miss" /\ status[j] = "RUNNING"
          \/ IsCurrent(w, j)

UnfinishedIsAwake ==
    \A j \in Jobs : status[j] \in {"QUEUED", "RUNNING"} => Awake(j)

WakeUpInv ==
    /\ TypeInv
    /\ OneWorkerPerAttempt
    /\ RowsHeldOnce
    /\ RunnersAreCurrent
    /\ ClaimsAreExclusive
    /\ PublisherHoldsDueRow
    /\ UnfinishedIsAwake

LEMMA InitWakeUpInv == Init => WakeUpInv
<1> SUFFICES ASSUME Init PROVE WakeUpInv
  OBVIOUS
<1>1. TypeInv /\ OneWorkerPerAttempt /\ RowsHeldOnce
  BY InitSafetyInv DEF SafetyInv
<1>2. RunnersAreCurrent /\ ClaimsAreExclusive /\ PublisherHoldsDueRow /\ UnfinishedIsAwake
  BY DEF Init, RunnersAreCurrent, ClaimsAreExclusive, PublisherHoldsDueRow,
         UnfinishedIsAwake, Runs, Running
<1> QED BY <1>1, <1>2 DEF WakeUpInv

LEMMA NextRunners ==
    ASSUME Faults = {}, WakeUpInv, [Next]_vars
    PROVE RunnersAreCurrent' /\ ClaimsAreExclusive'
<1> USE DEF WakeUpInv, TypeInv, TypeOK, WorkerKnowsJob, RunnersAreCurrent,
        ClaimsAreExclusive, IsCurrent, Runs, Running, jobVars, workerVars
<1> DEFINE Goal == RunnersAreCurrent' /\ ClaimsAreExclusive'
<1>1. ASSUME NEW j \in Jobs, CompleteUpload(j) PROVE Goal
  BY <1>1 DEF CompleteUpload
<1>2. ASSUME NEW j \in Jobs, RetryJob(j) PROVE Goal
  BY <1>2 DEF RetryJob
<1>3. ASSUME NEW j \in Jobs, NEW w \in Workers, ClaimLock(w, j) PROVE Goal
  <2>1. \A v \in Workers : ~Runs(v, j)
    BY <1>3 DEF ClaimLock, Claimable, JobRowFree, HasJobRow
  <2> QED BY <1>3, <2>1 DEF ClaimLock
<1>4. ASSUME NEW j \in Jobs, NEW w \in Workers, ClaimMiss(w, j) PROVE Goal
  BY <1>4 DEF ClaimMiss
<1>5. ASSUME NEW j \in Jobs, LeaseExpires(j) PROVE Goal
  <2>1. \A v \in Workers : Runs(v, j) => pc[v] = "stamp"
    <3> SUFFICES ASSUME NEW v \in Workers, Runs(v, j), pc[v] # "stamp"
                 PROVE FALSE
      OBVIOUS
    <3>1. JobRowFree(j)
      BY DEF JobRowFree, HasJobRow, OneWorkerPerAttempt
    <3> QED BY <1>5, <3>1 DEF LeaseExpires, Beats
  <2> QED BY <1>5, <2>1 DEF LeaseExpires
<1>6. ASSUME NEW w \in Workers, ClaimQueued(w) \/ ClaimStale(w) PROVE Goal
  <2>1. \A v \in Workers : wjob[v] = wjob[w] /\ v # w => pc[v] # "claim"
    BY <1>6 DEF RowsHeldOnce, HasJobRow, ClaimQueued, ClaimStale
  <2>2. \A v \in Workers : ~Runs(v, wjob[w])
    BY <1>6 DEF ClaimQueued, ClaimStale
  <2>3. MarkRunning(w, wjob[w]) /\ wjob[w] \in Jobs
    BY <1>6 DEF ClaimQueued, ClaimStale
  <2>4. RunnersAreCurrent' BY <2>2, <2>3 DEF MarkRunning
  <2>5. ClaimsAreExclusive' BY <2>1, <2>3 DEF MarkRunning
  <2> QED BY <2>4, <2>5
<1>7. ASSUME NEW w \in Workers, GiveUp(w) PROVE Goal
  BY <1>7 DEF GiveUp, Release
<1>8. ASSUME NEW w \in Workers, LockDocument(w) \/ StampSnapshot(w) PROVE Goal
  BY <1>8 DEF LockDocument, StampSnapshot
<1>9. ASSUME NEW w \in Workers, Finish(w) PROVE Goal
  <2>1. \A v \in Workers : v # w => ~Runs(v, wjob[w])
    BY <1>9 DEF Finish, ReadyToFinish, OneWorkerPerAttempt
  <2> QED BY <1>9, <2>1 DEF Finish, ReadyToFinish, Release
<1>10. ASSUME NEW w \in Workers, Heartbeat(w) PROVE Goal
  BY <1>10 DEF Heartbeat
<1>11. ASSUME NEW w \in Workers, Release(w), UNCHANGED jobVars PROVE Goal
  BY <1>11 DEF Release
<1>12. ASSUME UNCHANGED <<jobVars, workerVars>> PROVE Goal
  BY <1>12
<1> QED
  BY <1>1, <1>2, <1>3, <1>4, <1>5, <1>6, <1>7, <1>8, <1>9, <1>10, <1>11, <1>12
  DEF Next, Api, CompleteAgain, Publisher, DispatchDue, LockDispatch, Publish,
      PublishFails, CommitDispatch, AbortDispatch, Deliver, Crash, TaskFails, Work,
      MissDrop, MissDefer, FinishTooLate, DeadlockVictim, vars

LEMMA NextPublisherHoldsDueRow ==
    ASSUME TypeInv, PublisherHoldsDueRow, [Next]_vars
    PROVE PublisherHoldsDueRow'
<1> USE DEF TypeInv, TypeOK, WorkerKnowsJob, PublisherHoldsDueRow, jobVars, queueVars
<1>1. ASSUME NEW j \in Jobs, Api(j) PROVE PublisherHoldsDueRow'
  BY <1>1 DEF Api, CompleteUpload, CompleteAgain, RetryJob, EnsureDispatch, UpsertDispatch
<1>2. ASSUME NEW j \in Jobs, Publisher(j) PROVE PublisherHoldsDueRow'
  BY <1>2 DEF Publisher, DispatchDue, LockDispatch, Publish, PublishFails,
              CommitDispatch, AbortDispatch
<1>3. ASSUME NEW w \in Workers, ClaimQueued(w) \/ ClaimStale(w)
      PROVE PublisherHoldsDueRow'
  BY <1>3 DEF ClaimQueued, ClaimStale, MarkRunning, EnsureDispatch
<1>4. ASSUME NEW w \in Workers, MissDefer(w) PROVE PublisherHoldsDueRow'
  BY <1>4 DEF MissDefer, UpsertDispatch
<1>5. ASSUME NEW w \in Workers, GiveUp(w) \/ Finish(w) PROVE PublisherHoldsDueRow'
  BY <1>5 DEF GiveUp, Finish
<1>6. ASSUME UNCHANGED <<status, dispatch, publisher>> PROVE PublisherHoldsDueRow'
  BY <1>6
<1> QED
  BY <1>1, <1>2, <1>3, <1>4, <1>5, <1>6
  DEF Next, Deliver, ClaimLock, ClaimMiss, LeaseExpires, Heartbeat, Crash, TaskFails,
      Work, MissDrop, LockDocument, StampSnapshot, FinishTooLate, DeadlockVictim, vars

LEMMA NextUnfinishedIsAwake ==
    ASSUME Faults = {}, WakeUpInv, [Next]_vars
    PROVE UnfinishedIsAwake'
<1> USE DEF WakeUpInv, TypeInv, TypeOK, WorkerKnowsJob, UnfinishedIsAwake, Awake,
        IsCurrent, Runs, Running, jobVars, queueVars, workerVars
<1> SUFFICES ASSUME NEW i \in Jobs, status'[i] \in {"QUEUED", "RUNNING"}
             PROVE Awake(i)'
  OBVIOUS
<1>1. ASSUME NEW j \in Jobs, CompleteUpload(j) PROVE Awake(i)'
  BY <1>1 DEF CompleteUpload, EnsureDispatch, PublisherHoldsDueRow
<1>2. ASSUME NEW j \in Jobs, CompleteAgain(j) PROVE Awake(i)'
  BY <1>2 DEF CompleteAgain, EnsureDispatch
<1>3. ASSUME NEW j \in Jobs, RetryJob(j) PROVE Awake(i)'
  BY <1>3 DEF RetryJob, UpsertDispatch
<1>4. ASSUME NEW j \in Jobs, DispatchDue(j) \/ LockDispatch(j) PROVE Awake(i)'
  BY <1>4 DEF DispatchDue, LockDispatch
<1>5. ASSUME NEW j \in Jobs, Publish(j) \/ PublishFails(j) PROVE Awake(i)'
  BY <1>5 DEF Publish, PublishFails
<1>6. ASSUME NEW j \in Jobs, CommitDispatch(j) \/ AbortDispatch(j) PROVE Awake(i)'
  BY <1>6 DEF CommitDispatch, AbortDispatch, PublisherHoldsDueRow
<1>7. ASSUME NEW j \in Jobs, NEW w \in Workers, ClaimLock(w, j) PROVE Awake(i)'
  BY <1>7 DEF ClaimLock
<1>8. ASSUME NEW j \in Jobs, NEW w \in Workers, ClaimMiss(w, j) PROVE Awake(i)'
  <2>1. CASE i # j BY <1>8, <2>1 DEF ClaimMiss
  <2>2. CASE i = j /\ status[j] = "RUNNING" BY <1>8, <2>2 DEF ClaimMiss
  <2>3. CASE i = j /\ status[j] = "QUEUED"
    <3>1. PICK v \in Workers : wjob[v] = j /\ pc[v] = "claim"
      BY <1>8, <2>3 DEF ClaimMiss, Claimable, JobRowFree, HasJobRow, RunnersAreCurrent
    <3> QED BY <1>8, <2>3, <3>1 DEF ClaimMiss
  <2> QED BY <1>8, <2>1, <2>2, <2>3 DEF ClaimMiss
<1>9. ASSUME NEW j \in Jobs, LeaseExpires(j) PROVE Awake(i)'
  BY <1>9 DEF LeaseExpires
<1>10. ASSUME NEW w \in Workers, MissDrop(w) PROVE Awake(i)'
  BY <1>10 DEF MissDrop, Release
<1>11. ASSUME NEW w \in Workers, MissDefer(w) PROVE Awake(i)'
  BY <1>11 DEF MissDefer, UpsertDispatch, Release
<1>12. ASSUME NEW w \in Workers, ClaimQueued(w) \/ ClaimStale(w) PROVE Awake(i)'
  <2>1. CASE i = wjob[w]
    BY <1>12, <2>1 DEF ClaimQueued, ClaimStale, MarkRunning
  <2>2. CASE i # wjob[w]
    BY <1>12, <2>2 DEF ClaimQueued, ClaimStale, MarkRunning, EnsureDispatch
  <2> QED BY <2>1, <2>2
<1>13. ASSUME NEW w \in Workers, GiveUp(w) PROVE Awake(i)'
  BY <1>13 DEF GiveUp, Release
<1>14. ASSUME NEW w \in Workers, LockDocument(w) \/ StampSnapshot(w) PROVE Awake(i)'
  BY <1>14 DEF LockDocument, StampSnapshot
<1>15. ASSUME NEW w \in Workers, Finish(w) PROVE Awake(i)'
  BY <1>15 DEF Finish, ReadyToFinish, Release
<1>16. ASSUME NEW w \in Workers, FinishTooLate(w) PROVE Awake(i)'
  <2>1. FALSE
    BY <1>16 DEF FinishTooLate, ReadyToFinish, MatchesClaim, RunnersAreCurrent
  <2> QED BY <2>1
<1>17. ASSUME NEW w \in Workers, DeadlockVictim(w) PROVE Awake(i)'
  <2>1. FALSE
    BY <1>17
    DEF DeadlockVictim, Deadlocked, RetryDeadlocked, ClaimsAreExclusive, RunnersAreCurrent
  <2> QED BY <2>1
<1>18. ASSUME NEW w \in Workers, Heartbeat(w) PROVE Awake(i)'
  BY <1>18 DEF Heartbeat
<1>19. ASSUME NEW w \in Workers, Crash(w) PROVE Awake(i)'
  BY <1>19 DEF Crash, Release
<1>20. ASSUME NEW w \in Workers, TaskFails(w) PROVE Awake(i)'
  BY <1>20 DEF TaskFails
<1>21. CASE UNCHANGED vars
  BY <1>21 DEF vars
<1> QED
  BY <1>1, <1>2, <1>3, <1>4, <1>5, <1>6, <1>7, <1>8, <1>9, <1>10, <1>11, <1>12, <1>13,
     <1>14, <1>15, <1>16, <1>17, <1>18, <1>19, <1>20, <1>21
  DEF Next, Api, Publisher, Deliver, Work

LEMMA NextWakeUpInv ==
    ASSUME Faults = {}
    PROVE WakeUpInv /\ [Next]_vars => WakeUpInv'
BY NextTypeInv, NextOneWorkerPerAttempt, NextRowsHeldOnce, NextRunners,
   NextPublisherHoldsDueRow, NextUnfinishedIsAwake DEF WakeUpInv

\* AT-07: neither worker crashes, nor refused and duplicated messages, nor the
\* loss of the API process make an unfinished job lose its wake-up.
THEOREM WakeUpsSurviveCrashes ==
    ASSUME Faults = {}
    PROVE Spec => []NoLostWakeUp
<1>1. WakeUpInv => NoLostWakeUp
  BY DEF WakeUpInv, UnfinishedIsAwake, Awake, NoLostWakeUp, WakeUpPending
<1>2. WakeUpInv /\ [Next]_vars => WakeUpInv'
  BY NextWakeUpInv
<1> QED BY InitWakeUpInv, <1>1, <1>2, PTL DEF Spec
===============================================================================
