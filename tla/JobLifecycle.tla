----------------------------- MODULE JobLifecycle -----------------------------
(***************************************************************************)
(* What the analysis pipeline promises about one durable AnalysisJob per   *)
(* document, with queue, outbox, leases and workers hidden: the lifecycle  *)
(*                                                                         *)
(*     QUEUED -> RUNNING -> DONE                                           *)
(*                  |-> ERROR --retry--> QUEUED                            *)
(*                                                                         *)
(* in which the document moves in the same step as its job, every claim    *)
(* opens a new attempt, and no job is attempted more than MaxAttempts      *)
(* times.  AnalysisJob implements this specification.                      *)
(***************************************************************************)
EXTENDS Naturals

CONSTANTS Jobs, MaxAttempts

VARIABLES status, attempt, doc

lifecycleVars == <<status, attempt, doc>>

Failures == {"INVALID", "PROCESSING_FAILED"}

Init ==
    /\ status = [j \in Jobs |-> "NONE"]
    /\ attempt = [j \in Jobs |-> 0]
    /\ doc = [j \in Jobs |-> "UPLOADING"]

Move(j, jobStatus, docStatus) ==
    /\ status' = [status EXCEPT ![j] = jobStatus]
    /\ doc' = [doc EXCEPT ![j] = docStatus]

Submit(j) ==
    /\ status[j] = "NONE"
    /\ Move(j, "QUEUED", "QUEUED")
    /\ UNCHANGED attempt

\* A first claim of a queued job, or the takeover of an abandoned attempt.
Begin(j) ==
    /\ status[j] \in {"QUEUED", "RUNNING"}
    /\ attempt[j] < MaxAttempts
    /\ attempt' = [attempt EXCEPT ![j] = @ + 1]
    /\ Move(j, "RUNNING", "PROCESSING")

Succeed(j) ==
    /\ status[j] = "RUNNING"
    /\ Move(j, "DONE", "AWAITING_REVIEW")
    /\ UNCHANGED attempt

Fail(j) ==
    /\ status[j] = "RUNNING"
    /\ \E failure \in Failures : Move(j, "ERROR", failure)
    /\ UNCHANGED attempt

Retry(j) ==
    /\ status[j] = "ERROR"
    /\ attempt[j] < MaxAttempts
    /\ Move(j, "QUEUED", "QUEUED")
    /\ UNCHANGED attempt

Next == \E j \in Jobs : Submit(j) \/ Begin(j) \/ Succeed(j) \/ Fail(j) \/ Retry(j)

Spec == Init /\ [][Next]_lifecycleVars
===============================================================================
