-------------------------------- MODULE Upload --------------------------------
(***************************************************************************)
(* How one student's file becomes a document version of one submission:    *)
(* initiate and complete (services/submission.py), the object store with   *)
(* its staging and sealed keys and the local recovery copies               *)
(* (services/storage.py), up to the verdict of the analysis on the bytes.  *)
(*                                                                         *)
(* A completion holds row locks on the version, the assignment and the     *)
(* membership while it talks to the object store, so database commands     *)
(* wait for it; the student's browser, which posts to the store directly,  *)
(* the clock and the store's faults do not.                                *)
(***************************************************************************)
EXTENDS Naturals, Sequences

CONSTANTS
    Files,          \* what a student may upload: a file is its digest
    Size,           \* the size of a file
    Keys,           \* idempotency keys
    Missing,        \* no object under a key
    NoCompletion,   \* no completion holds the locks
    MaxSubmissions, \* Assignment.max_submissions
    MaxSeals        \* bound: copies made under sealed keys

ASSUME UploadConstants ==
    /\ Size \in [Files -> Nat]
    /\ Missing \notin Files
    /\ MaxSubmissions \in Nat \ {0}
    /\ MaxSeals \in Nat

VARIABLES
    accepting,  \* the assignment is OPEN and due_at lies ahead
    enrolled,   \* the student's membership is ACTIVE
    versions,   \* DocumentVersion rows of the submission
    jobs,       \* version numbers with an AnalysisJob
    form,       \* a presigned form of the version, and upload_expires_at, are live
    staging,    \* the object under the version's uploads/ key
    sealed,     \* the objects under documents/ keys, one key for each copy
    backup,     \* the local recovery copies of the sealed objects
    completion  \* the completion in progress, which holds the row locks

rows == <<versions, jobs>>
store == <<staging, sealed, backup>>
vars == <<accepting, enrolled, rows, form, store, completion>>

Status == {"UPLOADING", "QUEUED", "AWAITING_REVIEW", "INVALID", "PROCESSING_FAILED"}
Failure == {"none", "STORAGE_UNAVAILABLE", "ANALYSIS"}

\* storage_key: 0 is the staging key, n the key of the n-th sealed copy.
Version == [file : Files, key : Keys, status : Status, failure : Failure,
            storage_key : 0..MaxSeals]

Completion == [version : 1..MaxSubmissions, etag : Files, copy : 0..MaxSeals]

TypeOK ==
    /\ accepting \in BOOLEAN /\ enrolled \in BOOLEAN
    /\ versions \in Seq(Version) /\ Len(versions) <= MaxSubmissions
    /\ jobs \subseteq DOMAIN versions
    /\ form \in [1..MaxSubmissions -> BOOLEAN]
    /\ staging \in [1..MaxSubmissions -> Files \union {Missing}]
    /\ sealed \in Seq(Files \union {Missing}) /\ Len(sealed) <= MaxSeals
    /\ backup \in Seq(Files \union {Missing}) /\ Len(backup) = Len(sealed)
    /\ completion \in Completion \union {NoCompletion}

Init ==
    /\ accepting = TRUE /\ enrolled = TRUE
    /\ versions = << >> /\ jobs = {}
    /\ form = [v \in 1..MaxSubmissions |-> FALSE]
    /\ staging = [v \in 1..MaxSubmissions |-> Missing]
    /\ sealed = << >> /\ backup = << >>
    /\ completion = NoCompletion

Stored(v) == IF versions[v].storage_key = 0 THEN staging[v]
             ELSE sealed[versions[v].storage_key]

Unlocked == completion = NoCompletion

-------------------------------------------------------------------------------
(* What decides whether the student may upload.                            *)

\* The teacher closes the assignment, or its deadline passes.
StopAccepting ==
    /\ accepting
    /\ accepting' = FALSE
    /\ UNCHANGED <<enrolled, rows, form, store, completion>>

\* The roster removes the student, or takes them back.
ChangeMembership ==
    /\ Unlocked
    /\ enrolled' = ~enrolled
    /\ UNCHANGED <<accepting, rows, form, store, completion>>

-------------------------------------------------------------------------------
(* initiate_upload.                                                        *)

\* Mutant: only the key is looked up.
RepeatsByKey(file, key) == {v \in DOMAIN versions : versions[v].key = key}

\* The version a request repeats: by its key, else by its digest.
Repeats(file, key) ==
    LET byKey == {v \in DOMAIN versions : versions[v].key = key}
    IN IF byKey # {} THEN byKey ELSE {v \in DOMAIN versions : versions[v].file = file}

\* The row's expiry is renewed and a new form for the same staging key signed.
Renew(v) == form' = [form EXCEPT ![v] = TRUE]

\* A repeated request gets its version again, with a form while it is
\* UPLOADING; a key that comes with another file is refused.
InitiateAgain(file, key) ==
    /\ Unlocked /\ enrolled /\ accepting
    /\ \E v \in Repeats(file, key) :
          /\ versions[v].file = file
          /\ versions[v].status = "UPLOADING"
          /\ Renew(v)
    /\ UNCHANGED <<accepting, enrolled, rows, store, completion>>

\* Mutant: the attempts are counted without the one that is added.
InitiateOneMore(file, key) ==
    /\ Unlocked /\ enrolled /\ accepting
    /\ Repeats(file, key) = {}
    /\ Len(versions) <= MaxSubmissions
    /\ versions' = Append(versions,
          [file |-> file, key |-> key, status |-> "UPLOADING", failure |-> "none",
           storage_key |-> 0])
    /\ UNCHANGED <<accepting, enrolled, jobs, form, store, completion>>

Initiate(file, key) ==
    /\ Unlocked /\ enrolled /\ accepting
    /\ Repeats(file, key) = {}
    /\ Len(versions) < MaxSubmissions
    /\ versions' = Append(versions,
          [file |-> file, key |-> key, status |-> "UPLOADING", failure |-> "none",
           storage_key |-> 0])
    /\ Renew(Len(versions) + 1)
    /\ UNCHANGED <<accepting, enrolled, jobs, store, completion>>

\* The presigned form and the version's upload_expires_at run out together.
Expire(v) ==
    /\ form[v]
    /\ form' = [form EXCEPT ![v] = FALSE]
    /\ UNCHANGED <<accepting, enrolled, rows, store, completion>>

-------------------------------------------------------------------------------
(* complete_upload.                                                        *)

\* Mutant: any failed version is taken for one whose upload met a storage fault.
AnyFailureRetryable(v) == versions[v].status = "PROCESSING_FAILED"

\* is_retryable_storage_failure
Retryable(v) ==
    /\ versions[v].status = "PROCESSING_FAILED"
    /\ versions[v].failure = "STORAGE_UNAVAILABLE"
    /\ v \notin jobs

MayComplete(v) ==
    /\ Unlocked /\ enrolled /\ accepting
    /\ v \in DOMAIN versions
    /\ \/ Retryable(v)
       \/ versions[v].status = "UPLOADING" /\ form[v]

\* The metadata of the object under the version's key are checked (HEAD); a
\* missing object and a wrong size are refused, with nothing changed.
HeadObject(v) ==
    /\ MayComplete(v)
    /\ Stored(v) # Missing
    /\ Size[Stored(v)] = Size[versions[v].file]
    /\ completion' = [version |-> v, etag |-> Stored(v), copy |-> 0]
    /\ UNCHANGED <<accepting, enrolled, rows, form, store>>

\* Mutant: the object is copied whatever its ETag is by now.
SealUnconditionally ==
    /\ completion # NoCompletion /\ completion.copy = 0
    /\ Len(sealed) < MaxSeals
    /\ staging[completion.version] # Missing
    /\ sealed' = Append(sealed, staging[completion.version])
    /\ \E copied \in {staging[completion.version], Missing} : backup' = Append(backup, copied)
    /\ completion' = [completion EXCEPT !.copy = Len(sealed) + 1]
    /\ UNCHANGED <<accepting, enrolled, rows, form, staging>>

\* S3Storage.seal_upload: the copy is made only of the object that was checked;
\* the recovery copy of it may fail.
Seal ==
    /\ completion # NoCompletion /\ completion.copy = 0
    /\ Len(sealed) < MaxSeals
    /\ Stored(completion.version) = completion.etag
    /\ sealed' = Append(sealed, completion.etag)
    /\ \E copied \in {completion.etag, Missing} : backup' = Append(backup, copied)
    /\ completion' = [completion EXCEPT !.copy = Len(sealed) + 1]
    /\ UNCHANGED <<accepting, enrolled, rows, form, staging>>

\* StorageObjectChanged or StorageObjectNotFound: 409, the transaction is undone.
SealRefused ==
    /\ completion # NoCompletion /\ completion.copy = 0
    /\ Stored(completion.version) # completion.etag
    /\ completion' = NoCompletion
    /\ UNCHANGED <<accepting, enrolled, rows, form, store>>

\* The version names the sealed key, and its job is created, in one commit.
Queue ==
    /\ completion # NoCompletion /\ completion.copy # 0
    /\ versions' = [versions EXCEPT ![completion.version].status = "QUEUED",
                                    ![completion.version].failure = "none",
                                    ![completion.version].storage_key = completion.copy]
    /\ jobs' = jobs \union {completion.version}
    /\ completion' = NoCompletion
    /\ UNCHANGED <<accepting, enrolled, form, store>>

StorageUnavailable(v) ==
    versions' = [versions EXCEPT ![v].status = "PROCESSING_FAILED",
                                 ![v].failure = "STORAGE_UNAVAILABLE"]

\* Any other error of HEAD is committed as STORAGE_UNAVAILABLE.
HeadFails(v) ==
    /\ MayComplete(v)
    /\ StorageUnavailable(v)
    /\ UNCHANGED <<accepting, enrolled, jobs, form, store, completion>>

\* So is any other error of the copy, or of the HEAD of the copy that follows.
SealFails ==
    /\ completion # NoCompletion
    /\ StorageUnavailable(completion.version)
    /\ completion' = NoCompletion
    /\ UNCHANGED <<accepting, enrolled, jobs, form, store>>

\* The process dies: the transaction is undone, a copy that was made stays.
Crash ==
    /\ completion # NoCompletion
    /\ completion' = NoCompletion
    /\ UNCHANGED <<accepting, enrolled, rows, form, store>>

-------------------------------------------------------------------------------
(* The object store.                                                       *)

\* The browser posts with a form that is still live, as often as it likes.
Post(v, file) ==
    /\ form[v]
    /\ staging' = [staging EXCEPT ![v] = file]
    /\ UNCHANGED <<accepting, enrolled, rows, form, sealed, backup, completion>>

\* The lifecycle rule expire-staging-uploads, a day after the upload.
ExpireStaging(v) ==
    /\ ~form[v] /\ staging[v] # Missing
    /\ staging' = [staging EXCEPT ![v] = Missing]
    /\ UNCHANGED <<accepting, enrolled, rows, form, sealed, backup, completion>>

\* The store restarts empty.
LoseBucket ==
    /\ \E n \in DOMAIN sealed : sealed[n] # Missing
    /\ sealed' = [n \in DOMAIN sealed |-> Missing]
    /\ staging' = [v \in DOMAIN staging |-> Missing]
    /\ UNCHANGED <<accepting, enrolled, rows, form, backup, completion>>

\* S3Storage._restore: reading a lost object puts its recovery copy back.
Restored(n) == IF sealed[n] = Missing THEN backup[n] ELSE sealed[n]

Restore(v) ==
    sealed' = [sealed EXCEPT ![versions[v].storage_key] = Restored(versions[v].storage_key)]

\* get_document_download: HEAD before the URL is signed.
Download(v) ==
    /\ v \in jobs
    /\ Restore(v)
    /\ UNCHANGED <<accepting, enrolled, rows, form, staging, backup, completion>>

-------------------------------------------------------------------------------
(* The analysis, as far as it depends on the bytes.                        *)

\* Mutant: the digest of what was read is not compared.
VerdictsUnchecked(v) ==
    {<<"PROCESSING_FAILED", "ANALYSIS">>}
    \union (IF Restored(versions[v].storage_key) = Missing THEN {}
            ELSE {<<"AWAITING_REVIEW", "none">>})

\* What the analysis can make of a version: the store or a step of it can fail;
\* bytes that were read have the declared digest, or the document is INVALID.
Verdicts(v) ==
    LET read == Restored(versions[v].storage_key)
    IN {<<"PROCESSING_FAILED", "ANALYSIS">>}
       \union (IF read = Missing THEN {}
               ELSE IF read = versions[v].file THEN {<<"AWAITING_REVIEW", "none">>}
               ELSE {<<"INVALID", "none">>})

Analyse(v) ==
    /\ Unlocked /\ v \in jobs
    /\ versions[v].status = "QUEUED"
    /\ \E verdict \in Verdicts(v) :
          versions' = [versions EXCEPT ![v].status = verdict[1], ![v].failure = verdict[2]]
    /\ Restore(v)
    /\ UNCHANGED <<accepting, enrolled, jobs, form, staging, backup, completion>>

\* A teacher retries the failed job of the version.
Retry(v) ==
    /\ Unlocked /\ v \in jobs
    /\ versions[v].status = "PROCESSING_FAILED"
    /\ versions' = [versions EXCEPT ![v].status = "QUEUED", ![v].failure = "none"]
    /\ UNCHANGED <<accepting, enrolled, jobs, form, store, completion>>

-------------------------------------------------------------------------------

Student(file, key) == Initiate(file, key) \/ InitiateAgain(file, key)

Complete == (\E v \in DOMAIN versions : HeadObject(v) \/ HeadFails(v))
            \/ Seal \/ SealRefused \/ SealFails \/ Queue

ObjectStore ==
    \/ \E v \in 1..MaxSubmissions : Expire(v) \/ ExpireStaging(v)
    \/ \E v \in 1..MaxSubmissions, f \in Files : Post(v, f)
    \/ LoseBucket
    \/ \E v \in DOMAIN versions : Download(v)

Next ==
    \/ StopAccepting \/ ChangeMembership
    \/ \E f \in Files, k \in Keys : Student(f, k)
    \/ Complete \/ Crash
    \/ ObjectStore
    \/ \E v \in DOMAIN versions : Analyse(v) \/ Retry(v)

Spec == Init /\ [][Next]_vars

-------------------------------------------------------------------------------
(* Properties.                                                             *)

\* The object under a received version's key is the declared file from the
\* moment its analysis passed, or is lost: no form that is still live, no
\* second completion and no restored copy can put other bytes there.
AnalysedBytesAreDeclared ==
    \A v \in DOMAIN versions :
        versions[v].status = "AWAITING_REVIEW" => Stored(v) \in {versions[v].file, Missing}

\* A received version names a sealed object that no other version names, and
\* whose size is the one its HEAD was checked for, though the student may post
\* another file between the check and the copy.
ReceivedObjectWasChecked ==
    \A v \in jobs :
        /\ versions[v].storage_key # 0
        /\ Stored(v) # Missing => Size[Stored(v)] = Size[versions[v].file]
        /\ \A w \in jobs \ {v} : versions[w].storage_key # versions[v].storage_key

\* No two versions of a submission are the same file or come from the same
\* request, however often a request is repeated (BR-09).
EachVersionIsAnotherFile ==
    \A v, w \in DOMAIN versions :
        versions[v].file = versions[w].file \/ versions[v].key = versions[w].key => v = w

\* The object of a received version is fixed: a completion repeated after a
\* failed analysis does not seal and queue the version a second time.
ReceivedOnce ==
    [][\A v \in jobs : versions'[v].storage_key = versions[v].storage_key]_vars

\* A version that met a storage fault can be completed while the assignment
\* accepts uploads: its object is there, or the student still has a form to
\* upload it with. The code does not keep this (README, section 8).
FailedUploadCanBeCompleted ==
    \A v \in DOMAIN versions :
        versions[v].failure = "STORAGE_UNAVAILABLE" => staging[v] # Missing \/ form[v]

\* A version's object is the file it was declared and checked as, from its receipt
\* to the end of its analysis (submission.py:367, storage.py:113).
ReceivedFileIsTheDeclared == AnalysedBytesAreDeclared /\ ReceivedObjectWasChecked
===============================================================================
