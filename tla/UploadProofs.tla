----------------------------- MODULE UploadProofs -----------------------------
(***************************************************************************)
(* Proofs about Upload. A version is received once: while it is not, its   *)
(* key names its staging object; a completion that has made a copy is the  *)
(* only one to know the key of the copy; and a copy and its recovery copy  *)
(* never differ, so whichever of them is lost, the other is as good.       *)
(***************************************************************************)
EXTENDS Upload, TLAPS

\* A version that is not received waits for its upload or met a storage fault; one
\* that is received has a sealed object of its own and is never completed again.
Receipts ==
    /\ \A v \in DOMAIN versions \ jobs :
          /\ versions[v].storage_key = 0
          /\ versions[v].status # "AWAITING_REVIEW"
    /\ \A v \in jobs :
          /\ versions[v].storage_key \in DOMAIN sealed
          /\ versions[v].status # "UPLOADING"
    /\ \A v, w \in jobs : versions[v].storage_key = versions[w].storage_key => v = w

\* The completion in progress is about a version that is not received, and alone
\* knows the copy it made.
CompletionIsAlone ==
    completion # NoCompletion =>
        /\ completion.version \in DOMAIN versions \ jobs
        /\ Size[completion.etag] = Size[versions[completion.version].file]
        /\ completion.copy # 0 =>
              /\ completion.copy \in DOMAIN sealed
              /\ \A v \in jobs : versions[v].storage_key # completion.copy
              /\ {sealed[completion.copy], backup[completion.copy]}
                    \subseteq {completion.etag, Missing}

\* A recovery copy is of the object it is for.
CopiesAgree ==
    \A n \in DOMAIN sealed : sealed[n] # Missing /\ backup[n] # Missing => sealed[n] = backup[n]

\* What the object of a received version may be, and its recovery copy.
Fits(object, version) ==
    object # Missing =>
        /\ Size[object] = Size[version.file]
        /\ version.status = "AWAITING_REVIEW" => object = version.file

ObjectsFit ==
    \A v \in jobs : /\ Fits(sealed[versions[v].storage_key], versions[v])
                    /\ Fits(backup[versions[v].storage_key], versions[v])

UploadInv ==
    TypeOK /\ Receipts /\ CompletionIsAlone /\ CopiesAgree /\ ObjectsFit

-------------------------------------------------------------------------------
(* Sequences and rows.                                                     *)

LEMMA VersionFields ==
    ASSUME TypeOK, NEW v \in DOMAIN versions
    PROVE  /\ v \in 1..Len(versions) /\ v \in 1..MaxSubmissions
           /\ versions[v] \in Version
           /\ versions[v].file \in Files
           /\ versions[v].key \in Keys
           /\ versions[v].storage_key \in 0..MaxSeals
           /\ Size[versions[v].file] \in Nat
<1>1. versions[v] \in Version /\ v \in 1..Len(versions) /\ v \in 1..MaxSubmissions
  BY UploadConstants DEF TypeOK
<1> QED
  BY <1>1, UploadConstants DEF Version

\* Changing the status of a version changes nothing else about it.
LEMMA StatusChange ==
    ASSUME TypeOK, NEW v \in DOMAIN versions,
           NEW status \in Status, NEW failure \in Failure,
           versions' = [versions EXCEPT ![v].status = status, ![v].failure = failure]
    PROVE  /\ versions' \in Seq(Version) /\ Len(versions') = Len(versions)
           /\ DOMAIN versions' = DOMAIN versions
           /\ \A w \in DOMAIN versions :
                 /\ versions'[w].file = versions[w].file
                 /\ versions'[w].key = versions[w].key
                 /\ versions'[w].storage_key = versions[w].storage_key
           /\ \A w \in DOMAIN versions \ {v} : versions'[w] = versions[w]
           /\ versions'[v].status = status
<1>1. versions[v] \in Version /\ v \in 1..Len(versions)
  BY VersionFields
<1>2. [[versions[v] EXCEPT !.status = status] EXCEPT !.failure = failure] \in Version
  BY <1>1 DEF Version
<1>3. /\ versions' = [w \in DOMAIN versions |-> versions'[w]]
      /\ DOMAIN versions' = DOMAIN versions
      /\ \A w \in DOMAIN versions \ {v} : versions'[w] = versions[w]
      /\ versions'[v] = [[versions[v] EXCEPT !.status = status] EXCEPT !.failure = failure]
  BY <1>1 DEF TypeOK
<1>4. versions' \in Seq(Version) /\ Len(versions') = Len(versions)
  <2>1. versions \in Seq(Version)
    BY DEF TypeOK
  <2>2. \A w \in DOMAIN versions : versions'[w] \in Version
    BY <1>1, <1>2, <1>3, <2>1
  <2> QED
    BY <1>3, <2>1, <2>2
<1>5. /\ versions'[v].file = versions[v].file
      /\ versions'[v].key = versions[v].key
      /\ versions'[v].storage_key = versions[v].storage_key
      /\ versions'[v].status = status
  BY <1>1, <1>3 DEF Version
<1> QED
  BY <1>3, <1>4, <1>5

\* Reading an object puts it back as its recovery copy has it.
LEMMA RestoreKeeps ==
    ASSUME UploadInv, NEW v \in jobs, Restore(v)
    PROVE  LET n == versions[v].storage_key
           IN /\ sealed' \in Seq(Files \union {Missing})
              /\ Len(sealed') = Len(sealed) /\ DOMAIN sealed' = DOMAIN sealed
              /\ \A i \in DOMAIN sealed \ {n} : sealed'[i] = sealed[i]
              /\ n \in DOMAIN sealed
              /\ sealed'[n] = Restored(n)
              /\ Restored(n) \in {sealed[n], backup[n]}
              /\ backup[n] # Missing => Restored(n) = backup[n]
<1> DEFINE n == versions[v].storage_key
<1>1. n \in DOMAIN sealed /\ n \in 1..Len(sealed)
  BY DEF UploadInv, Receipts, TypeOK
<1>2. Restored(n) \in {sealed[n], backup[n]} /\ (backup[n] # Missing => Restored(n) = backup[n])
  BY <1>1 DEF Restored, UploadInv, CopiesAgree
<1>3. Restored(n) \in Files \union {Missing}
  BY <1>1, <1>2 DEF UploadInv, TypeOK
<1>4. sealed' = [sealed EXCEPT ![n] = Restored(n)]
  BY DEF Restore
<1> HIDE DEF n
<1>5. /\ sealed' \in Seq(Files \union {Missing})
      /\ Len(sealed') = Len(sealed) /\ DOMAIN sealed' = DOMAIN sealed
      /\ \A i \in DOMAIN sealed \ {n} : sealed'[i] = sealed[i]
      /\ sealed'[n] = Restored(n)
  BY <1>1, <1>3, <1>4 DEF UploadInv, TypeOK
<1> QED
  BY <1>1, <1>2, <1>5 DEF n

-------------------------------------------------------------------------------
(* Every step keeps the invariant: the steps that leave the rows and the   *)
(* sealed objects alone, those of a completion, and those that read an     *)
(* object.                                                                 *)

\* A storage fault of a version that is not received.
LEMMA StorageFault ==
    ASSUME UploadInv, NEW v \in DOMAIN versions \ jobs, StorageUnavailable(v),
           completion' = NoCompletion,
           UNCHANGED <<accepting, enrolled, jobs, form, store>>
    PROVE  UploadInv'
<1> USE DEF UploadInv
<1>1. /\ versions' \in Seq(Version) /\ Len(versions') = Len(versions)
      /\ DOMAIN versions' = DOMAIN versions
      /\ \A w \in DOMAIN versions :
            /\ versions'[w].file = versions[w].file
            /\ versions'[w].storage_key = versions[w].storage_key
      /\ \A w \in DOMAIN versions \ {v} : versions'[w] = versions[w]
      /\ versions'[v].status = "PROCESSING_FAILED"
  BY StatusChange DEF StorageUnavailable, Status, Failure
<1>2. TypeOK'
  BY <1>1 DEF TypeOK, store
<1>3. Receipts'
  <2>1. \A w \in jobs : w \in DOMAIN versions /\ versions'[w] = versions[w]
    BY <1>1 DEF TypeOK
  <2>2. \A w \in DOMAIN versions \ jobs : /\ versions'[w].storage_key = 0
                                         /\ versions'[w].status # "AWAITING_REVIEW"
    BY <1>1 DEF Receipts
  <2> QED
    BY <1>1, <2>1, <2>2 DEF Receipts, store
<1>4. CompletionIsAlone' /\ CopiesAgree'
  BY DEF CompletionIsAlone, CopiesAgree, store
<1>5. ObjectsFit'
  <2>1. \A w \in jobs : versions'[w] = versions[w]
    BY <1>1 DEF TypeOK
  <2> QED
    BY <2>1 DEF ObjectsFit, store
<1> QED
  BY <1>2, <1>3, <1>4, <1>5

LEMMA InitiateStep ==
    ASSUME UploadInv, NEW file \in Files, NEW key \in Keys, Initiate(file, key)
    PROVE  UploadInv'
<1> USE DEF UploadInv
<1> DEFINE new == [file |-> file, key |-> key, status |-> "UPLOADING", failure |-> "none",
                   storage_key |-> 0]
<1>1. /\ versions' = Append(versions, new)
      /\ completion = NoCompletion
      /\ Len(versions) < MaxSubmissions
      /\ form' = [form EXCEPT ![Len(versions) + 1] = TRUE]
      /\ UNCHANGED <<accepting, enrolled, jobs, store, completion>>
  BY DEF Initiate, Unlocked, Renew
<1>2. new \in Version
  BY UploadConstants DEF Version, Status, Failure
<1> HIDE DEF new
<1>3. /\ versions' \in Seq(Version) /\ Len(versions') = Len(versions) + 1
      /\ DOMAIN versions' = DOMAIN versions \union {Len(versions) + 1}
      /\ Len(versions) + 1 \notin DOMAIN versions
      /\ \A w \in DOMAIN versions : versions'[w] = versions[w]
      /\ versions'[Len(versions) + 1] = new
  BY <1>1, <1>2 DEF TypeOK
<1>4. TypeOK'
  BY <1>1, <1>3, UploadConstants DEF TypeOK, store
<1>5. Receipts'
  <2>1. new.storage_key = 0 /\ new.status = "UPLOADING"
    BY DEF new
  <2> QED
    BY <1>1, <1>3, <2>1 DEF Receipts, TypeOK, store
<1>6. CompletionIsAlone' /\ CopiesAgree'
  BY <1>1 DEF CompletionIsAlone, CopiesAgree, store
<1>7. ObjectsFit'
  <2>1. \A w \in jobs : versions'[w] = versions[w]
    BY <1>3 DEF TypeOK
  <2> QED
    BY <1>1, <2>1 DEF ObjectsFit, store
<1> QED
  BY <1>4, <1>5, <1>6, <1>7

LEMMA HeadStep ==
    ASSUME UploadInv, NEW v \in DOMAIN versions, HeadObject(v)
    PROVE  UploadInv'
<1> USE DEF UploadInv
<1>1. /\ v \in DOMAIN versions \ jobs
      /\ v \in 1..MaxSubmissions
      /\ versions[v].storage_key = 0
  BY VersionFields DEF HeadObject, MayComplete, Retryable, Receipts
<1>2. Stored(v) \in Files
  BY <1>1 DEF HeadObject, Stored, TypeOK
<1>3. /\ completion' = [version |-> v, etag |-> Stored(v), copy |-> 0]
      /\ Size[Stored(v)] = Size[versions[v].file]
      /\ UNCHANGED <<accepting, enrolled, rows, form, store>>
  BY DEF HeadObject
<1>4. completion' \in Completion
  BY <1>1, <1>2, <1>3, UploadConstants DEF Completion
<1> QED
  BY <1>1, <1>2, <1>3, <1>4 DEF TypeOK, Receipts, CompletionIsAlone, CopiesAgree, ObjectsFit,
                                 rows, store

LEMMA SealStep ==
    ASSUME UploadInv, Seal
    PROVE  UploadInv'
<1> USE DEF UploadInv
<1> DEFINE n == Len(sealed) + 1
<1>1. PICK copied \in {completion.etag, Missing} : backup' = Append(backup, copied)
  BY DEF Seal
<1>2. /\ completion # NoCompletion
      /\ sealed' = Append(sealed, completion.etag)
      /\ completion' = [completion EXCEPT !.copy = n]
      /\ Len(sealed) < MaxSeals
      /\ UNCHANGED <<accepting, enrolled, rows, form, staging>>
  BY DEF Seal
<1>3. completion \in Completion /\ completion.etag \in Files /\ n \in 1..MaxSeals
  BY <1>2, UploadConstants DEF TypeOK, Completion
<1>4. /\ completion' \in Completion
      /\ completion'.version = completion.version
      /\ completion'.etag = completion.etag
      /\ completion'.copy = n
  BY <1>2, <1>3 DEF Completion
<1>5. /\ sealed' \in Seq(Files \union {Missing}) /\ Len(sealed') = n
      /\ backup' \in Seq(Files \union {Missing}) /\ Len(backup') = n
      /\ DOMAIN sealed' = DOMAIN sealed \union {n}
      /\ n \notin DOMAIN sealed
      /\ \A i \in DOMAIN sealed : sealed'[i] = sealed[i] /\ backup'[i] = backup[i]
      /\ sealed'[n] = completion.etag
      /\ backup'[n] = copied
  BY <1>1, <1>2, <1>3 DEF TypeOK
<1> HIDE DEF n
<1>6. TypeOK'
  BY <1>2, <1>3, <1>4, <1>5 DEF TypeOK, rows
<1>7. Receipts'
  BY <1>2, <1>5 DEF Receipts, rows
<1>8. CompletionIsAlone'
  BY <1>1, <1>2, <1>4, <1>5 DEF CompletionIsAlone, Receipts, rows
<1>9. CopiesAgree'
  BY <1>1, <1>5 DEF CopiesAgree
<1>10. ObjectsFit'
  <2>1. ASSUME NEW w \in jobs
        PROVE  /\ sealed'[versions[w].storage_key] = sealed[versions[w].storage_key]
               /\ backup'[versions[w].storage_key] = backup[versions[w].storage_key]
    BY <1>5 DEF Receipts
  <2> QED
    BY <1>2, <2>1 DEF ObjectsFit, rows
<1> QED
  BY <1>6, <1>7, <1>8, <1>9, <1>10

LEMMA QueueStep ==
    ASSUME UploadInv, Queue
    PROVE  UploadInv'
<1> USE DEF UploadInv
<1> DEFINE v == completion.version
<1>1. /\ completion # NoCompletion /\ completion.copy # 0
      /\ versions' = [versions EXCEPT ![v].status = "QUEUED", ![v].failure = "none",
                                      ![v].storage_key = completion.copy]
      /\ jobs' = jobs \union {v}
      /\ completion' = NoCompletion
      /\ UNCHANGED <<accepting, enrolled, form, store>>
  BY DEF Queue
<1>2. /\ v \in DOMAIN versions \ jobs
      /\ versions[v] \in Version /\ v \in 1..Len(versions)
      /\ completion.copy \in DOMAIN sealed
      /\ completion.copy \in 0..MaxSeals
      /\ completion.etag \in Files
  BY <1>1, VersionFields DEF CompletionIsAlone, TypeOK, Completion
<1>3. [[[versions[v] EXCEPT !.status = "QUEUED"] EXCEPT !.failure = "none"]
         EXCEPT !.storage_key = completion.copy] \in Version
  BY <1>2 DEF Version, Status, Failure
<1>4. /\ versions' = [w \in DOMAIN versions |-> versions'[w]]
      /\ DOMAIN versions' = DOMAIN versions
      /\ \A w \in DOMAIN versions \ {v} : versions'[w] = versions[w]
      /\ versions'[v] = [[[versions[v] EXCEPT !.status = "QUEUED"] EXCEPT !.failure = "none"]
                           EXCEPT !.storage_key = completion.copy]
  BY <1>1, <1>2 DEF TypeOK
<1>5. /\ versions'[v].file = versions[v].file
      /\ versions'[v].status = "QUEUED"
      /\ versions'[v].storage_key = completion.copy
  BY <1>2, <1>4 DEF Version
<1>6. versions' \in Seq(Version) /\ Len(versions') = Len(versions)
  <2>1. \A w \in DOMAIN versions : versions'[w] \in Version
    BY <1>3, <1>4, VersionFields
  <2> QED
    BY <1>4, <2>1 DEF TypeOK
<1>7. TypeOK'
  BY <1>1, <1>2, <1>4, <1>6 DEF TypeOK, store
<1>8. Receipts'
  <2>1. \A w \in jobs : w # v /\ versions'[w] = versions[w]
    BY <1>2, <1>4 DEF TypeOK
  <2>2. \A w \in jobs : versions'[w].storage_key # completion.copy
    BY <1>1, <2>1 DEF CompletionIsAlone
  <2>3. \A w \in DOMAIN versions' \ jobs' : /\ versions'[w].storage_key = 0
                                           /\ versions'[w].status # "AWAITING_REVIEW"
    BY <1>1, <1>4 DEF Receipts
  <2>4. \A w \in jobs' : /\ versions'[w].storage_key \in DOMAIN sealed
                         /\ versions'[w].status # "UPLOADING"
    BY <1>1, <1>2, <1>5, <2>1 DEF Receipts
  <2>5. \A w, x \in jobs' : versions'[w].storage_key = versions'[x].storage_key => w = x
    <3>1. \A w, x \in jobs : versions'[w].storage_key = versions'[x].storage_key => w = x
      BY <2>1 DEF Receipts
    <3>2. ASSUME NEW w \in jobs', NEW x \in jobs',
                 versions'[w].storage_key = versions'[x].storage_key
          PROVE  w = x
      <4>1. CASE w \in jobs /\ x \in jobs
        BY <3>1, <3>2, <4>1
      <4>2. CASE w = v /\ x = v
        BY <4>2
      <4>3. CASE w \in jobs /\ x = v
        BY <1>5, <2>2, <3>2, <4>3
      <4>4. CASE w = v /\ x \in jobs
        BY <1>5, <2>2, <3>2, <4>4
      <4> QED
        BY <1>1, <4>1, <4>2, <4>3, <4>4
    <3> QED
      BY <3>2
  <2> QED
    BY <1>1, <2>3, <2>4, <2>5 DEF Receipts, store
<1>9. CompletionIsAlone' /\ CopiesAgree'
  BY <1>1 DEF CompletionIsAlone, CopiesAgree, store
<1>10. ObjectsFit'
  <2>1. \A w \in jobs : versions'[w] = versions[w]
    BY <1>2, <1>4 DEF TypeOK
  <2>2. \A object \in {sealed[completion.copy], backup[completion.copy]} :
           Fits(object, versions'[v])
    BY <1>1, <1>5 DEF Fits, CompletionIsAlone
  <2> QED
    BY <1>1, <1>5, <2>1, <2>2 DEF ObjectsFit, store
<1> QED
  BY <1>7, <1>8, <1>9, <1>10

LEMMA LoseStep ==
    ASSUME UploadInv, LoseBucket
    PROVE  UploadInv'
<1> USE DEF UploadInv
<1>1. /\ sealed' = [n \in DOMAIN sealed |-> Missing]
      /\ staging' = [v \in DOMAIN staging |-> Missing]
      /\ UNCHANGED <<accepting, enrolled, rows, form, backup, completion>>
  BY DEF LoseBucket
<1>2. /\ sealed' \in Seq(Files \union {Missing}) /\ Len(sealed') = Len(sealed)
      /\ DOMAIN sealed' = DOMAIN sealed
      /\ \A n \in DOMAIN sealed : sealed'[n] = Missing
  BY <1>1 DEF TypeOK
<1>3. TypeOK'
  BY <1>1, <1>2 DEF TypeOK, rows
<1>4. Receipts'
  BY <1>1, <1>2 DEF Receipts, rows
<1>5. CompletionIsAlone' /\ CopiesAgree'
  BY <1>1, <1>2 DEF CompletionIsAlone, CopiesAgree, rows
<1>6. ObjectsFit'
  BY <1>1, <1>2 DEF ObjectsFit, Fits, Receipts, rows
<1> QED
  BY <1>3, <1>4, <1>5, <1>6

\* What a restored object is does not depend on who reads it.
LEMMA RestoreStep ==
    ASSUME UploadInv, NEW v \in jobs, Restore(v), UNCHANGED backup
    PROVE  /\ CopiesAgree'
           /\ \A w \in jobs : /\ Fits(sealed'[versions[w].storage_key], versions[w])
                              /\ Fits(backup'[versions[w].storage_key], versions[w])
           /\ \A n \in DOMAIN sealed : sealed'[n] \in {sealed[n], backup[n]}
<1> DEFINE n == versions[v].storage_key
<1>1. /\ DOMAIN sealed' = DOMAIN sealed
      /\ \A i \in DOMAIN sealed \ {n} : sealed'[i] = sealed[i]
      /\ n \in DOMAIN sealed
      /\ sealed'[n] \in {sealed[n], backup[n]}
      /\ backup[n] # Missing => sealed'[n] = backup[n]
  BY RestoreKeeps
<1>2. CopiesAgree'
  BY <1>1 DEF CopiesAgree, UploadInv
<1>3. \A w \in jobs : sealed'[versions[w].storage_key]
                        \in {sealed[versions[w].storage_key], backup[versions[w].storage_key]}
  BY <1>1 DEF UploadInv, Receipts
<1> QED
  BY <1>1, <1>2, <1>3 DEF UploadInv, ObjectsFit

LEMMA DownloadStep ==
    ASSUME UploadInv, NEW v \in DOMAIN versions, Download(v)
    PROVE  UploadInv'
<1>1. /\ v \in jobs /\ Restore(v)
      /\ UNCHANGED <<accepting, enrolled, rows, form, staging, backup, completion>>
  BY DEF Download
<1>2. /\ sealed' \in Seq(Files \union {Missing})
      /\ Len(sealed') = Len(sealed) /\ DOMAIN sealed' = DOMAIN sealed
  BY <1>1, RestoreKeeps
<1>3. /\ CopiesAgree'
      /\ \A w \in jobs : /\ Fits(sealed'[versions[w].storage_key], versions[w])
                         /\ Fits(backup'[versions[w].storage_key], versions[w])
      /\ \A n \in DOMAIN sealed : sealed'[n] \in {sealed[n], backup[n]}
  BY <1>1, RestoreStep
<1>4. TypeOK'
  BY <1>1, <1>2 DEF UploadInv, TypeOK, rows
<1>5. Receipts'
  BY <1>1, <1>2 DEF UploadInv, Receipts, rows
<1>6. CompletionIsAlone'
  BY <1>1, <1>2, <1>3 DEF UploadInv, CompletionIsAlone, rows
<1>7. ObjectsFit'
  BY <1>1, <1>3 DEF ObjectsFit, rows
<1> QED
  BY <1>3, <1>4, <1>5, <1>6, <1>7 DEF UploadInv

\* A new status of a received version, while no completion is in progress.
LEMMA VerdictStep ==
    ASSUME UploadInv, NEW v \in jobs, completion = NoCompletion,
           NEW status \in Status \ {"UPLOADING"}, NEW failure \in Failure,
           versions' = [versions EXCEPT ![v].status = status, ![v].failure = failure],
           Restore(v) \/ UNCHANGED sealed,
           status = "AWAITING_REVIEW" =>
               Restore(v) /\ Restored(versions[v].storage_key) = versions[v].file,
           UNCHANGED <<accepting, enrolled, jobs, form, staging, backup, completion>>
    PROVE  UploadInv'
<1> DEFINE n == versions[v].storage_key
<1>1. /\ versions' \in Seq(Version) /\ Len(versions') = Len(versions)
      /\ DOMAIN versions' = DOMAIN versions
      /\ \A w \in DOMAIN versions :
            /\ versions'[w].file = versions[w].file
            /\ versions'[w].storage_key = versions[w].storage_key
      /\ \A w \in DOMAIN versions \ {v} : versions'[w] = versions[w]
      /\ versions'[v].status = status
  BY StatusChange DEF UploadInv, TypeOK
<1>2. /\ sealed' \in Seq(Files \union {Missing})
      /\ Len(sealed') = Len(sealed) /\ DOMAIN sealed' = DOMAIN sealed
  BY RestoreKeeps DEF UploadInv, TypeOK
<1>3. /\ CopiesAgree'
      /\ \A w \in jobs : /\ Fits(sealed'[versions[w].storage_key], versions[w])
                         /\ Fits(backup'[versions[w].storage_key], versions[w])
  <2>1. CASE Restore(v)
    BY <2>1, RestoreStep
  <2>2. CASE UNCHANGED sealed
    BY <2>2 DEF UploadInv, CopiesAgree, ObjectsFit
  <2> QED
    BY <2>1, <2>2
<1>4. TypeOK'
  BY <1>1, <1>2 DEF UploadInv, TypeOK
<1>5. \A w \in jobs : w \in DOMAIN versions
  BY DEF UploadInv, TypeOK
<1>6. Receipts'
  <2>1. \A w \in DOMAIN versions' \ jobs' : /\ versions'[w].storage_key = 0
                                           /\ versions'[w].status # "AWAITING_REVIEW"
    BY <1>1 DEF UploadInv, Receipts
  <2>2. \A w \in jobs : /\ versions'[w].storage_key \in DOMAIN sealed
                        /\ versions'[w].status # "UPLOADING"
    BY <1>1, <1>5 DEF UploadInv, Receipts
  <2>3. \A w, x \in jobs : versions'[w].storage_key = versions'[x].storage_key => w = x
    BY <1>1, <1>5 DEF UploadInv, Receipts
  <2> QED
    BY <1>2, <2>1, <2>2, <2>3 DEF Receipts
<1>7. CompletionIsAlone'
  BY DEF CompletionIsAlone
<1>8. ASSUME NEW w \in jobs
      PROVE  /\ Fits(sealed'[versions'[w].storage_key], versions'[w])
             /\ Fits(backup'[versions'[w].storage_key], versions'[w])
  <2>1. CASE w # v
    BY <1>1, <1>3, <1>5, <2>1
  <2>2. CASE w = v /\ status # "AWAITING_REVIEW"
    BY <1>1, <1>3, <1>5, <2>2 DEF Fits
  <2>3. CASE w = v /\ status = "AWAITING_REVIEW"
    <3>1. sealed'[n] = versions[v].file /\ (backup[n] # Missing => backup[n] = versions[v].file)
      BY <2>3, RestoreKeeps
    <3> QED
      BY <1>1, <1>5, <2>3, <3>1 DEF Fits
  <2> QED
    BY <2>1, <2>2, <2>3
<1>9. ObjectsFit'
  BY <1>8 DEF ObjectsFit
<1> QED
  BY <1>3, <1>4, <1>6, <1>7, <1>9 DEF UploadInv

LEMMA AnalyseStep ==
    ASSUME UploadInv, NEW v \in DOMAIN versions, Analyse(v) \/ Retry(v)
    PROVE  UploadInv'
<1>1. v \in jobs /\ completion = NoCompletion
  BY DEF Analyse, Retry, Unlocked
<1>2. CASE Retry(v)
  <2>1. /\ versions' = [versions EXCEPT ![v].status = "QUEUED", ![v].failure = "none"]
        /\ UNCHANGED <<accepting, enrolled, jobs, form, staging, sealed, backup, completion>>
    BY <1>2 DEF Retry, store
  <2>2. "QUEUED" \in Status \ {"UPLOADING"} /\ "none" \in Failure
    BY DEF Status, Failure
  <2> QED
    BY <1>1, <2>1, <2>2, VerdictStep
<1>3. CASE Analyse(v)
  <2>1. PICK verdict \in Verdicts(v) :
           versions' = [versions EXCEPT ![v].status = verdict[1], ![v].failure = verdict[2]]
    BY <1>3 DEF Analyse
  <2>2. /\ verdict[1] \in Status \ {"UPLOADING"}
        /\ verdict[2] \in Failure
        /\ verdict[1] = "AWAITING_REVIEW" =>
              Restored(versions[v].storage_key) = versions[v].file
    BY <2>1 DEF Verdicts, Status, Failure
  <2> QED
    BY <1>1, <1>3, <2>1, <2>2, VerdictStep DEF Analyse
<1> QED
  BY <1>2, <1>3

\* What does not concern the rows and the sealed objects, or ends a completion.
LEMMA RowsAlone ==
    ASSUME UploadInv, UNCHANGED <<versions, jobs, sealed, backup>>,
           completion' \in {completion, NoCompletion},
           accepting' \in BOOLEAN, enrolled' \in BOOLEAN,
           form' \in [1..MaxSubmissions -> BOOLEAN],
           staging' \in [1..MaxSubmissions -> Files \union {Missing}]
    PROVE  UploadInv'
<1>1. TypeOK'
  BY DEF UploadInv, TypeOK
<1>2. Receipts' /\ CopiesAgree' /\ ObjectsFit'
  BY DEF UploadInv, Receipts, CopiesAgree, ObjectsFit
<1>3. CompletionIsAlone'
  BY DEF UploadInv, CompletionIsAlone
<1> QED
  BY <1>1, <1>2, <1>3 DEF UploadInv

LEMMA UploadStep ==
    ASSUME UploadInv, [Next]_vars
    PROVE  UploadInv'
<1>0. TypeOK
  BY DEF UploadInv
<1>1. CASE UNCHANGED vars
  BY <1>0, <1>1, RowsAlone DEF TypeOK, vars, rows, store
<1>2. CASE StopAccepting \/ ChangeMembership
  BY <1>0, <1>2, RowsAlone DEF StopAccepting, ChangeMembership, TypeOK, rows, store
<1>3. ASSUME NEW f \in Files, NEW k \in Keys, InitiateAgain(f, k)
      PROVE  UploadInv'
  BY <1>0, <1>3, RowsAlone DEF InitiateAgain, Renew, TypeOK, rows, store
<1>4. ASSUME NEW v \in 1..MaxSubmissions,
             \/ Expire(v) \/ ExpireStaging(v)
             \/ \E f \in Files : Post(v, f)
      PROVE  UploadInv'
  <2>1. UNCHANGED <<accepting, enrolled, versions, jobs, sealed, backup, completion>>
    BY <1>4 DEF Expire, ExpireStaging, Post, rows, store
  <2>2. form' \in [1..MaxSubmissions -> BOOLEAN]
    BY <1>0, <1>4 DEF Expire, ExpireStaging, Post, TypeOK
  <2>3. staging' \in [1..MaxSubmissions -> Files \union {Missing}]
    BY <1>0, <1>4 DEF Expire, ExpireStaging, Post, TypeOK, store
  <2> QED
    BY <1>0, <2>1, <2>2, <2>3, RowsAlone DEF TypeOK
<1>5. CASE SealRefused \/ Crash
  BY <1>0, <1>5, RowsAlone DEF SealRefused, Crash, TypeOK, rows, store
<1>6. ASSUME NEW v \in DOMAIN versions, HeadFails(v)
      PROVE  UploadInv'
  BY <1>6, StorageFault DEF HeadFails, MayComplete, Retryable, Unlocked, UploadInv, Receipts
<1>7. CASE SealFails
  BY <1>7, StorageFault DEF SealFails, UploadInv, CompletionIsAlone
<1> QED
  BY <1>1, <1>2, <1>3, <1>4, <1>5, <1>6, <1>7, InitiateStep, HeadStep, SealStep, QueueStep,
     LoseStep, DownloadStep, AnalyseStep
  DEF Next, Student, Complete, ObjectStore

-------------------------------------------------------------------------------

LEMMA UploadInit ==
    ASSUME Init
    PROVE  UploadInv
<1>1. TypeOK
  BY UploadConstants DEF Init, TypeOK
<1>2. Receipts /\ CompletionIsAlone /\ CopiesAgree /\ ObjectsFit
  BY DEF Init, Receipts, CompletionIsAlone, CopiesAgree, ObjectsFit
<1> QED
  BY <1>1, <1>2 DEF UploadInv

THEOREM UploadInvariant == Spec => []UploadInv
<1>1. Init => UploadInv
  BY UploadInit
<1>2. UploadInv /\ [Next]_vars => UploadInv'
  BY UploadStep
<1> QED
  BY <1>1, <1>2, PTL DEF Spec

\* From its receipt to the end of its analysis a version's object is the file it
\* was declared as, or is lost (submission.py:367, storage.py:113).
THEOREM ReceivedFileIsDeclared == Spec => []ReceivedFileIsTheDeclared
<1>1. UploadInv => ReceivedFileIsTheDeclared
  <2> SUFFICES ASSUME UploadInv
               PROVE  ReceivedFileIsTheDeclared
    OBVIOUS
  <2>1. \A v \in DOMAIN versions : versions[v].status = "AWAITING_REVIEW" => v \in jobs
    BY DEF UploadInv, Receipts
  <2>2. \A v \in jobs : /\ versions[v].storage_key # 0
                        /\ Stored(v) = sealed[versions[v].storage_key]
    BY DEF UploadInv, Receipts, TypeOK, Stored
  <2>3. AnalysedBytesAreDeclared
    BY <2>1, <2>2 DEF AnalysedBytesAreDeclared, UploadInv, ObjectsFit, Fits
  <2>4. ReceivedObjectWasChecked
    BY <2>2 DEF ReceivedObjectWasChecked, UploadInv, Receipts, ObjectsFit, Fits
  <2> QED
    BY <2>3, <2>4 DEF ReceivedFileIsTheDeclared
<1> QED
  BY <1>1, UploadInvariant, PTL

\* A received version keeps its object, whatever is repeated or retried
\* (submission.py:166).
THEOREM ReceiptIsFinal == Spec => ReceivedOnce
<1>1. UploadInv /\ [Next]_vars =>
        [\A v \in jobs : versions'[v].storage_key = versions[v].storage_key]_vars
  <2> SUFFICES ASSUME UploadInv, Next, NEW v \in jobs
               PROVE  versions'[v].storage_key = versions[v].storage_key
    BY DEF vars
  <2>0. TypeOK /\ v \in DOMAIN versions
    BY DEF UploadInv, TypeOK
  <2>1. ASSUME NEW f \in Files, NEW k \in Keys, Initiate(f, k)
        PROVE  versions'[v] = versions[v]
    BY <2>0, <2>1 DEF Initiate, TypeOK
  <2>2. CASE Queue
    <3>1. v # completion.version
      BY <2>2 DEF Queue, UploadInv, CompletionIsAlone
    <3> QED
      BY <2>0, <2>2, <3>1 DEF Queue, TypeOK
  <2>3. ASSUME NEW w \in DOMAIN versions, HeadFails(w) \/ Analyse(w) \/ Retry(w)
        PROVE  versions'[v].storage_key = versions[v].storage_key
    <3>1. PICK status \in Status, failure \in Failure :
             versions' = [versions EXCEPT ![w].status = status, ![w].failure = failure]
      <4>1. CASE HeadFails(w)
        BY <4>1 DEF HeadFails, StorageUnavailable, Status, Failure
      <4>2. CASE Retry(w)
        BY <4>2 DEF Retry, Status, Failure
      <4>3. CASE Analyse(w)
        <5>1. \A verdict \in Verdicts(w) : verdict[1] \in Status /\ verdict[2] \in Failure
          BY DEF Verdicts, Status, Failure
        <5> QED
          BY <4>3, <5>1 DEF Analyse
      <4> QED
        BY <2>3, <4>1, <4>2, <4>3
    <3> QED
      BY <2>0, <3>1, StatusChange
  <2>4. CASE SealFails
    <3>1. completion.version \in DOMAIN versions
      BY <2>4 DEF SealFails, UploadInv, CompletionIsAlone
    <3> QED
      BY <2>0, <2>4, <3>1, StatusChange DEF SealFails, StorageUnavailable, Status, Failure
  <2> QED
    BY <2>1, <2>2, <2>3, <2>4
    DEF Next, StopAccepting, ChangeMembership, Student, InitiateAgain, Complete, HeadObject,
        Seal, SealRefused, Crash, ObjectStore, Expire, ExpireStaging, Post, LoseBucket,
        Download, rows
<1> QED
  BY <1>1, UploadInvariant, PTL DEF ReceivedOnce, Spec

\* However often a request is repeated, no two versions are one file or come from
\* one request (BR-09).
THEOREM VersionsDiffer == Spec => []EachVersionIsAnotherFile
<1>1. Init => EachVersionIsAnotherFile
  BY DEF Init, EachVersionIsAnotherFile
<1>2. UploadInv /\ EachVersionIsAnotherFile /\ [Next]_vars => EachVersionIsAnotherFile'
  <2> SUFFICES ASSUME UploadInv, EachVersionIsAnotherFile, [Next]_vars
               PROVE  EachVersionIsAnotherFile'
    OBVIOUS
  <2>0. TypeOK
    BY DEF UploadInv
  <2>1. ASSUME NEW f \in Files, NEW k \in Keys, Initiate(f, k)
        PROVE  EachVersionIsAnotherFile'
    <3> DEFINE n == Len(versions) + 1
    <3>1. \A v \in DOMAIN versions : versions[v].key # k /\ versions[v].file # f
      BY <2>1 DEF Initiate, Repeats
    <3>2. /\ DOMAIN versions' = DOMAIN versions \union {n}
          /\ \A v \in DOMAIN versions : versions'[v] = versions[v]
          /\ versions'[n].file = f /\ versions'[n].key = k
      BY <2>0, <2>1 DEF Initiate, TypeOK
    <3> HIDE DEF n
    <3>3. ASSUME NEW v \in DOMAIN versions', NEW w \in DOMAIN versions',
                 \/ versions'[v].file = versions'[w].file
                 \/ versions'[v].key = versions'[w].key
          PROVE  v = w
      <4>1. CASE v \in DOMAIN versions /\ w \in DOMAIN versions
        BY <3>2, <3>3, <4>1 DEF EachVersionIsAnotherFile
      <4>2. CASE v = n \/ w = n
        BY <3>1, <3>2, <3>3, <4>2
      <4> QED
        BY <3>2, <4>1, <4>2
    <3> QED
      BY <3>3 DEF EachVersionIsAnotherFile
  <2>2. ASSUME /\ DOMAIN versions' = DOMAIN versions
               /\ \A v \in DOMAIN versions : /\ versions'[v].file = versions[v].file
                                            /\ versions'[v].key = versions[v].key
        PROVE  EachVersionIsAnotherFile'
    BY <2>2 DEF EachVersionIsAnotherFile
  <2>3. CASE Queue
    <3>1. completion.version \in DOMAIN versions
      BY <2>3 DEF Queue, UploadInv, CompletionIsAlone
    <3>2. \A v \in DOMAIN versions : versions[v] \in Version
      BY <2>0, VersionFields
    <3>3. /\ DOMAIN versions' = DOMAIN versions
          /\ \A v \in DOMAIN versions : /\ versions'[v].file = versions[v].file
                                        /\ versions'[v].key = versions[v].key
      BY <2>0, <2>3, <3>1, <3>2 DEF Queue, TypeOK, Version
    <3> QED
      BY <2>2, <3>3
  <2>4. ASSUME NEW w \in DOMAIN versions, NEW status \in Status, NEW failure \in Failure,
               versions' = [versions EXCEPT ![w].status = status, ![w].failure = failure]
        PROVE  EachVersionIsAnotherFile'
    BY <2>0, <2>2, <2>4, StatusChange
  <2>5. ASSUME NEW w \in DOMAIN versions, Analyse(w)
        PROVE  EachVersionIsAnotherFile'
    <3>1. \A verdict \in Verdicts(w) : verdict[1] \in Status /\ verdict[2] \in Failure
      BY DEF Verdicts, Status, Failure
    <3> QED
      BY <2>4, <2>5, <3>1 DEF Analyse
  <2>6. ASSUME NEW w \in DOMAIN versions, HeadFails(w) \/ Retry(w)
        PROVE  EachVersionIsAnotherFile'
    BY <2>4, <2>6 DEF HeadFails, StorageUnavailable, Retry, Status, Failure
  <2>7. CASE SealFails
    <3>1. completion.version \in DOMAIN versions
      BY <2>7 DEF SealFails, UploadInv, CompletionIsAlone
    <3> QED
      BY <2>4, <2>7, <3>1 DEF SealFails, StorageUnavailable, Status, Failure
  <2>8. CASE UNCHANGED versions
    BY <2>2, <2>8
  <2> QED
    BY <2>1, <2>3, <2>5, <2>6, <2>7, <2>8
    DEF Next, StopAccepting, ChangeMembership, Student, InitiateAgain, Complete, HeadObject,
        Seal, SealRefused, Crash, ObjectStore, Expire, ExpireStaging, Post, LoseBucket,
        Download, rows, vars
<1> QED
  BY <1>1, <1>2, UploadInvariant, PTL DEF Spec

===============================================================================
