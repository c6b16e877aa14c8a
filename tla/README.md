# DocGrading: verification project

DocGrading takes PDF submissions of students, analyses them in a background
worker, lets a teacher review what the analysis proposes, and publishes the
approved result.  The backend (`src/backend/app`) is a FastAPI application and a
Celery worker over PostgreSQL, Redis and an S3 object store; part of its rules
are database triggers (`src/backend/alembic/versions`).

These TLA+ modules describe the behaviour of that backend where it is
concurrent: rows that are locked, leased, retried and re-read by several
processes.  They are checked with TLC and, for the theorems below, proved with
TLAPS.

## 1. Inventory

| Component | State | Operations | Interacts with | What must hold |
|---|---|---|---|---|
| Analysis job (`services/analysis_job.py`) | job row: status, attempt, heartbeat; document status | create, claim, heartbeat, finish (compare-and-set), give up, retry | worker, outbox, upload, review | one worker per attempt, no stale overwrite, job and document move together, three attempts |
| Dispatch outbox (`services/analysis_dispatch.py`, migration 0007) | dispatch rows | trigger on QUEUED, publish, delete, back off | broker, job | no unfinished job without a wake-up |
| Worker and broker (`workers/`) | messages, per-task transaction | claim, evaluate, finish, defer, redeliver | job, storage, extraction, evaluators | progress under crashes and redelivery |
| Upload (`services/submission.py`, `services/storage.py`) | submission, document versions, staged and sealed objects | initiate, complete, recover | assignment, membership, storage, job | quota, idempotency, one job per document, sealed object exists |
| Assignment and rubric (`services/assignment.py`, `services/rubric.py`, triggers of migrations 0002, 0005, 0018) | assignment status, rubric, criteria, first submission | create, edit, publish, close, delete; criterion CRUD | upload, triggers, advisory locks | rubric frozen by the first submission, weights total 100 when open |
| Review (`services/review.py`) | review lock, drafts, approval, published results, commands | lock, save, approve, publish, bulk publish, unpublish, student read | job, upload, review requests | no silent overwrite, approval immutable, student sees the newest result only |
| Review requests (`services/appeal.py`) | requests on published results | open, respond | review, course | one open request per criterion and result |
| Course and roster (`services/course.py`) | course, memberships, invites, announcements | add, remove, archive | join, upload | revision conflicts, archived courses frozen |
| Join codes (`services/course_join.py`) | codes, rate-limit counters | create, revoke, regenerate, join | roster | one live code, limit counted under concurrency |
| Authentication (`services/auth.py`) | sessions, lockout counters, process-local throttle | login, logout, password change | users | lockout counts every failed attempt |
| LLM providers (`services/llm_providers.py`, `services/llm_credentials.py`) | providers, credentials, routes, revisions | test, route, activate, delete | job snapshot | at most one active ready route |
| Users (`services/operations.py`) | users, roles | update, metrics | auth | one active administrator remains |
| Citation evaluation (`services/citation.py`, `services/safe_fetch.py`) | pacers, breaker, caches in a worker process | parse, resolve, report | providers, worker | deadline and limits kept |
| Semantic evaluation (`services/semantic_*.py`, `services/text_encoder.py`) | call budget | retrieve, ask, score | models, worker | budget kept, scores bounded |
| Extraction and validation (`services/document_ir.py`, `services/pdf_validation.py`, `services/file_integrity.py`) | document IR, findings | parse, validate, report | worker | findings of a document belong to its last evaluation |
| Notifications, audit (`services/notification.py`, `services/audit.py`) | append-only rows | insert, mark read | all | same transaction as the change they tell of |
| HTTP API, frontend, scripts | none durable | | | |

Behaviours that are hard here: two workers and one lease; rows that are read
before they are locked (assignments, rubrics, review drafts in a browser);
messages that are lost, late or delivered twice; answers that are lost and
requests that are sent again; a transaction that fails after an earlier one of
the same task was committed.  `PROJECT.json` lists each hazard at its line with
the properties that would catch it.

## 2. Modules and plan

| Order | Modules | What they compose | Abstract specification | Theorems in | State |
|---|---|---|---|---|---|
| 1 | `AnalysisJob` | broker, outbox, workers, completion of an upload, retry | `JobLifecycle` | `AnalysisJobProofs` | done |
| 2 | `Review`, `ReviewReading` | `JobLifecycle` for the analysis; the screens that read it | `Publication` (what a student sees) | `ReviewProofs` | done |
| 3 | `Upload` | assignment and membership rows, object store, verdict of the analysis | | `UploadProofs` | done |
| 4 | `RubricFreeze` | services with stale reads, triggers with advisory locks | | `RubricFreezeProofs` | done |
| 5 | `CourseRoster`, `ReviewRequests` (extends it) | course row, memberships, codes, roles, publication, requests about results | | `CourseProofs` | done |
| 6 | `Accounts`, `SignIn`, `JoinLimit` | account rows and sessions; counters in the process and in the database | | `AccessProofs` | done |
| 7 | `LlmRouting`, `CitationResolution`, `SemanticEvaluation` | providers and credentials, threads with shared budgets | | `EvaluationProofs` | done |
| 8 | `BibliographyParsing`, `CitationFindings` (extends it) | pure reading of a document, and what two attempts write about it | | `CitationProofs` | done |

Each component has an MC module with instances of one or two submissions, jobs or
courses, two or three actors, and the limits of the program where these are small.
`MCAccess` and `MCEvaluation` each extend several modules that share no state in the
code, so that TLC evaluates the assumptions of them all; a variable `part` says which of them a behaviour is about, and the others
stay as they began.  A definition that follows the words `Mutant:` is not code of
the program: it is a bug the property named beside it in `PROJECT.json` must catch.

What could follow: the document IR and the PDF validation (section 11), if more of their
logic came to depend on state.

## 3. The analysis job

`AnalysisJob.tla` models one job row per document version, its dispatch row,
the broker and the workers.

* A worker's two transactions are explicit.  `pc = "claim"` is the first one
  with the job row locked (`claim_job_by_id`); `"load"`, `"hold"` and `"stamp"`
  are the second one before it locks the document, with the document locked
  (`get_or_build_document_ir`), and with the job row locked as well because the
  snapshot written by `evaluate_citations` was flushed.
* `MatchesClaim` is the compare-and-set of `mark_done` and `mark_error`;
  `FinishTooLate` is the rollback when it matches nothing.
* Time is abstract: `fresh` says whether the lease runs, `dispatch` whether the
  outbox row is due.  `LeaseExpires` needs every worker of the current attempt to
  be unable to heartbeat, unless `"slow_worker"` is among `Faults`.
* `Crash` loses a worker: its transaction is rolled back and Celery redelivers
  (`acks_late`, `reject_on_worker_lost`).  `TaskFails` (fault `"task_error"`) is
  an exception: the transaction is rolled back and the message acknowledged.
  `DeadlockVictim` is the same outcome after PostgreSQL broke a lock cycle.  It needs a
  worker overtaken by a takeover, so it is reached in `job_safety` and not in
  `job_task_error`, whose counterexample is a plain task error.

`JobLifecycle.tla` is the abstract specification: QUEUED, RUNNING, DONE, ERROR
and back, document and job in one step.  `AnalysisJob` implements it
(`ImplementsLifecycle`).

Divergence (`job_task_error`): an exception in a task after its claim was committed
(`workers/tasks.py:117`) leaves a RUNNING job without message and dispatch row.
The design document (`PROJECT_SCOPE_BUSINESS_RULES_TECH_STACK.md:184`) says a stale
job is claimed again.

## 4. Review and publication

`Review.tla` models `services/review.py` beside the analysis.  Every command on a
submission locks the course row (shared) and the submission row first, so each
command is one step; the interleaving that matters is that of browser sessions,
which send back what they loaded earlier, with the analysis and with each other.

| Variable | Code |
|---|---|
| `job`, `attempt`, `doc` | `AnalysisJob.status`, `attempt_count`, `DocumentVersion.status`; they change by the actions of `JobLifecycle`, which `AnalysisJob` implements |
| `findings` | the `Finding` rows of a document; an evaluation replaces them |
| `lock`, `live` | the `ReviewLock` row and whether `expires_at` is later than now |
| `drafts`, `newest` | `ReviewDraft` with its decisions for each reviewer, and the order of `updated_at` |
| `view` | the draft a session has on its screen, with the revision it came with |
| `approved`, `results`, `done` | `approved_snapshot`, `PublishedResultVersion`, `ReviewCommand` |
| `archived` | `Course.status` |

* `ReplaceFindings` is the foreign key `review_decisions.finding_id` (RESTRICT):
  an evaluation whose delete hits a decided finding raises and is rolled back.
  An evaluation that fails in the middle may have replaced the findings of one
  evaluator only (`ReplaceSomeFindings`).
* `Save` is a save with changes: review lock, latest document and revision must
  match.  Its answer may be lost (the view stays as it was).  `SaveAgain` is a
  save of what the draft already holds, which the code accepts under any revision.
* `Approve` takes the draft saved last, whoever saved it, and does not ask for
  the review lock.  `PublishAll` is `_publish_locked` for every document of a
  batch in one transaction.
* `Shown` is `get_student_published_result`.  The versions with a result are
  compared first and the status is looked at afterwards: when the newest
  published version is withdrawn, an older one does not come back.

`ReviewReading.tla` derives what the list of versions (`VersionList`), the
comparison of two versions (`Comparison`) and the result page (`ResultPage`) show.
They change nothing, but each has its own query and its own rule for what a
student may see; `ComparisonShowsWhatCounts` and `StudentScreensAgree` hold them
together.  A screen is read in one step.  Snapshots written before rejected
findings were kept apart are left out, and so are the queue, the workspace and the
grading history, which only read rows.

`Publication.tla` is the abstract specification: per submission one result or
none, replaced by later ones only, withdrawn as a whole.  `Review` implements it
with `shown <- Shown`, `top <- Top` (`ImplementsPublication`).

Abstractions.  `KEEP` stands for ACCEPT and EDIT; texts, scores, comments and
evidence are left out, and with them the 422 answers about them and the saves that
change nothing else (`review.py:1100`, 1314).  A missing draft
is a draft of revision 1, as `_draft_response` shows it.  Heartbeats of the
review lock, replayed commands and a key used again with another payload (409) are
stutters.  `updated_at` is the start of a transaction in PostgreSQL; the model
orders drafts by commit, which differs only when the review lock changes hands
while a save is waiting.  Notifications and audit rows are left out.

Divergence (`review_republication`): BR-20 (line 211) says that edits after a
publication make a new result.  A document is approved once: approval asks for
AWAITING_REVIEW (`review.py:1738`), withdrawal goes back to APPROVED (2105).
Publishing again repeats the old snapshot, whatever the draft says by then.

## 5. Uploads, rubrics and courses

### Upload

`Upload.tla` follows one submission.  `Initiate` and `InitiateAgain` are the two
ends of `initiate_upload` (`Repeats` is its search by key and by digest); the
student posts to the staging key while the presigned `form` is live (`Post`).  A
completion holds the locks of version, assignment and membership and talks to the
store meanwhile, so it is three steps (`HeadObject`, `Seal`, `Queue`) with its
faults between them (`HeadFails`, `SealFails`, `Crash`); `SealRefused` is the copy
on condition of the ETag.  `sealed` and `backup` are the objects under documents/ keys and the
local recovery copies; `LoseBucket` and `Restore` are `_create_recovery_bucket` and
`_restore`.  `Verdicts` is the digest check of `get_or_build_document_ir`.  Files
are their digests, with a size that two of them share.  File names, content types
and the list of versions are left out.

### Rubrics

`RubricFreeze.tla` has every operation on assignments and criteria as a READ
COMMITTED transaction: what it loaded is in its request, its locks are taken with
the statement that writes.  `rowLock`, `rubricLock` and `assignmentLock` are the
row locks and the two kinds of `fn_domain_lock`; `Free`/`Idle` are no lock and no
request.  `LockNextAssignment` takes the locks of a rubric's assignments
one by one in the order of their ids.  `WaitsFor` relates a request to the holder of the lock
that its next statement takes.  Weight 0 stands for a disabled criterion and one unit for 100.00.
Titles, levels and the deletion of unused rubrics are left out.

### Course, roster and review requests

`CourseRoster.tla` is one course.  An operation that needs no lock but that of the
course is one action (`LockActiveCourse` is `_lock_active_course`, which looks at
the status again).  `ADD`, `JOIN`, `CODE`, `ROLES`, `CREATE` and `ASSIGN` are transactions:
`requests` has the statement each has reached and `holds` the locks it has taken, which it
gives back together at its end.  The order of the locks is that of the code:

| Transaction | Locks, first to last |
|---|---|
| `ADD` (`add_member`) | course row, user's row, user's key if the membership is new |
| `JOIN` (`join_course`) | limit of the account, limit of the address, course row, key if the membership is new, share of the user's row |
| `CODE` (create, update, revoke, regenerate a join code) | `_JOIN_MUTATION_LOCK_ID`, course row |
| `ROLES` (`update_user`) | the advisory lock of account changes, user's row, user's key |
| `CREATE` (`create_course`) | owner's key, share of the owner's row |
| `ASSIGN` (`create_assignment`) | rubric's key, share of the course row |
| `FILE`, `ANSWER` (review requests) | share of the course row |

`Wants` is the lock that the next statement takes, with the share a foreign key takes, and `WaitsFor`
relates a transaction to one that has it; `Victim` is what PostgreSQL does to two that wait for each
other.  The first lock of a `JOIN`, a `CODE` and a `ROLES` is taken as they begin: who waits for it has
nothing yet and holds nobody up.  The row of `JoinRateLimit` of an account or an address is written
under its lock and is one with it; that a join also deletes rows whose window has passed (SKIP LOCKED) is in
`JoinLimit`.  `MayEnter` is the trigger `fn_validate_membership_role`.
The rows of the audit and the authors of rows name the actor's account in a foreign key.  That share
is the last a transaction takes, when it has the course already, and is left out: it adds no wait before
the course, but waits for accounts that are in a circle may so be of two accounts.

`ReviewRequests.tla` extends it with one student, the latest result and the
requests about it: `File` and `Answer` are the ends of transactions that share the
course from `ShareCourse` on, beside `Publish` and `Unpublish`.  The rows of
submission, document and result, and of a request, are locked and written in one step.
One criterion stands for the target; the end of the seven days and a newer
document are refusals, and a refusal is a `Rollback`.  Names, terms, revisions and
texts are left out.

## 6. Accounts and limits

`Accounts.tla`: a request authenticates once and keeps the account it read;
`UpdateMe` and `ChangePassword` lock the row but go by what was read before,
`UpdateCheck` reads it again (`populate_existing`).  `LoginVerify` and
`LoginCommit` hold the row between the check of the password and the session.
`renewed` is a history of the last change of each password.  Of the roles only
ADMIN is kept.  The actor's role is checked before the lock and not again, and an
account that is locked keeps its sessions, which are not valid meanwhile.

`SignIn.tla` is the throttle per client (`_login_attempts`, a table of bounded
size), the slots for password checks and the lockout of the account with its
window.  One known account stands for all, an attempt on another e-mail finds none.  The
clock is read once between the lock of the e-mail and that of the row.
`guesses` and `charged` are histories: the times of the wrong passwords since the
last sign-in, and for each client the failures of its window and how often an attempt
of an earlier window gave back to this one (`late`, the release at `auth.py:128`).
`GuessesAreLimited` is about every stretch of time, not about windows: what the end of one
window and the whole of the next allow (`TwoWindows`), in a stretch as long as the
window, or as the lockout if that is shorter (`Stretch`), since the settings (`config.py:53`) relate neither to the
other.  A limit of one failure locks at each, so `TwoWindows` is then 1.

`JoinLimit.tla` counts the attempts to join by account and by address in rows of
the database, with the advisory locks, the deletion of windows that have passed and the
clock that is read before the wait.  An attempt that ends in an error still counts.
Windows may overlap here: an attempt that waited for a row makes it again, with its older time,
when the row was deleted meanwhile.  With the attempts of `Joins` at a time, a stretch as long
as the window lets through `(Cardinality(Joins) + 1) * JoinsLimit - 1` of them at most.
For two attempts at a time that is what three windows allow; three that overlap get past it.

Divergence (`profile`): the overview (line 381) says that an old revision is refused with 412.
`update_me` (`api/routers/auth.py:205`) waits for the row but compares the revision
read before, so the second of two changes at one revision is stored over the first.

## 7. Evaluation of a document

`LlmRouting.tla`: providers with their credential and approval, the one route, the
snapshot a job takes of it (`granted` is a history of the key that was ready) and
the worker's check before it builds a model.  `approved` stands for enabled and data
policy approved; a key and its fingerprint are one value, and a key that
cannot be decrypted is no key; each provider has one variable in the environment, which may
change whenever a process restarts.

`CitationResolution.tla` is the look-up of the references of one job: arXiv in batches by one
thread, then Crossref and OpenAlex by several, with a pacer for each provider
(`slot`, reserved under a lock and waited for outside), the deadline, the breaker
and the budget of searches.  Time passes only while all threads wait; a request
ends within its timeout; a cached record is a reference
that is found at once, and arXiv is not asked when it has them all.
References that only repeat another one, or exceed the limits on look-ups, get no request and are left out.

`SemanticEvaluation.tla` is one run over the claims: sources from the private cache
or the network, claims in parallel, second attempts, the shared budget of calls
(`calls` is the counter, `asked` what really reached the model), the gate of the
score.  A PDF is the paper that is named or another one.

`BibliographyParsing.tla` reads a document in pure functions: paragraphs of the bibliography
to groups, groups to references, markers to mentions, mentions to references, each with its status.  A
paragraph is what the code's patterns see of it (`kind`, the entries it starts, whether
its text breaks off, whether it has a DOI or an arXiv id).  There is one author and year for each work; numbers are those in
brackets, superscripts are markers like others; page numbers and blank lines are left out.

`CitationFindings.tla` is what the evaluator writes from that: a finding for
every problem and criterion, cut at a limit whose last place stands for the rest,
and the counts of the summary, over several attempts.  An error of the evaluation commits
what had been written, an error of the database does not.  A provider knows no record, one
that agrees or one that differs.  The counts are those of `CitationReport.as_dict`, and they overlap:
`ambiguous` has the mentions that `ambiguous_mapping` counts, and `parser_uncertain` has every entry
that is illegible, the fragmented ones too, and every mention that is left to a person (linking one
writes its `parser_status`, `citation.py:1430`).  `SummaryTellsTheFindings` says for each count which findings make
it up, and that a reference without a finding is counted as verified and a mention without one as linked.
The rates and `bibliography_not_found` are left out.

## 8. Behaviours the models find without a run

These follow from the code, and the models show them; they are not kept as runs.
The properties in parentheses are stated in the modules, and TLC refutes them.

* An assignment can open with weights that do not total 100, since the sum is read without a lock
  (`OpensWithCompleteRubric`); an edit that loaded a draft changes an assignment that was opened meanwhile
  (`OnlyDraftsAreEdited`); two criteria added at once lose one of the additions to
  `total_weight` (`TotalIsSumOfWeights`).  The first submission freezes what it finds.
* A version that met a storage fault may have neither an object nor a live form,
  and then no later call completes it (`FailedUploadCanBeCompleted`).
* Nothing limits the active jobs of a student (BR-25, line 216; `AtMostTwoActiveJobs`).
* An archived course still takes uploads (`submission.py:109`; `ArchivedIsReadOnly`) and
  assignments (a create that loaded the active course, `InsertAssignment`).
* A decision on the findings of a failed analysis makes every retry raise at
  `file_integrity.py:81` or in `_clear_existing` of `citation.py`, after its claim (AT-06, line 290;
  `EveryAnalysisEnds`).
* `claim_job_by_id` skips a locked row (`analysis_job.py:407`).  A worker that lost
  its lease can hold that row as it writes its snapshot, so the message of the retried job is dropped (AT-07,
  line 291).  `WakeUpsSurviveCrashes` therefore assumes no slow worker.
* A join and a change of roles of the same user, or a new course and an addition or a change of
  roles of its owner, wait for each other: row before key in one, key before row in the other.
  PostgreSQL ends one (`Victim`).  No other wait is in a circle (`OnlyAccountsAreInCircles`).
* ArXiv identifiers that were never asked for, because of the deadline or the breaker,
  are cached as misses for five minutes (`citation.py:2037-2043`).
* A thread that passed the breaker's check still asks after it opened, and a
  success that was under way closes it again.
* A group "[1, 2]" whose entry 2 is missing is ambiguous as a whole, and a reference cited only there
  is reported as uncited (`citation.py:1410-1450`, 2411).
* An author-year mention whose entry was absorbed by a numbered one before it can be
  reported as an orphan.  Entries of a table are ignored when paragraphs gave groups.
  The finding of an unnumbered entry is titled with a number that another entry may print (2486-2493).
* The list of versions shows a student version 1 as published when version 2 was published and withdrawn,
  while the result page shows nothing.
* The history of a document's statuses is ordered by `changed_at`, the start of a transaction
  (trigger of migration 0020, `review.py:804`): a publication that waited for an approval can be listed before it.
* BR-33 asks for a notification of a withdrawal and `unpublish_result` adds none;
  `DocumentStatus.VALIDATING` and `AssignmentStatus.ARCHIVED` are never set by the services.

## 9. Runs, bounds and fairness

| Run | Instance | Shows |
|---|---|---|
| `job_safety` | 1 job, 3 workers, 3 attempts, 1 crash, both faults | types, exclusive attempts, current results, no stale overwrite, `JobLifecycle` |
| `job_liveness` | 1 job, 2 workers, 2 crashes, no faults, fairness | an unfinished job keeps a wake-up; every job ends |
| `job_task_error` | with `task_error`; expected violation | a stale job is not always claimed again |
| `review_editing` | 1 document, 1 finding, 2 attempts, alice in two tabs, bob (administrator) in one, 2 saves | no unseen overwrite; decisions and approvals match the findings |
| `review_publication` | 2 versions of 1 submission, 2 keys for each command, 2 saves | results show the approval, commands run once, screens agree, `Publication` |
| `review_republication` | expected violation | a result published again never shows the edits made since |
| `upload` | 3 files (2 of one size), 3 keys, 2 versions, 2 sealed copies | what is received is what was declared; no version twice |
| `rubric_freeze` | 2 assignments, 2 rubrics of 2 criteria, 2 overlapping requests | the freeze; no circle of locks, and nothing else holds a request up |
| `courses` | a student, a teacher who may become one, 1 address, 2 overlapping transactions, 1 code, 2 results, 2 requests | roles, archiving, deletion, codes, requests about results, no circle of waits but over accounts |
| `access` | accounts: 2 users, 2 passwords, 2 requests, 2 sessions; sign-in: 2 clients, 2 attempts, 1 slot, a table of 1; joins: 2 accounts and addresses, limit 1 | last administrator, sessions, lockout, throttle, join limit |
| `profile` | as `access`; expected violation | a stale change of a profile is stored |
| `evaluation` | routing: 2 providers, keys, administrators, 3 changes; look-up: 5 references, 2 lookups at a time, deadline 4; claims: 3 on 2 papers, 2 calls; documents: 8 bodies, up to 3 of 11 paragraphs of bibliography, with and without heading, or a table | keys, founded verdicts, budgets, certain errors, whole reports, limits of the look-up |

Bounds and why they are enough.

* Jobs share nothing but workers, so one job with three workers (an old attempt, a
  newer one and a claimer) shows every interleaving the locks allow.  Three
  attempts is the program's limit.  `MaxMessages` makes the publisher wait,
  `MaxCrashes` bounds lost workers.
* `MaxRevision` 3 lets a draft be created and changed once: two tabs meet at a
  revision, and a draft differs from its approval.  One finding tells decided from
  undecided and kept from rejected.  Two versions are what a student's view chooses between.
* Two sealed copies, under two keys, are the one a dead completion left and the one that is received.
* Two requests show every pair of operations on the course, the accounts and the
  rubrics; `access` needs two sessions for a change of password to find another one.
  A third request meets the same locks; the theorems of section 10 are for any number.
* `courses` has the state constraint `OnePartAtATime`: no join code in a course with
  results, and neither results nor other records once the teacher is a student as well.  What these parts have in common,
  the course row, the accounts and the memberships, is in each of them.  Two joins from one address, waits
  for a rubric, for the course in a change of codes, and circles over an account are reached.
* The limits of `access` and `evaluation` are small numbers in place of the program's
  (5 failures in 15 minutes and the like), and the clocks are bounded by `MaxClock`, `MaxTime` and
  `Deadline`: a window that ends, a lock that ends and the window after them fit.
  An account changes once in `access` (`MaxRevision` 2); the theorems about accounts are for any number of changes.
* `MaxReferences` 3, `MaxMentions` 3, `MaxFindings` 4 and `MaxAnchors` 2 are reached and exceeded by the documents of
  `evaluation`, as is the number of attempts (2).  A bibliography of three paragraphs starts with a
  paragraph of `Fronts`; shorter ones start with any.  Of the two cited papers one may be in the private cache.

Fairness (`job_liveness`, `job_task_error`).  The poller runs every second and its
publish calls time out, so each step of the publisher is weakly fair.  A worker
that can continue does.  Strong fairness is asked of two steps: `Publish`, since a
broker asked again and again accepts a message in the end, and `MissDefer`, since its
upsert waits behind the poller's short transactions and PostgreSQL queues lock
waiters.  The other runs are about safety and assume none.  Deadlock is not checked where the system
may stop: when all jobs have ended, and when an evaluation is over.

## 10. Proofs

Everything below holds for all values of the constants that satisfy the named
assumptions of the modules; the bounds on retries, revisions or rows are constants too.

| Module | Theorems | Inductive invariant |
|---|---|---|
| `AnalysisJobProofs` | `TypeOK`, `DocumentFollowsJob`, `OneWorkerPerAttempt`, `ResultOfLastAttempt`, `NoStaleOverwrite`, `StampPinsAttempt`, `ImplementsLifecycle` | `SafetyInv` |
| | `NoLostWakeUp`, if `Faults = {}` | `WakeUpInv` in addition |
| `ReviewProofs` | `TypeOK`, `RevisionIdentifiesContent`, `NoSilentOverwrite` | `ViewsFollowDrafts` in addition |
| | `DecisionsNameFindings`, `ApprovalDecidesFindings`, `ResultsShowApproval`, `CommandRunsOnce` | `PublicationInv` |
| | `ComparisonShowsWhatCounts`, `StudentScreensAgree`, `OnlyUnpublishHides`, `ImplementsPublication` | `PublicationInv`, `ReadingInv` |
| `UploadProofs` | `ReceivedFileIsTheDeclared`, `ReceivedOnce`, `EachVersionIsAnotherFile` | `UploadInv` |
| `RubricFreezeProofs` | `FrozenByFirstSubmission`, `NobodyWaitsInACircle` | `FreezeInv`, `OrderInv` |
| `CourseProofs` | `RolesBackTheCourse`, `ArchivedCourseIsReadOnly`, `DeletionLosesNothing`, `RevokedCodeAdmitsNobody`, `RequestsAreInOrder`, `OnlyAccountsAreInCircles` | `CourseInv` |
| `AccessProofs` | `ActiveAdminRemains`, `SessionsFollowTheAccount` | `AdminInv`, `LoginInv`, `RenewalInv` |
| | `ThrottleIsFair`, `GuessesAreLimited`, `JoinsAreLimited` | `ThrottleInv`, `GuessInv`, `JoinInv` |
| `EvaluationProofs` | `LookupKeepsItsLimits`, `VerdictsAreFounded`, `ScoreWithinBudget` | `ResolutionInv`, `SemanticInv` |
| | `KeysAreVerified` | `RoutingInv` |
| `CitationProofs` | `ErrorsAreCertain`, `ReportIsComplete`, `FindingsTypeOK` | `CitationInv` |

Why the invariants are needed:

* `SafetyInv` adds that a row is held by one worker, that a claimed attempt is never
  newer than the job's, and that a result was committed by an attempt that has ended.
  Without the row locks a claimer and a finishing worker could both move the job;
  without the bound on claimed attempts the compare-and-set would not identify one.
  `WakeUpInv` adds the publisher's due row, and a message or dispatch row for an abandoned job.
* `ViewsFollowDrafts`: no view is ahead of its draft, or a later save with other content would meet its revision.
* `PublicationInv` adds that a reviewed document has a finished job (so no step of the analysis
  touches it), that only approved or published documents have results, and that the command of every result is
  recorded.
* `ReadingInv`: the screens look at three tables under three conditions and agree because the tables
  do: an approval and the status of its document, a published document and its rows of results, the job of
  a version and the number of versions.  Every other step leaves the student's view alone (`QuietStep`, `QuietView`);
  `PublishView` and `UnpublishView` say what the two that are left do to it, and with them each step of `Review`
  is a `Show`, a `Withdraw` or nothing to `Publication`.
* `UploadInv`: a version that is not received still names its staging key (`Receipts`);
  the completion in progress alone knows the copy it made (`CompletionIsAlone`); a sealed object and
  its recovery copy never differ (`CopiesAgree`), so either may be lost; what a received
  version names has the size that was checked, and the declared digest once its analysis passed (`ObjectsFit`).
* `FreezeInv`: who changes a criterion holds the lock of its rubric (`LocksAreHeld`) and has
  passed every assignment of that rubric, each without a mark and with its
  lock taken (`PassedAreUnmarked`); a submission holds the row of an assignment that is no draft
  (`SubmittedAreNoDrafts`).  `TypeOK` is part of it.
* `OrderInv` is the canonical lock order of migration 0002: rows, then rubrics, then assignments by
  their ids.  It says in which phase a request may hold a lock of each kind, and that the assignments it has locked come before
  those in its `todo`.  In a circle of waiting requests one would hold an assignment's lock, and whoever holds one
  waits for a later one, which is held too: with finitely many assignments there is a last.
* `CourseInv`: whoever has the course, alone or shared, found it active, the code not
  revoked, the membership active, and all of it still holds (`FoundLasts`), since what would change it waits for the course.
  It also carries `OneOpenRequest`, and that a course that is not there has no members and no records (`NoneIsEmpty`).
  `TookItsLocks` adds which locks a transaction may have at the statement it has reached.
  `OnlyAccountsAreInCircles` rests on it.  Who waits for the course has join limits, the lock on codes or a rubric already;
  but who has the course has passed those, and waits, if at all, for the row or the key of an account, and so on up a
  circle: `WaitedForIsAhead` says that whoever is waited for is further along the order limits, codes and rubric,
  course, accounts, so the transactions that are further along than the first are a set without a way back.  Among the
  accounts there is no such order (section 8).
* `AdminInv`: one change by an administrator is past its checks at a time (`OneChange`), and
  what allowed it lasts until it commits (`ChangeIsAllowed`).  `LoginInv`: who is past the check of a
  password holds the row, so the account is still active when the session is made.
  `RenewalInv`: the sessions a change of password found have ended, but for the one that asked.
* `ThrottleInv`: the limit is checked against the entry of a client, so the entry is bounded from both sides by the
  failures and the attempts in progress of its window (`OnlyFailuresAreCharged` from above,
  `ChargesAreCounted` from below, less what late releases took), and a client has one entry
  (`OneEntryEach`).
* `GuessInv`: the account's counter is the number of passwords at the end of the history that fall in its window
  (`AccountCountsItsWindow`).  Before that window, all passwords but `FailureLimit - 2` are a stretch away
  (`EarlierWindowsAreAway`), since a window that did not lock ended before its limit and one that did was
  followed by the lockout.  So two passwords that are `TwoWindows` places apart are a stretch apart (`GuessesAreApart`),
  and a stretch has no more (`ApartIsFew`).
* `JoinInv` is a budget.  A row that stands in a stretch of time counts what it let
  through; a row that began earlier, or was made again by an attempt that had waited, can let through
  one less than the limit, and each needs an attempt that was in progress before the stretch.
  `During` sets what got through against the row and the older attempts that are left, `Over` against the
  attempts of the stretch that are not committed yet.  `HeldApart` and `HeldIsCurrent` say that two attempts
  never hold one row and that what an attempt counted is what it will write.
* `RoutingInv`: the revision of a credential stands for one key.  As long as it stays the same, a
  fingerprint that is set does not change, so a row read with the revision of a snapshot has the key of
  the snapshot (`SnapshotsPinTheirKey`); the answer of a test is applied only to a row that
  stores the key it asked with (`TestsUseTheirRow`).
* `ResolutionInv`: the slots of a provider that are taken or were begun lie an interval apart (`SlotsAreApart`);
  whatever a thread waits for comes before the deadline (`ThreadsInOrder`); the threads that passed the breaker
  are among those that run (`FewHold`), and so is the one whose failure opens it (`BreakerCounts`); a search
  is counted once, pending or begun.
* `SemanticInv`: a claim goes on only with the paper its reference names (`ClaimsHaveTheirPaper`), the counter
  of calls is what reached the model (`asked = calls`), and the score comes when every claim has ended (`ScoreIsLast`).
* `CitationInv` says that the report is what the parser makes of the document, and that a job that is done has the
  findings and the summary of one evaluation, whole (`Settled`); every finding is of a criterion that
  the next attempt clears.  The rest is about pure functions.  `ErrorsAreCertain` needs that no number in front of an
  entry is lost without the report being uncertain: each number becomes the number of a group, each group a reference
  unless the list is cut short, and a list cut short is uncertain (`OrphansAreCertain`).
  `ReportIsComplete` needs that a reference is told by its id and a mention by its place, so the rows
  of problems differ in id and status and none is dropped as a repetition (`UniqueId` against two entries with one number),
  and that a cut list and its last row count what they leave out (`CriterionShowsAll`).
  The counts of the summary are then sums over the statuses: a status has as many findings as places of the report it is
  about (`StatusTold`), and findings with different statuses add up (`ToldTogether`, `CountsAgree`).

The groups of a bibliography, the numbers of its entries and the markers of a text are recursive functions of a place.  What
holds of them at every place is proved with `UpTheLine`: the claim is given as the set of the places it
holds at, which a well-founded order (`WFMin`) needs no operator for.

Assumptions.  Those on numbers say what the settings check (`config.py`: a limit, a window and a lockout of at least one).  The
others keep values apart that stand for different things: a model value for "none" is no row, request or snapshot
(`NothingIsNoContent`, `RoutingConstants`, `SemanticConstants`, `SignInConstants`, `JoinConstants`), an address is no
account, `Role` is no stored key; `Attempts`, `Joins`, `Claims`, `Assignments` and the references of a look-up are finite sets.
`DocumentForms` is what the patterns can make of a text: numbers stand in front of entries only, a paragraph without
such entries is at most one entry.  The limits of the report are at least one, and a provider answers in one of three ways.

What the proofs taught about the model.  `JoinsAreLimited` was once stated with the bound of three windows and
held in every run, since two attempts overlap there; no invariant could be found for it, and TLC
refuted it with three.  `GuessesAreLimited` in a stretch of the window alone is false for
settings with a lockout shorter than the window.  `RequestsDoNotBlockEachOther` asked that one of all requests can go
on, which two that wait for each other beside a third one would have met.  That the course is in no circle was once
proved from the statement that whoever waits for it holds nothing, which the code does not keep; with the locks as
they are taken it needs their order.
That `ErrorsAreCertain` holds rests on what a document can be, so `DocumentForms` had to be said.

Not proved, checked by TLC only:

* liveness (`EveryJobEnds`);
* of `RequestsDoNotBlockEachOther`, that a request which waits for nobody can go on, which is stated with ENABLED.
  That nobody waits in a circle, its other half, is proved;
* the three properties that are expected to fail.

`DocumentFollowsJob`, `FindingsTypeOK`, `OrderInv` and the `TypeOK` of `Review` are proved and not checked by a run of their own.

## 11. Not modelled

* Extraction and PDF validation (`services/document_ir.py`, `services/pdf_validation.py`): long pure
  functions of bytes.  Their locks and outcomes are in `AnalysisJob`, the digest
  check in `Upload`.
* Patterns over texts, similarity of titles, ranking of passages, prompts: the models choose their outcomes.
* Metrics, the audit list, the queue, the workspace and the grading history: queries.
  `User administration and metrics` is therefore modelled in part.
* Notifications and audit: rows inserted in the transaction of the change they tell of, marked
  read under a row lock.
* HTTP parsing and access checks, cookies and CSRF tokens, the frontend, scripts and deployment.
* `claim_next_job`, which has no caller.
