-------------------------------- MODULE Review --------------------------------
(***************************************************************************)
(* Review of analysed documents: the soft lock of a submission, the drafts *)
(* of reviewers, approval, publication and what a student sees             *)
(* (services/review.py), beside the analysis that writes the findings a    *)
(* draft decides on (services/analysis_job.py, file_integrity.py and       *)
(* citation.py).                                                           *)
(*                                                                         *)
(* Every command on a submission locks its row first, so a command is one  *)
(* step; what interleaves are commands of several browser sessions, which  *)
(* act on the draft they loaded earlier, and the analysis, taken from      *)
(* JobLifecycle, which AnalysisJob implements.                             *)
(***************************************************************************)
EXTENDS Naturals, Sequences

CONSTANTS
    Submissions,  \* submissions of one assignment
    MaxVersions,  \* Assignment.max_submissions
    Findings,     \* what an analysis may find in a document
    Scored,       \* findings that propose a score
    Reviewers,    \* the owner of the course and the administrators
    Admins,
    NoReviewer,
    Sessions,     \* browser sessions
    User,         \* the reviewer of a session
    Commands,     \* idempotency keys of the reviewers
    Nothing,      \* no approval, no result
    MaxAttempts,  \* AnalysisJob.max_attempts
    MaxRevision   \* bound: edits of a draft

ASSUME ReviewConstants ==
    /\ MaxVersions \in Nat \ {0}
    /\ Scored \subseteq Findings
    /\ Admins \subseteq Reviewers
    /\ NoReviewer \notin Reviewers
    /\ User \in [Sessions -> Reviewers]
    /\ MaxAttempts \in Nat \ {0}
    /\ MaxRevision \in Nat

Documents == Submissions \X (1..MaxVersions)

\* The decisions of a draft or of a snapshot, one for each finding decided on;
\* "KEEP" stands for ACCEPT and EDIT.
Decisions == [Findings -> {"NONE", "KEEP", "REJECT"}]
Undecided == [f \in Findings |-> "NONE"]

ASSUME NothingIsNoContent ==
    /\ Nothing \notin Decisions
    /\ Nothing \notin [version : Nat, number : Nat, snapshot : Decisions]

VARIABLES
    job,       \* AnalysisJob.status of a document
    attempt,   \* AnalysisJob.attempt_count
    doc,       \* DocumentVersion.status
    findings,  \* the Finding rows of a document
    latest,    \* the highest version number of a submission
    lock,      \* the ReviewLock row: its holder
    live,      \* the lock's expires_at is later than now
    drafts,    \* ReviewDraft and its decisions; revision 1 is a missing row
    newest,    \* the reviewer whose draft of a document was saved last
    view,      \* the draft a session has loaded, and its revision
    approved,  \* DocumentVersion.approved_snapshot
    results,   \* PublishedResultVersion rows, with the command that made them
    done,      \* ReviewCommand rows
    archived   \* the course is archived

jobVars == <<job, attempt, doc, findings, latest>>
draftVars == <<lock, live, drafts, newest, view>>
publicVars == <<approved, results, done>>
vars == <<jobVars, draftVars, publicVars, archived>>

Job == INSTANCE JobLifecycle WITH Jobs <- Documents, status <- job

DocumentStatus == {"UPLOADING", "QUEUED", "PROCESSING", "AWAITING_REVIEW", "APPROVED",
                   "PUBLISHED", "INVALID", "PROCESSING_FAILED"}

Actions == {"APPROVE", "PUBLISH", "BULK_PUBLISH", "UNPUBLISH"}

Draft == [revision : Nat, decisions : Decisions]
Result == [snapshot : Decisions, command : Actions \X Commands]
View == [document : Documents, revision : Nat, base : Decisions]

TypeOK ==
    /\ job \in [Documents -> {"NONE", "QUEUED", "RUNNING", "DONE", "ERROR"}]
    /\ attempt \in [Documents -> 0..MaxAttempts]
    /\ doc \in [Documents -> DocumentStatus]
    /\ findings \in [Documents -> SUBSET Findings]
    /\ latest \in [Submissions -> 0..MaxVersions]
    /\ lock \in [Submissions -> Reviewers \union {NoReviewer}]
    /\ live \in [Submissions -> BOOLEAN]
    /\ drafts \in [Documents -> [Reviewers -> Draft]]
    /\ newest \in [Documents -> Reviewers \union {NoReviewer}]
    /\ view \in [Sessions -> View \union {Nothing}]
    /\ approved \in [Documents -> Decisions \union {Nothing}]
    /\ results \in [Documents -> Seq(Result)]
    /\ done \subseteq Actions \X Commands
    /\ archived \in BOOLEAN

Init ==
    /\ Job!Init
    /\ findings = [d \in Documents |-> {}]
    /\ latest = [s \in Submissions |-> 0]
    /\ lock = [s \in Submissions |-> NoReviewer]
    /\ live = [s \in Submissions |-> FALSE]
    /\ drafts = [d \in Documents |->
                   [r \in Reviewers |-> [revision |-> 1, decisions |-> Undecided]]]
    /\ newest = [d \in Documents |-> NoReviewer]
    /\ view = [c \in Sessions |-> Nothing]
    /\ approved = [d \in Documents |-> Nothing]
    /\ results = [d \in Documents |-> << >>]
    /\ done = {}
    /\ archived = FALSE

-------------------------------------------------------------------------------
(* Upload and analysis.                                                    *)

LatestDocument(s) == <<s, latest[s]>>

\* Mutant: the limit is compared with the versions there were before this one.
InitiateOneMore(s) ==
    /\ latest[s] <= MaxVersions
    /\ latest' = [latest EXCEPT ![s] = @ + 1]
    /\ UNCHANGED <<job, attempt, doc, findings, draftVars, publicVars, archived>>

\* initiate_upload: the next version of a submission exists from here on.
Initiate(s) ==
    /\ latest[s] < MaxVersions
    /\ latest' = [latest EXCEPT ![s] = @ + 1]
    /\ UNCHANGED <<job, attempt, doc, findings, draftVars, publicVars, archived>>

Complete(d) ==
    /\ d[2] <= latest[d[1]]
    /\ Job!Submit(d)
    /\ UNCHANGED <<findings, latest, draftVars, publicVars, archived>>

\* A claim, or the takeover of an abandoned attempt.
Claim(d) ==
    /\ Job!Begin(d)
    /\ UNCHANGED <<findings, latest, draftVars, publicVars, archived>>

\* Mutant: findings are deleted whatever drafts say about them.
ReplaceDecidedFindings(d) ==
    \E found \in SUBSET Findings : findings' = [findings EXCEPT ![d] = found]

\* An evaluation deletes the findings of an earlier attempt and inserts its own.
\* A decision on one of them forbids that (ReviewDecision.finding_id is
\* RESTRICT): the flush raises and the transaction is rolled back.
ReplaceFindings(d) ==
    /\ \A r \in Reviewers, f \in findings[d] : drafts[d][r].decisions[f] = "NONE"
    /\ \E found \in SUBSET Findings : findings' = [findings EXCEPT ![d] = found]

Analyse(d) ==
    /\ Job!Succeed(d)
    /\ ReplaceFindings(d)
    /\ UNCHANGED <<latest, draftVars, publicVars, archived>>

\* One of the evaluators replaces only the findings of its own criteria.
ReplaceSomeFindings(d) ==
    \E gone \in SUBSET findings[d], found \in SUBSET Findings :
        /\ \A r \in Reviewers, f \in gone : drafts[d][r].decisions[f] = "NONE"
        /\ findings' = [findings EXCEPT ![d] = (@ \ gone) \union found]

\* A failure before the evaluation leaves the findings alone; one in the middle
\* of it (evaluation_error) fails the document and commits those written so far,
\* beside the ones of the evaluators it did not come to.
AnalysisFails(d) ==
    /\ Job!Fail(d)
    /\ \/ UNCHANGED findings
       \/ doc'[d] = "PROCESSING_FAILED" /\ ReplaceSomeFindings(d)
    /\ UNCHANGED <<latest, draftVars, publicVars, archived>>

\* retry_job looks at the job only, not at what reviewers did meanwhile.
Retry(d) ==
    /\ Job!Retry(d)
    /\ UNCHANGED <<findings, latest, draftVars, publicVars, archived>>

-------------------------------------------------------------------------------
(* The review lock.                                                        *)

HoldsLock(r, s) == lock[s] = r /\ live[s]

Acquire(r, s) ==
    /\ ~archived
    /\ live[s] => lock[s] = r
    /\ lock' = [lock EXCEPT ![s] = r]
    /\ live' = [live EXCEPT ![s] = TRUE]
    /\ UNCHANGED <<jobVars, drafts, newest, view, publicVars, archived>>

\* The holder releases a live lock, an administrator any other one.
ReleaseLock(r, s) ==
    /\ lock[s] # NoReviewer
    /\ HoldsLock(r, s) \/ (r \in Admins /\ ~HoldsLock(r, s))
    /\ lock' = [lock EXCEPT ![s] = NoReviewer]
    /\ live' = [live EXCEPT ![s] = FALSE]
    /\ UNCHANGED <<jobVars, drafts, newest, view, publicVars, archived>>

\* Ten minutes without a heartbeat or a save.
LockExpires(s) ==
    /\ live[s]
    /\ live' = [live EXCEPT ![s] = FALSE]
    /\ UNCHANGED <<jobVars, lock, drafts, newest, view, publicVars, archived>>

-------------------------------------------------------------------------------
(* Drafts.                                                                 *)

Show(c, d, draft) ==
    view' = [view EXCEPT ![c] = [document |-> d, revision |-> draft.revision,
                                 base |-> draft.decisions]]

\* get_review_draft of the latest document.
Load(c, s) ==
    /\ latest[s] > 0
    /\ Show(c, LatestDocument(s), drafts[LatestDocument(s)][User[c]])
    /\ UNCHANGED <<jobVars, lock, live, drafts, newest, publicVars, archived>>

\* _require_review_lock and the check of the body's document version.
MaySave(c, d) ==
    /\ ~archived
    /\ HoldsLock(User[c], d[1])
    /\ d = LatestDocument(d[1])

\* A decision is on a finding of the document, and a rejected score is
\* restored by a decision, not by dropping the old one.
AcceptableChange(d, old, new) ==
    /\ \A f \in Findings : new[f] # "NONE" => f \in findings[d]
    /\ \A f \in Scored : old[f] = "REJECT" => new[f] # "NONE"

\* Mutant: a new draft is stored with the revision a missing one is shown with.
SaveAtFirstRevision(c) ==
    /\ view[c] # Nothing
    /\ LET d == view[c].document
           r == User[c]
           draft == drafts[d][r]
       IN /\ MaySave(c, d)
          /\ view[c].revision = draft.revision
          /\ draft.revision < MaxRevision
          /\ \E new \in Decisions :
                LET saved == [revision |-> IF newest[d] = NoReviewer THEN 1
                                           ELSE draft.revision + 1,
                              decisions |-> new] IN
                /\ AcceptableChange(d, draft.decisions, new)
                /\ drafts' = [drafts EXCEPT ![d][r] = saved]
                /\ newest' = [newest EXCEPT ![d] = r]
                /\ Show(c, d, saved) \/ UNCHANGED view
    /\ UNCHANGED <<jobVars, lock, live, publicVars, archived>>

\* save_review_draft with changes: the revision the session loaded must still
\* be the draft's; the answer may be lost on its way.
Save(c) ==
    /\ view[c] # Nothing
    /\ LET d == view[c].document
           r == User[c]
           draft == drafts[d][r]
       IN /\ MaySave(c, d)
          /\ view[c].revision = draft.revision
          /\ draft.revision < MaxRevision
          /\ \E new \in Decisions :
                LET saved == [revision |-> draft.revision + 1, decisions |-> new] IN
                /\ draft.revision > 1 => new # draft.decisions
                /\ AcceptableChange(d, draft.decisions, new)
                /\ drafts' = [drafts EXCEPT ![d][r] = saved]
                /\ newest' = [newest EXCEPT ![d] = r]
                /\ Show(c, d, saved) \/ UNCHANGED view
    /\ UNCHANGED <<jobVars, lock, live, publicVars, archived>>

\* A save of what the draft already holds, such as a retry of a save whose
\* answer was lost, is accepted under any revision and answered with the draft.
SaveAgain(c) ==
    /\ view[c] # Nothing
    /\ LET d == view[c].document
           draft == drafts[d][User[c]]
       IN /\ MaySave(c, d)
          /\ draft.revision > 1
          /\ Show(c, d, draft)
    /\ UNCHANGED <<jobVars, lock, live, drafts, newest, publicVars, archived>>

-------------------------------------------------------------------------------
(* Commands: approval and publication.                                     *)

\* Mutant: a command is executed every time it arrives.
RunsAlways(action, k) ==
    /\ <<action, k>> \in Actions \X Commands
    /\ done' = done \union {<<action, k>>}

\* _command_start and _command_finish: a key that was executed is answered
\* from its row and changes nothing.
RunsOnce(action, k) ==
    /\ <<action, k>> \notin done
    /\ done' = done \union {<<action, k>>}

LatestDraft(d) == drafts[d][newest[d]].decisions

\* Mutant: approval without a decision for every finding.
ApproveIncomplete(d, k) ==
    /\ RunsOnce("APPROVE", k)
    /\ ~archived
    /\ doc[d] = "AWAITING_REVIEW"
    /\ newest[d] # NoReviewer
    /\ approved' = [approved EXCEPT ![d] = LatestDraft(d)]
    /\ doc' = [doc EXCEPT ![d] = "APPROVED"]
    /\ UNCHANGED <<job, attempt, findings, latest, draftVars, results, archived>>

\* approve_document_version freezes the draft saved last, whoever saved it, once
\* it decides on every finding.  The review lock is not asked for.
Approve(d, k) ==
    /\ RunsOnce("APPROVE", k)
    /\ ~archived
    /\ doc[d] = "AWAITING_REVIEW"
    /\ newest[d] # NoReviewer
    /\ \A f \in findings[d] : LatestDraft(d)[f] # "NONE"
    /\ approved' = [approved EXCEPT ![d] = LatestDraft(d)]
    /\ doc' = [doc EXCEPT ![d] = "APPROVED"]
    /\ UNCHANGED <<job, attempt, findings, latest, draftVars, results, archived>>

\* Mutant: the batch publishes what the reviewers' drafts say now.
PublishDrafts(batch, command) ==
    /\ ~archived
    /\ \A d \in batch : doc[d] = "APPROVED" /\ approved[d] # Nothing
    /\ results' = [d \in Documents |->
                     IF d \in batch
                     THEN Append(results[d], [snapshot |-> LatestDraft(d), command |-> command])
                     ELSE results[d]]
    /\ doc' = [d \in Documents |-> IF d \in batch THEN "PUBLISHED" ELSE doc[d]]
    /\ UNCHANGED <<job, attempt, findings, latest, draftVars, approved, archived>>

\* _publish_locked for each document of a batch: all of them or none.
PublishAll(batch, command) ==
    /\ ~archived
    /\ \A d \in batch : doc[d] = "APPROVED" /\ approved[d] # Nothing
    /\ results' = [d \in Documents |->
                     IF d \in batch
                     THEN Append(results[d], [snapshot |-> approved[d], command |-> command])
                     ELSE results[d]]
    /\ doc' = [d \in Documents |-> IF d \in batch THEN "PUBLISHED" ELSE doc[d]]
    /\ UNCHANGED <<job, attempt, findings, latest, draftVars, approved, archived>>

Publish(d, k) ==
    /\ RunsOnce("PUBLISH", k)
    /\ PublishAll({d}, <<"PUBLISH", k>>)

BulkPublish(batch, k) ==
    /\ RunsOnce("BULK_PUBLISH", k)
    /\ PublishAll(batch, <<"BULK_PUBLISH", k>>)

\* Mutant: the result row is deleted, so its number is given out again.
UnpublishDeletes(d, k) ==
    /\ RunsOnce("UNPUBLISH", k)
    /\ ~archived
    /\ doc[d] = "PUBLISHED"
    /\ d = LatestDocument(d[1])
    /\ doc' = [doc EXCEPT ![d] = "APPROVED"]
    /\ results' = [results EXCEPT ![d] = SubSeq(@, 1, Len(@) - 1)]
    /\ UNCHANGED <<job, attempt, findings, latest, draftVars, approved, archived>>

\* unpublish_result of the newest result of the latest document.
Unpublish(d, k) ==
    /\ RunsOnce("UNPUBLISH", k)
    /\ ~archived
    /\ doc[d] = "PUBLISHED"
    /\ d = LatestDocument(d[1])
    /\ doc' = [doc EXCEPT ![d] = "APPROVED"]
    /\ UNCHANGED <<job, attempt, findings, latest, draftVars, approved, results, archived>>

\* archive_course waits for commands that share the course row.
Archive ==
    /\ ~archived
    /\ archived' = TRUE
    /\ UNCHANGED <<jobVars, draftVars, publicVars>>

-------------------------------------------------------------------------------

Analysis(d) ==
    Complete(d) \/ Claim(d) \/ Analyse(d) \/ AnalysisFails(d) \/ Retry(d)

Editing ==
    \/ \E s \in Submissions :
          \/ LockExpires(s)
          \/ \E r \in Reviewers : Acquire(r, s) \/ ReleaseLock(r, s)
          \/ \E c \in Sessions : Load(c, s)
    \/ \E c \in Sessions : Save(c) \/ SaveAgain(c)

Command(k) ==
    \/ \E d \in Documents : Approve(d, k) \/ Publish(d, k) \/ Unpublish(d, k)
    \/ \E batch \in SUBSET Documents \ {{}} : BulkPublish(batch, k)

Next ==
    \/ \E s \in Submissions : Initiate(s)
    \/ \E d \in Documents : Analysis(d)
    \/ Editing
    \/ \E k \in Commands : Command(k)
    \/ Archive

Spec == Init /\ [][Next]_vars

\* An evaluation that can write its findings ends.
FairSpec == Spec /\ \A d \in Documents : WF_vars(Claim(d)) /\ WF_vars(Analyse(d))

-------------------------------------------------------------------------------
(* What a student sees.                                                    *)

PublishedVersions(s) == {v \in 1..MaxVersions : results[<<s, v>>] # << >>}

NewestPublished(s) ==
    CHOOSE v \in PublishedVersions(s) : \A w \in PublishedVersions(s) : w <= v

LastResult(s) ==
    LET v == NewestPublished(s)
        rows == results[<<s, v>>]
    IN [version |-> v, number |-> Len(rows), snapshot |-> rows[Len(rows)].snapshot]

\* Mutant: only the latest document of the submission is looked at.
ShownOfLatest(s) ==
    IF /\ PublishedVersions(s) # {}
       /\ NewestPublished(s) = latest[s]
       /\ doc[<<s, NewestPublished(s)>>] = "PUBLISHED"
    THEN LastResult(s)
    ELSE Nothing

\* get_student_published_result: the newest document that was ever published,
\* if it is published now, with its newest result.
Shown(s) ==
    IF /\ PublishedVersions(s) # {}
       /\ doc[<<s, NewestPublished(s)>>] = "PUBLISHED"
    THEN LastResult(s)
    ELSE Nothing

Top(s) ==
    IF PublishedVersions(s) = {} THEN <<0, 0>>
    ELSE <<NewestPublished(s), Len(results[<<s, NewestPublished(s)>>])>>

Student == INSTANCE Publication
             WITH shown <- [s \in Submissions |-> Shown(s)],
                  top <- [s \in Submissions |-> Top(s)],
                  Snapshots <- Decisions

-------------------------------------------------------------------------------
(* Properties.                                                             *)

\* A loaded revision number stands for one content: a session that holds the
\* current revision of its draft has the current decisions before it, although
\* other sessions save, answers get lost and a missing draft is shown with a
\* revision number, too.
RevisionIdentifiesContent ==
    \A c \in Sessions : view[c] # Nothing =>
        LET draft == drafts[view[c].document][User[c]] IN
        view[c].revision = draft.revision => view[c].base = draft.decisions

\* BR-17, AT-12: what a save replaces is what a session of that reviewer had
\* loaded: no save of another session is overwritten unseen.
NoSilentOverwrite ==
    [][\A d \in Documents, r \in Reviewers :
          drafts'[d][r] # drafts[d][r] =>
             \E c \in Sessions :
                /\ User[c] = r
                /\ view[c] # Nothing
                /\ view[c].document = d
                /\ view[c].base = drafts[d][r].decisions]_vars

\* A draft never decides on a finding that the document no longer has, whatever
\* attempts of the analysis failed or were retried in the meantime.
DecisionsNameFindings ==
    \A d \in Documents, r \in Reviewers, f \in Findings :
        drafts[d][r].decisions[f] # "NONE" => f \in findings[d]

\* AT-13: what was approved decides on exactly the findings the document has,
\* also long after the approval.
ApprovalDecidesFindings ==
    \A d \in Documents : doc[d] \in {"APPROVED", "PUBLISHED"} =>
        /\ approved[d] # Nothing
        /\ \A f \in Findings : approved[d][f] # "NONE" <=> f \in findings[d]

\* BR-19: every result of a document, old or new, carries the snapshot that was
\* approved, not the draft as it was edited before or after.
ResultsShowApproval ==
    \A d \in Documents : \A i \in 1..Len(results[d]) :
        results[d][i].snapshot = approved[d]

\* A command that arrives twice publishes a document once, also when the
\* document was withdrawn between the two arrivals.
CommandRunsOnce ==
    \A d \in Documents : \A i, j \in 1..Len(results[d]) :
        results[d][i].command = results[d][j].command => i = j

\* A new upload, its analysis, an edit or an approval never takes a result from
\* a student: only the withdrawal of that result does.
OnlyUnpublishHides ==
    [][\A s \in Submissions : Shown(s) # Nothing /\ Shown(s)' = Nothing =>
          /\ doc[<<s, Shown(s).version>>] = "PUBLISHED"
          /\ doc'[<<s, Shown(s).version>>] = "APPROVED"]_vars

\* The student's view implements Publication: a shown result never changes in
\* place, is followed by later ones only, and never comes back.
ImplementsPublication == Student!Spec

\* BR-20: after a publication, edits of the draft make a new result: a document
\* published again shows what its draft says now.
RepublicationShowsEdits ==
    [][\A d \in Documents :
          Len(results[d]) > 0 /\ Len(results'[d]) > Len(results[d]) =>
             results'[d][Len(results'[d])].snapshot = LatestDraft(d)]_vars

\* The three properties below are what the documents ask; the code does not keep
\* them (README, section 8).

\* An archived course is read-only: no document version is added to it.
ArchivedIsReadOnly == [][archived => UNCHANGED latest]_vars

\* AT-06, AT-18: a retry is safe, and no document stays in processing for ever.
EveryAnalysisEnds ==
    \A d \in Documents : job[d] = "RUNNING" ~> job[d] # "RUNNING"

\* BR-25: at most two jobs of a student are active at a time, here on the
\* versions of one submission.
AtMostTwoActiveJobs ==
    \A s \in Submissions : \A u, v, w \in 1..MaxVersions :
        {job[<<s, u>>], job[<<s, v>>], job[<<s, w>>]} \subseteq {"QUEUED", "RUNNING"} =>
           u = v \/ v = w \/ u = w

===============================================================================
