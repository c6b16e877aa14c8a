----------------------------- MODULE ReviewProofs -----------------------------
(***************************************************************************)
(* Theorems about Review and ReviewReading for every number of             *)
(* submissions, versions, findings, reviewers, sessions and commands, and  *)
(* the proof that what a student sees implements Publication.              *)
(***************************************************************************)
EXTENDS ReviewReading, TLAPS, WellFoundedInduction

-------------------------------------------------------------------------------
(* Types.                                                                  *)

\* What a session is shown of a draft is a view.
LEMMA ShowTypes ==
    ASSUME TypeOK, NEW c \in Sessions, NEW d \in Documents, NEW draft \in Draft,
           Show(c, d, draft)
    PROVE  view' \in [Sessions -> View \union {Nothing}]
BY DEF TypeOK, Show, View, Draft

\* The newest document of a submission that has one is a document.
LEMMA LatestIsDocument ==
    ASSUME TypeOK, NEW s \in Submissions, latest[s] > 0
    PROVE  LatestDocument(s) \in Documents
BY ReviewConstants DEF TypeOK, LatestDocument, Documents

\* Publishing a batch keeps every type.
LEMMA PublishTypes ==
    ASSUME TypeOK, NEW batch \in SUBSET Documents,
           NEW command \in Actions \X Commands, PublishAll(batch, command),
           done' = done \union {command}
    PROVE  TypeOK'
<1>1. ASSUME NEW d \in batch
      PROVE  [snapshot |-> approved[d], command |-> command] \in Result
  <2>1. approved[d] \in Decisions
    BY DEF TypeOK, PublishAll
  <2> QED BY <2>1 DEF Result
<1>2. ASSUME NEW d \in batch
      PROVE  Append(results[d], [snapshot |-> approved[d], command |-> command])
                \in Seq(Result)
  BY <1>1 DEF TypeOK
<1>3. results' \in [Documents -> Seq(Result)]
  BY <1>2 DEF TypeOK, PublishAll
<1>4. doc' \in [Documents -> DocumentStatus]
  BY DEF TypeOK, PublishAll, DocumentStatus
<1> QED BY <1>3, <1>4 DEF TypeOK, PublishAll, draftVars

\* Saving a draft keeps every type.
LEMMA SaveTypes ==
    ASSUME TypeOK, NEW c \in Sessions, Save(c)
    PROVE  TypeOK'
<1>1. view[c].document \in Documents /\ User[c] \in Reviewers
  BY ReviewConstants DEF TypeOK, Save, View
<1> DEFINE d == view[c].document
           r == User[c]
<1>2. drafts[d][r] \in Draft
  BY <1>1 DEF TypeOK
<1>3. PICK new \in Decisions :
         LET saved == [revision |-> drafts[d][r].revision + 1, decisions |-> new] IN
         /\ drafts' = [drafts EXCEPT ![d][r] = saved]
         /\ newest' = [newest EXCEPT ![d] = r]
         /\ Show(c, d, saved) \/ UNCHANGED view
  BY DEF Save
<1> DEFINE saved == [revision |-> drafts[d][r].revision + 1, decisions |-> new]
<1>4. saved \in Draft
  BY <1>2 DEF Draft
<1>5. drafts' \in [Documents -> [Reviewers -> Draft]]
  BY <1>1, <1>3, <1>4 DEF TypeOK
<1>6. newest' \in [Documents -> Reviewers \union {NoReviewer}]
  BY <1>1, <1>3 DEF TypeOK
<1>7. view' \in [Sessions -> View \union {Nothing}]
  <2>1. CASE UNCHANGED view BY <2>1 DEF TypeOK
  <2>2. CASE Show(c, d, saved) BY <1>1, <1>4, <2>2, ShowTypes
  <2> QED BY <1>3, <2>1, <2>2
<1> QED BY <1>5, <1>6, <1>7 DEF TypeOK, Save, jobVars, publicVars

LEMMA InitTypes == Init => TypeOK
<1> SUFFICES ASSUME Init PROVE TypeOK
  OBVIOUS
<1>1. Undecided \in Decisions
  BY DEF Undecided, Decisions
<1>2. [revision |-> 1, decisions |-> Undecided] \in Draft
  BY <1>1 DEF Draft
<1>3. drafts \in [Documents -> [Reviewers -> Draft]]
  BY <1>2 DEF Init
<1>4. /\ results \in [Documents -> Seq(Result)]
      /\ view \in [Sessions -> View \union {Nothing}]
      /\ approved \in [Documents -> Decisions \union {Nothing}]
      /\ done \subseteq Actions \X Commands
  BY DEF Init
<1>5. /\ job \in [Documents -> {"NONE", "QUEUED", "RUNNING", "DONE", "ERROR"}]
      /\ attempt \in [Documents -> 0..MaxAttempts]
      /\ doc \in [Documents -> DocumentStatus]
  BY ReviewConstants DEF Init, Job!Init, DocumentStatus
<1>6. latest \in [Submissions -> 0..MaxVersions]
  BY ReviewConstants DEF Init
<1>7. /\ findings \in [Documents -> SUBSET Findings]
      /\ lock \in [Submissions -> Reviewers \union {NoReviewer}]
      /\ newest \in [Documents -> Reviewers \union {NoReviewer}]
  BY DEF Init
<1>8. live \in [Submissions -> BOOLEAN] /\ archived \in BOOLEAN
  BY DEF Init
<1> QED BY <1>3, <1>4, <1>5, <1>6, <1>7, <1>8 DEF TypeOK

LEMMA NextTypes == TypeOK /\ [Next]_vars => TypeOK'
<1> SUFFICES ASSUME TypeOK, [Next]_vars PROVE TypeOK'
  OBVIOUS
<1> USE DEF jobVars, draftVars, publicVars
<1>1. ASSUME NEW s \in Submissions, Initiate(s) PROVE TypeOK'
  BY <1>1, ReviewConstants DEF TypeOK, Initiate
<1>2. ASSUME NEW d \in Documents, Analysis(d) PROVE TypeOK'
  <2> USE DEF TypeOK, DocumentStatus, Job!Move
  <2>1. CASE Complete(d) BY <2>1 DEF Complete, Job!Submit
  <2>2. CASE Claim(d) BY <2>2, ReviewConstants DEF Claim, Job!Begin
  <2>3. CASE Analyse(d) BY <2>3 DEF Analyse, Job!Succeed, ReplaceFindings
  <2>4. CASE AnalysisFails(d)
    <3>1. findings' \in [Documents -> SUBSET Findings]
      BY <2>4 DEF AnalysisFails, ReplaceSomeFindings
    <3> QED BY <2>4, <3>1 DEF AnalysisFails, Job!Fail, Job!Failures
  <2>5. CASE Retry(d) BY <2>5 DEF Retry, Job!Retry
  <2> QED BY <1>2, <2>1, <2>2, <2>3, <2>4, <2>5 DEF Analysis
<1>3. ASSUME Editing PROVE TypeOK'
  <2>1. ASSUME NEW s \in Submissions, LockExpires(s) PROVE TypeOK'
    BY <2>1 DEF TypeOK, LockExpires
  <2>2. ASSUME NEW s \in Submissions, NEW r \in Reviewers,
               Acquire(r, s) \/ ReleaseLock(r, s)
        PROVE  TypeOK'
    BY <2>2 DEF TypeOK, Acquire, ReleaseLock
  <2>3. ASSUME NEW s \in Submissions, NEW c \in Sessions, Load(c, s) PROVE TypeOK'
    <3>1. LatestDocument(s) \in Documents
      BY <2>3, LatestIsDocument DEF Load
    <3>2. drafts[LatestDocument(s)][User[c]] \in Draft
      BY <3>1, ReviewConstants DEF TypeOK
    <3>3. view' \in [Sessions -> View \union {Nothing}]
      BY <2>3, <3>1, <3>2, ShowTypes DEF Load
    <3> QED BY <2>3, <3>3 DEF TypeOK, Load
  <2>4. ASSUME NEW c \in Sessions, Save(c) PROVE TypeOK'
    BY <2>4, SaveTypes
  <2>5. ASSUME NEW c \in Sessions, SaveAgain(c) PROVE TypeOK'
    <3>1. view[c].document \in Documents /\ User[c] \in Reviewers
      BY <2>5, ReviewConstants DEF TypeOK, SaveAgain, View
    <3>2. drafts[view[c].document][User[c]] \in Draft
      BY <3>1 DEF TypeOK
    <3>3. view' \in [Sessions -> View \union {Nothing}]
      BY <2>5, <3>1, <3>2, ShowTypes DEF SaveAgain
    <3> QED BY <2>5, <3>3 DEF TypeOK, SaveAgain
  <2> QED BY <1>3, <2>1, <2>2, <2>3, <2>4, <2>5 DEF Editing
<1>4. ASSUME NEW k \in Commands, Command(k) PROVE TypeOK'
  <2>1. ASSUME NEW d \in Documents, Approve(d, k) PROVE TypeOK'
    <3>1. LatestDraft(d) \in Decisions
      BY <2>1 DEF TypeOK, Approve, LatestDraft, Draft
    <3> QED BY <2>1, <3>1 DEF TypeOK, Approve, RunsOnce, DocumentStatus, Actions
  <2>2. ASSUME NEW d \in Documents, Publish(d, k) PROVE TypeOK'
    BY <2>2, PublishTypes DEF Publish, RunsOnce, Actions
  <2>3. ASSUME NEW d \in Documents, Unpublish(d, k) PROVE TypeOK'
    BY <2>3 DEF TypeOK, Unpublish, RunsOnce, DocumentStatus, Actions
  <2>4. ASSUME NEW batch \in SUBSET Documents, BulkPublish(batch, k) PROVE TypeOK'
    BY <2>4, PublishTypes DEF BulkPublish, RunsOnce, Actions
  <2> QED BY <1>4, <2>1, <2>2, <2>3, <2>4 DEF Command
<1>5. ASSUME Archive PROVE TypeOK'
  BY <1>5 DEF TypeOK, Archive
<1>6. ASSUME UNCHANGED vars PROVE TypeOK'
  BY <1>6 DEF TypeOK, vars
<1> QED BY <1>1, <1>2, <1>3, <1>4, <1>5, <1>6 DEF Next

\* Every variable keeps its type: no document is analysed more than MaxAttempts
\* times and no submission has more than MaxVersions versions.
THEOREM ReviewTypeCorrect == Spec => []TypeOK
BY InitTypes, NextTypes, PTL DEF Spec

-------------------------------------------------------------------------------
(* Drafts.                                                                 *)

\* A session never holds a revision its draft has not reached, and the current
\* revision stands for the current content.  RevisionIdentifiesContent alone is
\* not inductive: a revision ahead of its draft would be reached by other saves.
ViewsFollowDrafts ==
    \A c \in Sessions : view[c] # Nothing =>
        LET draft == drafts[view[c].document][User[c]] IN
        /\ view[c].revision <= draft.revision
        /\ view[c].revision = draft.revision => view[c].base = draft.decisions

\* The session that was shown its draft follows it.
LEMMA ShowFollows ==
    ASSUME TypeOK, TypeOK', ViewsFollowDrafts,
           NEW c \in Sessions, NEW d \in Documents, NEW draft \in Draft,
           Show(c, d, draft), draft = drafts'[d][User[c]],
           \A e \in Documents, r \in Reviewers :
              drafts'[e][r] = drafts[e][r]
              \/ drafts'[e][r].revision > drafts[e][r].revision
    PROVE  ViewsFollowDrafts'
<1> SUFFICES ASSUME NEW b \in Sessions, view'[b] # Nothing
             PROVE  LET new == drafts'[view'[b].document][User[b]] IN
                    /\ view'[b].revision <= new.revision
                    /\ view'[b].revision = new.revision => view'[b].base = new.decisions
  BY DEF ViewsFollowDrafts
<1>1. CASE b = c
  BY <1>1 DEF Show, TypeOK, Draft
<1>2. CASE b # c
  <2>1. view'[b] = view[b]
    BY <1>2 DEF Show, TypeOK
  <2>2. view[b] \in View /\ User[b] \in Reviewers
    BY <2>1, ReviewConstants DEF TypeOK
  <2> DEFINE e == view[b].document
             old == drafts[e][User[b]]
             new == drafts'[e][User[b]]
  <2>3. e \in Documents /\ view[b].revision \in Nat
    BY <2>2 DEF View
  <2>4. old \in Draft /\ new \in Draft
    BY <2>2, <2>3 DEF TypeOK
  <2>5. /\ view[b].revision <= old.revision
        /\ view[b].revision = old.revision => view[b].base = old.decisions
    BY <2>1 DEF ViewsFollowDrafts
  <2>6. new = old \/ new.revision > old.revision
    BY <2>2, <2>3
  <2>7. old.revision \in Nat /\ new.revision \in Nat
    BY <2>4 DEF Draft
  <2> HIDE DEF old, new
  <2>8. /\ view[b].revision <= new.revision
        /\ view[b].revision = new.revision => view[b].base = new.decisions
    BY <2>3, <2>5, <2>6, <2>7
  <2> QED BY <2>1, <2>8 DEF new
<1> QED BY <1>1, <1>2

\* What a save writes.
LEMMA SaveWrites ==
    ASSUME TypeOK, NEW c \in Sessions, Save(c)
    PROVE  LET d == view[c].document
               r == User[c]
               old == drafts[d][r]
           IN  /\ view[c] # Nothing
               /\ d \in Documents /\ r \in Reviewers /\ old \in Draft
               /\ view[c].revision = old.revision
               /\ \E new \in Draft :
                     /\ new.revision = old.revision + 1
                     /\ AcceptableChange(d, old.decisions, new.decisions)
                     /\ drafts' = [drafts EXCEPT ![d][r] = new]
                     /\ Show(c, d, new) \/ UNCHANGED view
<1>1. view[c].document \in Documents /\ User[c] \in Reviewers
  BY ReviewConstants DEF TypeOK, Save, View
<1> DEFINE d == view[c].document
           r == User[c]
<1>2. drafts[d][r] \in Draft
  BY <1>1 DEF TypeOK
<1>3. PICK chosen \in Decisions :
         LET saved == [revision |-> drafts[d][r].revision + 1, decisions |-> chosen] IN
         /\ AcceptableChange(d, drafts[d][r].decisions, chosen)
         /\ drafts' = [drafts EXCEPT ![d][r] = saved]
         /\ Show(c, d, saved) \/ UNCHANGED view
  BY DEF Save
<1> DEFINE saved == [revision |-> drafts[d][r].revision + 1, decisions |-> chosen]
<1>4. saved \in Draft
  BY <1>2 DEF Draft
<1>5. view[c] # Nothing /\ view[c].revision = drafts[d][r].revision
  BY DEF Save
<1> QED BY <1>1, <1>2, <1>3, <1>4, <1>5

LEMMA NextViews ==
    TypeOK /\ TypeOK' /\ ViewsFollowDrafts /\ [Next]_vars => ViewsFollowDrafts'
<1> SUFFICES ASSUME TypeOK, TypeOK', ViewsFollowDrafts, [Next]_vars
             PROVE  ViewsFollowDrafts'
  OBVIOUS
<1>1. CASE UNCHANGED <<drafts, view>>
  BY <1>1 DEF ViewsFollowDrafts
<1>2. ASSUME NEW s \in Submissions, NEW c \in Sessions, Load(c, s)
      PROVE  ViewsFollowDrafts'
  <2>1. LatestDocument(s) \in Documents /\ User[c] \in Reviewers
    BY <1>2, LatestIsDocument, ReviewConstants DEF Load
  <2>2. drafts[LatestDocument(s)][User[c]] \in Draft /\ drafts' = drafts
    BY <1>2, <2>1 DEF TypeOK, Load
  <2> QED BY <1>2, <2>1, <2>2, ShowFollows DEF Load
<1>3. ASSUME NEW c \in Sessions, SaveAgain(c)
      PROVE  ViewsFollowDrafts'
  <2>1. view[c].document \in Documents /\ User[c] \in Reviewers
    BY <1>3, ReviewConstants DEF TypeOK, SaveAgain, View
  <2>2. drafts[view[c].document][User[c]] \in Draft /\ drafts' = drafts
    BY <1>3, <2>1 DEF TypeOK, SaveAgain
  <2> QED BY <1>3, <2>1, <2>2, ShowFollows DEF SaveAgain
<1>4. ASSUME NEW c \in Sessions, Save(c)
      PROVE  ViewsFollowDrafts'
  <2> DEFINE d == view[c].document
             r == User[c]
             old == drafts[d][r]
  <2>1. /\ d \in Documents /\ r \in Reviewers /\ old \in Draft
    BY <1>4, SaveWrites
  <2>2. PICK new \in Draft :
           /\ new.revision = old.revision + 1
           /\ drafts' = [drafts EXCEPT ![d][r] = new]
           /\ Show(c, d, new) \/ UNCHANGED view
    BY <1>4, SaveWrites
  <2>3. new = drafts'[d][r] /\ new.revision > old.revision
    BY <2>1, <2>2 DEF TypeOK, Draft
  <2>4. \A e \in Documents, q \in Reviewers :
           drafts'[e][q] = drafts[e][q]
           \/ drafts'[e][q].revision > drafts[e][q].revision
    BY <2>1, <2>2, <2>3 DEF TypeOK
  <2>5. CASE Show(c, d, new)
    BY <2>1, <2>3, <2>4, <2>5, ShowFollows
  <2>6. CASE UNCHANGED view
    <3> SUFFICES ASSUME NEW b \in Sessions, view[b] # Nothing
                 PROVE  LET now == drafts'[view[b].document][User[b]] IN
                        /\ view[b].revision <= now.revision
                        /\ view[b].revision = now.revision => view[b].base = now.decisions
      BY <2>6 DEF ViewsFollowDrafts
    <3>1. view[b] \in View /\ User[b] \in Reviewers
      BY ReviewConstants DEF TypeOK
    <3> DEFINE was == drafts[view[b].document][User[b]]
               now == drafts'[view[b].document][User[b]]
    <3>2. view[b].document \in Documents /\ view[b].revision \in Nat
      BY <3>1 DEF View
    <3>3. was.revision \in Nat /\ now.revision \in Nat
      BY <3>1, <3>2 DEF TypeOK, Draft
    <3>4. now = was \/ now.revision > was.revision
      BY <2>4, <3>1, <3>2
    <3>5. /\ view[b].revision <= was.revision
          /\ view[b].revision = was.revision => view[b].base = was.decisions
      BY DEF ViewsFollowDrafts
    <3> HIDE DEF was, now
    <3>6. /\ view[b].revision <= now.revision
          /\ view[b].revision = now.revision => view[b].base = now.decisions
      BY <3>2, <3>3, <3>4, <3>5
    <3> QED BY <3>6 DEF now
  <2> QED BY <2>2, <2>5, <2>6
<1>5. Next => \/ UNCHANGED <<drafts, view>>
              \/ \E s \in Submissions, c \in Sessions : Load(c, s)
              \/ \E c \in Sessions : Save(c) \/ SaveAgain(c)
  BY DEF Next, Initiate, Analysis, Complete, Claim, Analyse, AnalysisFails, Retry,
         Editing, LockExpires, Acquire, ReleaseLock, Command, Approve, Publish,
         BulkPublish, PublishAll, Unpublish, Archive, draftVars
<1> QED BY <1>1, <1>2, <1>3, <1>4, <1>5 DEF vars, draftVars

\* A loaded revision number stands for one content, for any number of tabs and
\* reviewers and saves.
THEOREM RevisionsIdentifyContent == Spec => []RevisionIdentifiesContent
<1>1. Init => ViewsFollowDrafts
  BY DEF Init, ViewsFollowDrafts
<1>2. ViewsFollowDrafts => RevisionIdentifiesContent
  BY DEF ViewsFollowDrafts, RevisionIdentifiesContent
<1> QED BY <1>1, <1>2, ReviewTypeCorrect, NextViews, PTL DEF Spec

\* No save overwrites a draft its reviewer had not loaded (BR-17).
THEOREM SavesOverwriteNothingUnseen == Spec => NoSilentOverwrite
<1>1. TypeOK /\ RevisionIdentifiesContent /\ [Next]_vars =>
         [\A d \in Documents, r \in Reviewers :
             drafts'[d][r] # drafts[d][r] =>
                \E c \in Sessions :
                   /\ User[c] = r
                   /\ view[c] # Nothing
                   /\ view[c].document = d
                   /\ view[c].base = drafts[d][r].decisions]_vars
  <2> SUFFICES ASSUME TypeOK, RevisionIdentifiesContent, Next,
                      NEW d \in Documents, NEW r \in Reviewers,
                      drafts'[d][r] # drafts[d][r]
               PROVE  \E c \in Sessions : /\ User[c] = r
                                         /\ view[c] # Nothing
                                         /\ view[c].document = d
                                         /\ view[c].base = drafts[d][r].decisions
    OBVIOUS
  <2>1. PICK c \in Sessions : Save(c)
    BY DEF Next, Initiate, Analysis, Complete, Claim, Analyse, AnalysisFails, Retry,
           Editing, LockExpires, Acquire, ReleaseLock, Load, SaveAgain, Command,
           Approve, Publish, BulkPublish, PublishAll, Unpublish, Archive, draftVars
  <2>2. d = view[c].document /\ r = User[c]
    <3>1. \E new : drafts' = [drafts EXCEPT ![view[c].document][User[c]] = new]
      BY <2>1, SaveWrites
    <3> QED BY <3>1 DEF TypeOK
  <2>3. view[c] # Nothing /\ view[c].revision = drafts[d][r].revision
    BY <2>1, <2>2, SaveWrites
  <2> QED BY <2>2, <2>3 DEF RevisionIdentifiesContent
<1> QED BY <1>1, ReviewTypeCorrect, RevisionsIdentifyContent, PTL DEF Spec, NoSilentOverwrite

-------------------------------------------------------------------------------
(* Approval and publication: a document that was approved has a finished   *)
(* job, and no step of the analysis touches a finished job; so its         *)
(* findings, and with them its approval, stay as they were, and every      *)
(* result row copies that one approval.                                    *)

ReviewedIsDone ==
    \A d \in Documents :
        doc[d] \in {"AWAITING_REVIEW", "APPROVED", "PUBLISHED"} => job[d] = "DONE"

ResultsAreApproved ==
    \A d \in Documents : results[d] # << >> => doc[d] \in {"APPROVED", "PUBLISHED"}

CommandsRecorded ==
    \A d \in Documents : \A i \in 1..Len(results[d]) : results[d][i].command \in done

PublicationInv ==
    /\ ReviewedIsDone
    /\ DecisionsNameFindings
    /\ ApprovalDecidesFindings
    /\ ResultsAreApproved
    /\ ResultsShowApproval
    /\ CommandsRecorded
    /\ CommandRunsOnce

LEMMA InitPublication == Init => PublicationInv
BY DEF Init, Job!Init, Undecided, PublicationInv, ReviewedIsDone, DecisionsNameFindings,
       ApprovalDecidesFindings, ResultsAreApproved, ResultsShowApproval,
       CommandsRecorded, CommandRunsOnce

\* A step of the analysis of a document finds it unreviewed and touches neither
\* drafts nor publications nor a finding that is decided on.
LEMMA AnalysisStep ==
    ASSUME TypeOK, ReviewedIsDone, DecisionsNameFindings,
           NEW d \in Documents, Analysis(d)
    PROVE  /\ doc[d] \notin {"AWAITING_REVIEW", "APPROVED", "PUBLISHED"}
           /\ doc'[d] \notin {"APPROVED", "PUBLISHED"}
           /\ doc'[d] = "AWAITING_REVIEW" => job'[d] = "DONE"
           /\ \A e \in Documents : e # d =>
                 doc'[e] = doc[e] /\ job'[e] = job[e] /\ findings'[e] = findings[e]
           /\ DecisionsNameFindings'
           /\ UNCHANGED <<drafts, approved, results, done>>
<1> USE DEF draftVars, publicVars
<1>1. job[d] # "DONE"
  BY DEF Analysis, Complete, Job!Submit, Claim, Job!Begin, Analyse, Job!Succeed,
         AnalysisFails, Job!Fail, Retry, Job!Retry
<1>2. doc[d] \notin {"AWAITING_REVIEW", "APPROVED", "PUBLISHED"}
  BY <1>1 DEF ReviewedIsDone
<1>3. /\ doc'[d] \notin {"APPROVED", "PUBLISHED"}
      /\ doc'[d] = "AWAITING_REVIEW" => job'[d] = "DONE"
      /\ \A e \in Documents : e # d => doc'[e] = doc[e] /\ job'[e] = job[e]
  BY DEF TypeOK, Analysis, Complete, Job!Submit, Claim, Job!Begin, Analyse, Job!Succeed,
         AnalysisFails, Job!Fail, Job!Failures, Retry, Job!Retry, Job!Move
<1>4. UNCHANGED <<drafts, approved, results, done>>
  BY DEF Analysis, Complete, Claim, Analyse, AnalysisFails, Retry
<1>5. UNCHANGED findings \/ ReplaceFindings(d) \/ ReplaceSomeFindings(d)
  BY DEF Analysis, Complete, Claim, Analyse, AnalysisFails, Retry
<1>6. \A e \in Documents : e # d => findings'[e] = findings[e]
  BY <1>5 DEF TypeOK, ReplaceFindings, ReplaceSomeFindings
<1>7. DecisionsNameFindings'
  <2>1. CASE UNCHANGED findings BY <1>4, <2>1 DEF DecisionsNameFindings
  <2>2. CASE ReplaceFindings(d)
    BY <1>4, <1>6, <2>2 DEF ReplaceFindings, DecisionsNameFindings
  <2>3. CASE ReplaceSomeFindings(d)
    <3>1. PICK gone \in SUBSET findings[d], found \in SUBSET Findings :
             /\ \A r \in Reviewers, f \in gone : drafts[d][r].decisions[f] = "NONE"
             /\ findings' = [findings EXCEPT ![d] = (@ \ gone) \union found]
      BY <2>3 DEF ReplaceSomeFindings
    <3>2. \A f \in findings[d] : f \in findings'[d] \/ f \in gone
      BY <3>1 DEF TypeOK
    <3> QED BY <1>4, <1>6, <3>1, <3>2 DEF DecisionsNameFindings
  <2> QED BY <1>5, <2>1, <2>2, <2>3
<1> QED BY <1>2, <1>3, <1>4, <1>6, <1>7

\* A save decides on findings of its document.
LEMMA SaveStep ==
    ASSUME TypeOK, DecisionsNameFindings, NEW c \in Sessions, Save(c)
    PROVE  DecisionsNameFindings'
<1> DEFINE d == view[c].document
           r == User[c]
<1>1. d \in Documents /\ r \in Reviewers
  BY SaveWrites
<1>2. PICK new \in Draft : /\ AcceptableChange(d, drafts[d][r].decisions, new.decisions)
                           /\ drafts' = [drafts EXCEPT ![d][r] = new]
  BY SaveWrites
<1>3. UNCHANGED findings
  BY DEF Save, jobVars
<1> QED BY <1>1, <1>2, <1>3 DEF TypeOK, AcceptableChange, DecisionsNameFindings

\* One more row of a document, under a command that was not executed before.
LEMMA AppendRow ==
    ASSUME NEW T, NEW rows \in Seq(T), NEW row \in T
    PROVE  /\ Append(rows, row) # << >>
           /\ Len(Append(rows, row)) = Len(rows) + 1
           /\ \A i \in 1..Len(rows) : Append(rows, row)[i] = rows[i]
           /\ Append(rows, row)[Len(rows) + 1] = row
OBVIOUS

LEMMA PublishStep ==
    ASSUME TypeOK, PublicationInv, NEW batch \in SUBSET Documents,
           NEW command \in (Actions \X Commands) \ done,
           PublishAll(batch, command), done' = done \union {command}
    PROVE  PublicationInv'
<1> USE DEF PublicationInv
<1> DEFINE row(d) == [snapshot |-> approved[d], command |-> command]
<1>1. /\ \A d \in batch : doc[d] = "APPROVED" /\ approved[d] # Nothing
      /\ \A d \in batch : results'[d] = Append(results[d], row(d)) /\ doc'[d] = "PUBLISHED"
      /\ \A d \in Documents \ batch : results'[d] = results[d] /\ doc'[d] = doc[d]
      /\ UNCHANGED <<job, findings, drafts, approved>>
  BY DEF PublishAll, draftVars
<1>2. ASSUME NEW d \in batch
      PROVE  /\ results[d] \in Seq(Result) /\ row(d) \in Result
             /\ results'[d] # << >>
             /\ Len(results'[d]) = Len(results[d]) + 1
             /\ \A i \in 1..Len(results[d]) : results'[d][i] = results[d][i]
             /\ results'[d][Len(results[d]) + 1] = row(d)
  <2>1. approved[d] \in Decisions
    BY <1>1 DEF TypeOK
  <2>2. results[d] \in Seq(Result) /\ row(d) \in Result
    BY <2>1 DEF TypeOK, Result
  <2> QED BY <1>1, <2>2, AppendRow
<1>3. ReviewedIsDone'
  BY <1>1 DEF ReviewedIsDone
<1>4. DecisionsNameFindings'
  BY <1>1 DEF DecisionsNameFindings
<1>5. ApprovalDecidesFindings'
  BY <1>1 DEF ApprovalDecidesFindings
<1>6. ResultsAreApproved'
  BY <1>1 DEF ResultsAreApproved
<1> HIDE DEF row
<1>7. ResultsShowApproval'
  <2> SUFFICES ASSUME NEW d \in Documents, NEW i \in 1..Len(results'[d])
               PROVE  results'[d][i].snapshot = approved[d]
    BY <1>1 DEF ResultsShowApproval
  <2>1. CASE d \notin batch BY <1>1, <2>1 DEF ResultsShowApproval
  <2>2. CASE d \in batch
    <3>1. i \in 1..Len(results[d]) \/ i = Len(results[d]) + 1
      BY <1>2, <2>2
    <3>2. row(d).snapshot = approved[d]
      BY DEF row
    <3> QED BY <1>2, <2>2, <3>1, <3>2 DEF ResultsShowApproval
  <2> QED BY <2>1, <2>2
<1>8. CommandsRecorded'
  <2> SUFFICES ASSUME NEW d \in Documents, NEW i \in 1..Len(results'[d])
               PROVE  results'[d][i].command \in done \union {command}
    BY DEF CommandsRecorded
  <2>1. CASE d \notin batch BY <1>1, <2>1 DEF CommandsRecorded
  <2>2. CASE d \in batch
    <3>1. i \in 1..Len(results[d]) \/ i = Len(results[d]) + 1
      BY <1>2, <2>2
    <3>2. row(d).command = command
      BY DEF row
    <3> QED BY <1>2, <2>2, <3>1, <3>2 DEF CommandsRecorded
  <2> QED BY <2>1, <2>2
<1>9. CommandRunsOnce'
  <2> SUFFICES ASSUME NEW d \in Documents,
                      NEW i \in 1..Len(results'[d]), NEW j \in 1..Len(results'[d]),
                      results'[d][i].command = results'[d][j].command
               PROVE  i = j
    BY DEF CommandRunsOnce
  <2>1. CASE d \notin batch BY <1>1, <2>1 DEF CommandRunsOnce
  <2>2. CASE d \in batch
    <3>1. /\ i \in 1..Len(results[d]) \/ i = Len(results[d]) + 1
          /\ j \in 1..Len(results[d]) \/ j = Len(results[d]) + 1
      BY <1>2, <2>2
    <3>2. row(d).command = command
      BY DEF row
    <3>3. \A n \in 1..Len(results[d]) : results'[d][n].command # command
      BY <1>2, <2>2 DEF CommandsRecorded
    <3> QED BY <1>2, <2>2, <3>1, <3>2, <3>3 DEF CommandRunsOnce
  <2> QED BY <2>1, <2>2
<1> QED BY <1>3, <1>4, <1>5, <1>6, <1>7, <1>8, <1>9

LEMMA ApproveStep ==
    ASSUME TypeOK, PublicationInv, NEW d \in Documents, NEW k \in Commands, Approve(d, k)
    PROVE  PublicationInv'
<1> USE DEF PublicationInv
<1>1. /\ doc[d] = "AWAITING_REVIEW" /\ newest[d] \in Reviewers
      /\ \A f \in findings[d] : LatestDraft(d)[f] # "NONE"
      /\ approved' = [approved EXCEPT ![d] = LatestDraft(d)]
      /\ doc' = [doc EXCEPT ![d] = "APPROVED"]
      /\ UNCHANGED <<job, findings, drafts, results>>
      /\ done \subseteq done'
  BY DEF TypeOK, Approve, RunsOnce, draftVars
<1>2. LatestDraft(d) \in Decisions
  BY <1>1 DEF TypeOK, LatestDraft, Draft
<1>3. results[d] = << >>
  BY <1>1 DEF ResultsAreApproved
<1>4. ReviewedIsDone'
  BY <1>1 DEF ReviewedIsDone, TypeOK
<1>5. DecisionsNameFindings'
  BY <1>1 DEF DecisionsNameFindings
<1>6. ApprovalDecidesFindings'
  <2>1. \A f \in Findings : LatestDraft(d)[f] # "NONE" <=> f \in findings[d]
    BY <1>1 DEF DecisionsNameFindings, LatestDraft
  <2>2. LatestDraft(d) # Nothing
    BY <1>2, NothingIsNoContent
  <2> QED BY <1>1, <2>1, <2>2 DEF ApprovalDecidesFindings, TypeOK
<1>7. ResultsAreApproved'
  BY <1>1 DEF ResultsAreApproved, TypeOK
<1>8. ResultsShowApproval'
  BY <1>1, <1>3 DEF ResultsShowApproval, TypeOK
<1>9. CommandsRecorded' /\ CommandRunsOnce'
  BY <1>1 DEF CommandsRecorded, CommandRunsOnce
<1> QED BY <1>4, <1>5, <1>6, <1>7, <1>8, <1>9

LEMMA NextPublication == TypeOK /\ PublicationInv /\ [Next]_vars => PublicationInv'
<1> SUFFICES ASSUME TypeOK, PublicationInv, [Next]_vars PROVE PublicationInv'
  OBVIOUS
<1> USE DEF jobVars, draftVars, publicVars
<1>1. ASSUME UNCHANGED <<job, doc, findings, drafts, approved, results, done>>
      PROVE  PublicationInv'
  BY <1>1 DEF PublicationInv, ReviewedIsDone, DecisionsNameFindings,
              ApprovalDecidesFindings, ResultsAreApproved, ResultsShowApproval,
              CommandsRecorded, CommandRunsOnce
<1>2. ASSUME NEW d \in Documents, Analysis(d) PROVE PublicationInv'
  <2> USE DEF PublicationInv
  <2>1. /\ doc[d] \notin {"AWAITING_REVIEW", "APPROVED", "PUBLISHED"}
        /\ doc'[d] \notin {"APPROVED", "PUBLISHED"}
        /\ doc'[d] = "AWAITING_REVIEW" => job'[d] = "DONE"
        /\ \A e \in Documents : e # d =>
              doc'[e] = doc[e] /\ job'[e] = job[e] /\ findings'[e] = findings[e]
        /\ DecisionsNameFindings'
        /\ UNCHANGED <<drafts, approved, results, done>>
    BY <1>2, AnalysisStep
  <2>2. ReviewedIsDone'
    BY <2>1 DEF ReviewedIsDone
  <2>3. ApprovalDecidesFindings'
    BY <2>1 DEF ApprovalDecidesFindings
  <2>4. ResultsAreApproved'
    BY <2>1 DEF ResultsAreApproved
  <2>5. ResultsShowApproval' /\ CommandsRecorded' /\ CommandRunsOnce'
    BY <2>1 DEF ResultsShowApproval, CommandsRecorded, CommandRunsOnce
  <2> QED BY <2>1, <2>2, <2>3, <2>4, <2>5
<1>3. ASSUME NEW c \in Sessions, Save(c) PROVE PublicationInv'
  <2>1. UNCHANGED <<job, doc, findings, approved, results, done>>
    BY <1>3 DEF Save
  <2>2. DecisionsNameFindings'
    BY <1>3, SaveStep DEF PublicationInv
  <2> QED BY <2>1, <2>2 DEF PublicationInv, ReviewedIsDone, ApprovalDecidesFindings,
                ResultsAreApproved, ResultsShowApproval, CommandsRecorded, CommandRunsOnce
<1>4. ASSUME NEW k \in Commands, Command(k) PROVE PublicationInv'
  <2>1. ASSUME NEW d \in Documents, Approve(d, k) PROVE PublicationInv'
    BY <2>1, ApproveStep
  <2>2. ASSUME NEW d \in Documents, Publish(d, k) PROVE PublicationInv'
    BY <2>2, PublishStep DEF Publish, RunsOnce, Actions
  <2>3. ASSUME NEW batch \in SUBSET Documents, BulkPublish(batch, k) PROVE PublicationInv'
    BY <2>3, PublishStep DEF BulkPublish, RunsOnce, Actions
  <2>4. ASSUME NEW d \in Documents, Unpublish(d, k) PROVE PublicationInv'
    <3>1. /\ doc[d] = "PUBLISHED"
          /\ doc' = [doc EXCEPT ![d] = "APPROVED"]
          /\ UNCHANGED <<job, findings, drafts, approved, results>>
          /\ done \subseteq done'
      BY <2>4 DEF Unpublish, RunsOnce
    <3> USE DEF PublicationInv
    <3>2. ReviewedIsDone' /\ DecisionsNameFindings'
      BY <3>1 DEF ReviewedIsDone, DecisionsNameFindings, TypeOK
    <3>3. ApprovalDecidesFindings'
      BY <3>1 DEF ApprovalDecidesFindings, TypeOK
    <3>4. ResultsAreApproved'
      BY <3>1 DEF ResultsAreApproved, TypeOK
    <3>5. ResultsShowApproval' /\ CommandsRecorded' /\ CommandRunsOnce'
      BY <3>1 DEF ResultsShowApproval, CommandsRecorded, CommandRunsOnce
    <3> QED BY <3>2, <3>3, <3>4, <3>5
  <2> QED BY <1>4, <2>1, <2>2, <2>3, <2>4 DEF Command
<1>5. Next => \/ UNCHANGED <<job, doc, findings, drafts, approved, results, done>>
              \/ \E d \in Documents : Analysis(d)
              \/ \E c \in Sessions : Save(c)
              \/ \E k \in Commands : Command(k)
  BY DEF Next, Initiate, Editing, LockExpires, Acquire, ReleaseLock, Load, SaveAgain,
         Archive
<1> QED BY <1>1, <1>2, <1>3, <1>4, <1>5 DEF vars

LEMMA PublicationInvariant == Spec => []PublicationInv
BY InitPublication, NextPublication, ReviewTypeCorrect, PTL DEF Spec

\* No draft decides on a finding that an analysis has replaced.
THEOREM DraftsDecideOnFindings == Spec => []DecisionsNameFindings
BY PublicationInvariant, PTL DEF PublicationInv

\* An approval decides on exactly the findings of its document, for ever (AT-13).
THEOREM ApprovalsAreComplete == Spec => []ApprovalDecidesFindings
BY PublicationInvariant, PTL DEF PublicationInv

\* Every result a document ever had is the snapshot that was approved (BR-19).
THEOREM ResultsAreTheApproval == Spec => []ResultsShowApproval
BY PublicationInvariant, PTL DEF PublicationInv

\* A command never publishes a document twice.
THEOREM CommandsRunOnce == Spec => []CommandRunsOnce
BY PublicationInvariant, PTL DEF PublicationInv
-------------------------------------------------------------------------------
(* The newest of some versions.                                            *)

\* The newest of some versions is one of them, and none of them is newer.
LEMMA NewestExists ==
    ASSUME NEW P, P \subseteq 1..MaxVersions, P # {}
    PROVE  LET newestOne == CHOOSE v \in P : \A w \in P : w <= v
           IN newestOne \in P /\ \A w \in P : w <= newestOne
<1> DEFINE T == {MaxVersions - v : v \in P}
<1>1. T \subseteq Nat /\ T # {}
  <2>1. ASSUME NEW v \in P PROVE MaxVersions - v \in Nat
    BY ReviewConstants
  <2> QED BY <2>1
<1>2. PICK x \in T : \A y \in T : ~(<<y, x>> \in OpToRel(<, Nat))
  <2> HIDE DEF T
  <2> QED BY <1>1, WFMin, NatLessThanWellFounded
<1>3. PICK v \in P : x = MaxVersions - v
  BY <1>2
<1>4. \A w \in P : w <= v
  <2> SUFFICES ASSUME NEW w \in P, ~(w <= v) PROVE FALSE
    OBVIOUS
  <2>1. MaxVersions - w \in T /\ MaxVersions - w < x
    BY <1>3, ReviewConstants
  <2>2. <<MaxVersions - w, x>> \in OpToRel(<, Nat)
    BY <1>1, <2>1 DEF OpToRel
  <2> QED BY <1>2, <2>1, <2>2
<1> QED BY <1>4

\* A version that none is newer than is the newest.
LEMMA NewestIs ==
    ASSUME NEW P, P \subseteq 1..MaxVersions, NEW v \in P, \A w \in P : w <= v
    PROVE  (CHOOSE u \in P : \A w \in P : w <= u) = v
<1> DEFINE m == CHOOSE u \in P : \A w \in P : w <= u
<1>1. m \in P /\ \A w \in P : w <= m
  OBVIOUS
<1>2. m <= v /\ v <= m
  BY <1>1
<1>3. m \in Nat /\ v \in Nat
  <2>1. m \in 1..MaxVersions /\ v \in 1..MaxVersions
    BY <1>1
  <2> QED BY <2>1, ReviewConstants
<1> QED BY <1>2, <1>3

-------------------------------------------------------------------------------
(* What is read.  The screens look at three tables with three conditions;  *)
(* they agree because the tables do: an approval and the status of its     *)
(* document, a published document and its result rows, and the job of a    *)
(* version and the number of versions there are.                           *)

ApprovedIsReviewed ==
    \A d \in Documents : approved[d] # Nothing => doc[d] \in {"APPROVED", "PUBLISHED"}

PublishedHasResult ==
    \A d \in Documents : doc[d] = "PUBLISHED" => results[d] # << >>

\* A version that was ever analysed is one the submission has.
AnalysedIsUploaded ==
    \A s \in Submissions : \A v \in 1..MaxVersions :
        job[<<s, v>>] # "NONE" => v <= latest[s]

ReadingInv == ApprovedIsReviewed /\ PublishedHasResult /\ AnalysedIsUploaded

LEMMA InitReading == Init => ReadingInv
BY DEF Init, Job!Init, Documents, ReadingInv, ApprovedIsReviewed, PublishedHasResult,
       AnalysedIsUploaded

LEMMA NextUploaded == TypeOK /\ AnalysedIsUploaded /\ [Next]_vars => AnalysedIsUploaded'
<1> SUFFICES ASSUME TypeOK, AnalysedIsUploaded, [Next]_vars PROVE AnalysedIsUploaded'
  OBVIOUS
<1> USE DEF jobVars, draftVars, publicVars
<1>1. ASSUME NEW s \in Submissions, Initiate(s) PROVE AnalysedIsUploaded'
  <2>1. \A t \in Submissions : latest[t] <= latest'[t]
    BY <1>1, ReviewConstants DEF TypeOK, Initiate
  <2>2. \A t \in Submissions : latest[t] \in Nat /\ latest'[t] \in Nat
    BY <1>1, ReviewConstants DEF TypeOK, Initiate
  <2>3. UNCHANGED job
    BY <1>1 DEF Initiate
  <2> QED BY <2>1, <2>2, <2>3, ReviewConstants DEF AnalysedIsUploaded
<1>2. ASSUME NEW d \in Documents, Analysis(d) PROVE AnalysedIsUploaded'
  <2>1. UNCHANGED latest /\ (job[d] = "NONE" => d[2] <= latest[d[1]])
    BY <1>2 DEF Analysis, Complete, Claim, Job!Begin, Analyse, Job!Succeed,
                AnalysisFails, Job!Fail, Retry, Job!Retry
  <2>2. \A e \in Documents : e # d => job'[e] = job[e]
    BY <1>2 DEF TypeOK, Analysis, Complete, Job!Submit, Claim, Job!Begin, Analyse,
                Job!Succeed, AnalysisFails, Job!Fail, Retry, Job!Retry, Job!Move
  <2> SUFFICES ASSUME NEW s \in Submissions, NEW v \in 1..MaxVersions,
                      job'[<<s, v>>] # "NONE"
               PROVE  v <= latest[s]
    BY <2>1 DEF AnalysedIsUploaded
  <2>3. CASE d = <<s, v>> BY <2>1, <2>3 DEF AnalysedIsUploaded
  <2>4. CASE d # <<s, v>>
    BY <2>2, <2>4 DEF AnalysedIsUploaded, Documents
  <2> QED BY <2>3, <2>4
<1>3. ASSUME UNCHANGED <<job, latest>> PROVE AnalysedIsUploaded'
  BY <1>3 DEF AnalysedIsUploaded
<1>4. Next => \/ UNCHANGED <<job, latest>>
              \/ \E s \in Submissions : Initiate(s)
              \/ \E d \in Documents : Analysis(d)
  BY DEF Next, Editing, LockExpires, Acquire, ReleaseLock, Load, Save, SaveAgain,
         Command, Approve, Publish, BulkPublish, PublishAll, Unpublish, Archive
<1> QED BY <1>1, <1>2, <1>3, <1>4 DEF vars

\* A step that publishes or withdraws nothing leaves the published documents and
\* their results alone; a withdrawal is of one document that has a result.
LEMMA QuietStep ==
    ASSUME TypeOK, PublicationInv, [Next]_vars
    PROVE  \/ /\ UNCHANGED results
              /\ \A d \in Documents : doc'[d] = "PUBLISHED" <=> doc[d] = "PUBLISHED"
           \/ \E batch \in SUBSET Documents, command \in Actions \X Commands :
                 PublishAll(batch, command)
           \/ \E d \in Documents, k \in Commands : Unpublish(d, k)
<1> USE DEF jobVars, draftVars, publicVars
<1>1. ASSUME NEW d \in Documents, Analysis(d)
      PROVE  /\ UNCHANGED results
             /\ \A e \in Documents : doc'[e] = "PUBLISHED" <=> doc[e] = "PUBLISHED"
  BY <1>1, AnalysisStep DEF PublicationInv
<1>2. ASSUME NEW d \in Documents, NEW k \in Commands, Approve(d, k)
      PROVE  /\ UNCHANGED results
             /\ \A e \in Documents : doc'[e] = "PUBLISHED" <=> doc[e] = "PUBLISHED"
  BY <1>2 DEF Approve, TypeOK
<1>3. Next => \/ UNCHANGED <<doc, results>>
              \/ \E d \in Documents : Analysis(d)
              \/ \E d \in Documents, k \in Commands : Approve(d, k) \/ Unpublish(d, k)
              \/ \E batch \in SUBSET Documents, command \in Actions \X Commands :
                    PublishAll(batch, command)
  <2>1. \A k \in Commands :
           <<"PUBLISH", k>> \in Actions \X Commands
           /\ <<"BULK_PUBLISH", k>> \in Actions \X Commands
    BY DEF Actions
  <2>2. \A d \in Documents : {d} \in SUBSET Documents
    OBVIOUS
  <2> QED BY <2>1, <2>2
          DEF Next, Initiate, Editing, LockExpires, Acquire, ReleaseLock, Load, Save,
              SaveAgain, Command, Publish, BulkPublish, Archive
<1> QED BY <1>1, <1>2, <1>3 DEF vars

LEMMA NextReading ==
    TypeOK /\ PublicationInv /\ ReadingInv /\ [Next]_vars => ReadingInv'
<1> SUFFICES ASSUME TypeOK, PublicationInv, ReadingInv, [Next]_vars PROVE ReadingInv'
  OBVIOUS
<1> USE DEF jobVars, draftVars, publicVars
<1>1. AnalysedIsUploaded'
  BY NextUploaded DEF ReadingInv
<1>2. PublishedHasResult'
  <2>1. ASSUME NEW batch \in SUBSET Documents, NEW command \in Actions \X Commands,
               PublishAll(batch, command), NEW d \in Documents,
               doc'[d] = "PUBLISHED"
        PROVE  results'[d] # << >>
    <3>1. CASE d \in batch
      <4>1. results'[d] = Append(results[d], [snapshot |-> approved[d], command |-> command])
        BY <2>1, <3>1 DEF PublishAll
      <4>2. approved[d] \in Decisions /\ results[d] \in Seq(Result)
        BY <2>1, <3>1 DEF TypeOK, PublishAll
      <4>3. [snapshot |-> approved[d], command |-> command] \in Result
        BY <4>2 DEF Result
      <4> QED BY <4>1, <4>2, <4>3, AppendRow
    <3>2. CASE d \notin batch
      BY <2>1, <3>2 DEF PublishAll, ReadingInv, PublishedHasResult
    <3> QED BY <3>1, <3>2
  <2>2. ASSUME NEW e \in Documents, NEW k \in Commands, Unpublish(e, k),
               NEW d \in Documents, doc'[d] = "PUBLISHED"
        PROVE  results'[d] # << >>
    BY <2>2 DEF Unpublish, TypeOK, ReadingInv, PublishedHasResult
  <2> QED BY <2>1, <2>2, QuietStep DEF ReadingInv, PublishedHasResult
<1>3. ApprovedIsReviewed'
  <2>1. ASSUME NEW d \in Documents, Analysis(d) PROVE ApprovedIsReviewed'
    BY <2>1, AnalysisStep DEF PublicationInv, ReadingInv, ApprovedIsReviewed
  <2>2. ASSUME NEW k \in Commands, Command(k) PROVE ApprovedIsReviewed'
    <3> USE DEF ReadingInv, ApprovedIsReviewed
    <3>1. ASSUME NEW d \in Documents, Approve(d, k) PROVE ApprovedIsReviewed'
      BY <3>1 DEF Approve, TypeOK
    <3>2. ASSUME NEW batch \in SUBSET Documents, NEW command, PublishAll(batch, command)
          PROVE  ApprovedIsReviewed'
      BY <3>2 DEF PublishAll
    <3>3. ASSUME NEW d \in Documents, Unpublish(d, k) PROVE ApprovedIsReviewed'
      BY <3>3 DEF Unpublish, TypeOK
    <3> QED BY <2>2, <3>1, <3>2, <3>3 DEF Command, Publish, BulkPublish
  <2>3. ASSUME UNCHANGED <<doc, approved>> PROVE ApprovedIsReviewed'
    BY <2>3 DEF ReadingInv, ApprovedIsReviewed
  <2>4. Next => \/ UNCHANGED <<doc, approved>>
                \/ \E d \in Documents : Analysis(d)
                \/ \E k \in Commands : Command(k)
    BY DEF Next, Initiate, Editing, LockExpires, Acquire, ReleaseLock, Load, Save,
           SaveAgain, Archive
  <2> QED BY <2>1, <2>2, <2>3, <2>4 DEF vars
<1> QED BY <1>1, <1>2, <1>3 DEF ReadingInv

LEMMA ReadingInvariant == Spec => [](TypeOK /\ PublicationInv /\ ReadingInv)
<1>1. TypeOK /\ PublicationInv /\ ReadingInv /\ [Next]_vars => ReadingInv'
  BY NextReading
<1> QED BY <1>1, InitReading, ReviewTypeCorrect, PublicationInvariant, PTL DEF Spec

\* What counts of a document is its approval, also once results were published.
LEMMA ContentIsApproved ==
    ASSUME TypeOK, PublicationInv, NEW d \in Documents
    PROVE  Content(d) = approved[d]
<1>1. CASE results[d] = << >> BY <1>1 DEF Content
<1>2. CASE results[d] # << >>
  <2>1. results[d] \in Seq(Result)
    BY DEF TypeOK
  <2>2. Len(results[d]) \in 1..Len(results[d])
    BY <1>2, <2>1
  <2> QED BY <1>2, <2>2 DEF Content, PublicationInv, ResultsShowApproval
<1> QED BY <1>1, <1>2

\* A version that the submission has is a document.
LEMMA UploadedIsDocument ==
    ASSUME TypeOK, NEW s \in Submissions, NEW u \in 1..latest[s]
    PROVE  u \in 1..MaxVersions /\ <<s, u>> \in Documents
BY ReviewConstants DEF TypeOK, Documents

\* What a comparison shows of a version is what counts for its reader
\* (AT-14, AT-15, AT-16).
THEOREM ComparisonsShowWhatCounts == Spec => []ComparisonShowsWhatCounts
<1>1. ASSUME TypeOK, PublicationInv, ReadingInv PROVE ComparisonTellsPublishedOnly
  <2> SUFFICES ASSUME NEW s \in Submissions, NEW u \in 1..latest[s], NEW v \in 1..latest[s],
                      Comparison("student", s, u, v) # Nothing
               PROVE  LET seen == Comparison("student", s, u, v) IN
                      /\ VersionList("student", s)[u] # 0
                      /\ VersionList("student", s)[v] # 0
                      /\ \A f \in DOMAIN seen.left : approved[<<s, u>>][f] = "KEEP"
                      /\ \A f \in DOMAIN seen.right : approved[<<s, v>>][f] = "KEEP"
    BY DEF ComparisonTellsPublishedOnly
  <2>1. /\ BothAreReadable("student", s, u, v)
        /\ Comparison("student", s, u, v) =
              [left |-> Side("student", <<s, u>>), right |-> Side("student", <<s, v>>)]
    BY DEF Comparison
  <2>2. ~Privileged("student")
    BY DEF Privileged
  <2>3. ASSUME NEW w \in {u, v}
        PROVE  /\ VersionList("student", s)[w] # 0
               /\ \A f \in DOMAIN Side("student", <<s, w>>) : approved[<<s, w>>][f] = "KEEP"
    <3>1. w \in 1..latest[s] /\ <<s, w>> \in Documents
      BY <1>1, UploadedIsDocument
    <3>2. doc[<<s, w>>] = "PUBLISHED" /\ results[<<s, w>>] # << >>
      BY <2>1, <2>2 DEF BothAreReadable
    <3>3. VersionList("student", s)[w] # 0
      BY <1>1, <3>1, <3>2 DEF VersionList, NewestResultNumber, TypeOK
    <3>4. Content(<<s, w>>) = approved[<<s, w>>] /\ approved[<<s, w>>] # Nothing
      BY <1>1, <3>1, <3>2, ContentIsApproved DEF PublicationInv, ApprovalDecidesFindings
    <3>5. Side("student", <<s, w>>) = SnapshotSide(approved[<<s, w>>], FALSE)
      BY <3>4 DEF Side, Privileged
    <3> QED BY <3>3, <3>5 DEF SnapshotSide
  <2> QED BY <2>1, <2>3
<1>2. ASSUME TypeOK, PublicationInv, ReadingInv PROVE ReviewersSeeEveryFinding
  <2> SUFFICES ASSUME NEW s \in Submissions, NEW u \in 1..latest[s], NEW v \in 1..latest[s],
                      Comparison("reviewer", s, u, v) # Nothing
               PROVE  LET seen == Comparison("reviewer", s, u, v)
                          d == <<s, u>>
                      IN /\ DOMAIN seen.left = findings[d]
                         /\ approved[d] # Nothing =>
                               \A f \in findings[d] : seen.left[f] = approved[d][f]
    BY DEF ReviewersSeeEveryFinding
  <2> DEFINE d == <<s, u>>
             side == Side("reviewer", d)
  <2>1. d \in Documents
    BY <1>2, UploadedIsDocument
  <2>2. Comparison("reviewer", s, u, v).left = side
    BY DEF Comparison
  <2> HIDE DEF d
  <2>3. Content(d) = approved[d]
    BY <1>2, <2>1, ContentIsApproved
  <2>4. approved[d] = Nothing => DOMAIN side = findings[d]
    BY <2>3 DEF Side, DraftSide
  <2>5. ASSUME approved[d] # Nothing
        PROVE  DOMAIN side = findings[d] /\ \A f \in findings[d] : side[f] = approved[d][f]
    <3>1. \A f \in Findings : approved[d][f] # "NONE" <=> f \in findings[d]
      BY <1>2, <2>1, <2>5 DEF ReadingInv, ApprovedIsReviewed, PublicationInv,
                             ApprovalDecidesFindings
    <3>2. approved[d] \in Decisions /\ findings[d] \subseteq Findings
      BY <1>2, <2>1, <2>5 DEF TypeOK
    <3>3. Side("reviewer", d) = SnapshotSide(approved[d], TRUE)
      BY <2>3, <2>5 DEF Side, Privileged
    <3>4. \A f \in Findings :
             (approved[d][f] = "KEEP" \/ approved[d][f] = "REJECT") <=> f \in findings[d]
      BY <3>1, <3>2 DEF Decisions
    <3> DEFINE listed == {f \in Findings : \/ approved[d][f] = "KEEP"
                                           \/ TRUE /\ approved[d][f] = "REJECT"}
    <3>5. listed = findings[d]
      BY <3>2, <3>4
    <3>6. side = [f \in listed |-> approved[d][f]]
      BY <3>3 DEF SnapshotSide
    <3> HIDE DEF listed, side
    <3> QED BY <3>5, <3>6
  <2> HIDE DEF side
  <2> QED BY <2>2, <2>4, <2>5 DEF d
<1>3. TypeOK /\ PublicationInv /\ ReadingInv => ComparisonShowsWhatCounts
  BY <1>1, <1>2 DEF ComparisonShowsWhatCounts
<1> QED BY <1>3, ReadingInvariant, PTL

\* The result a student is shown is the newest result of the newest published
\* version.
LEMMA ShownIsNewest ==
    ASSUME TypeOK, NEW s \in Submissions, Shown(s) # Nothing
    PROVE  LET n == NewestPublished(s) IN
           /\ n \in 1..MaxVersions /\ <<s, n>> \in Documents
           /\ results[<<s, n>>] # << >> /\ doc[<<s, n>>] = "PUBLISHED"
           /\ \A w \in 1..MaxVersions : results[<<s, w>>] # << >> => w <= n
           /\ Shown(s) = LastResult(s)
           /\ Shown(s).version = n
           /\ Shown(s).number = Len(results[<<s, n>>])
           /\ Shown(s).snapshot = results[<<s, n>>][Len(results[<<s, n>>])].snapshot
<1>1. /\ PublishedVersions(s) # {}
      /\ doc[<<s, NewestPublished(s)>>] = "PUBLISHED"
      /\ Shown(s) = LastResult(s)
  BY DEF Shown
<1>2. PublishedVersions(s) \subseteq 1..MaxVersions
  BY DEF PublishedVersions
<1>3. /\ NewestPublished(s) \in PublishedVersions(s)
      /\ \A w \in PublishedVersions(s) : w <= NewestPublished(s)
  BY <1>1, <1>2, NewestExists DEF NewestPublished
<1> QED BY <1>1, <1>3 DEF PublishedVersions, LastResult, Documents

\* The list of versions, the comparison and the result page agree.
THEOREM StudentScreensAlwaysAgree == Spec => []StudentScreensAgree
<1>1. ASSUME TypeOK, PublicationInv, ReadingInv PROVE StudentScreensAgree
  <2> SUFFICES ASSUME NEW s \in Submissions, Shown(s) # Nothing
               PROVE  LET listed == VersionList("student", s)
                          version == Shown(s).version
                      IN /\ listed[version] = Shown(s).number
                         /\ \A v \in DOMAIN listed : v > version => listed[v] = 0
                         /\ \A v \in DOMAIN listed :
                               LET seen == Comparison("student", s, version, v) IN
                               seen # Nothing => seen.left = ResultPage(s)
    BY DEF StudentScreensAgree
  <2> DEFINE n == Shown(s).version
             rows == results[<<s, n>>]
  <2>1. /\ n \in 1..MaxVersions /\ <<s, n>> \in Documents
        /\ rows # << >> /\ doc[<<s, n>>] = "PUBLISHED"
        /\ \A w \in 1..MaxVersions : results[<<s, w>>] # << >> => w <= n
        /\ Shown(s).number = Len(rows)
        /\ Shown(s).snapshot = rows[Len(rows)].snapshot
    BY <1>1, ShownIsNewest
  <2> HIDE DEF n
  <2>2. n \in 1..latest[s]
    <3>1. job[<<s, n>>] = "DONE"
      BY <1>1, <2>1 DEF PublicationInv, ReviewedIsDone
    <3>2. n <= latest[s] /\ latest[s] \in Nat
      BY <1>1, <2>1, <3>1, ReviewConstants DEF ReadingInv, AnalysedIsUploaded, TypeOK
    <3> QED BY <2>1, <3>2
  <2>3. VersionList("student", s)[n] = Shown(s).number
    BY <2>1, <2>2 DEF VersionList, NewestResultNumber
  <2>4. ASSUME NEW v \in 1..latest[s], v > n PROVE VersionList("student", s)[v] = 0
    <3>1. v \in 1..MaxVersions
      BY <1>1, UploadedIsDocument
    <3>2. results[<<s, v>>] = << >>
      BY <2>1, <2>2, <2>4, <3>1
    <3>3. Len(<< >>) = 0
      OBVIOUS
    <3> QED BY <3>2, <3>3 DEF VersionList, NewestResultNumber
  <2>5. ASSUME NEW v \in 1..latest[s], Comparison("student", s, n, v) # Nothing
        PROVE  Comparison("student", s, n, v).left = ResultPage(s)
    <3>1. Comparison("student", s, n, v).left = Side("student", <<s, n>>)
      BY <2>5 DEF Comparison
    <3>2. Content(<<s, n>>) = Shown(s).snapshot
      BY <2>1 DEF Content
    <3>3. Content(<<s, n>>) # Nothing
      BY <1>1, <2>1, ContentIsApproved DEF PublicationInv, ApprovalDecidesFindings
    <3> QED BY <3>1, <3>2, <3>3 DEF Side, ResultPage, Privileged
  <2>6. DOMAIN VersionList("student", s) = 1..latest[s]
    BY DEF VersionList
  <2> QED BY <2>3, <2>4, <2>5, <2>6 DEF n
<1> QED BY <1>1, ReadingInvariant, PTL

-------------------------------------------------------------------------------
(* What a student is shown, step by step.                                  *)

\* With the same result rows the newest published version is the same.
LEMMA SameRowsSameTop ==
    ASSUME NEW s \in Submissions,
           \A v \in 1..MaxVersions : results'[<<s, v>>] = results[<<s, v>>]
    PROVE  /\ PublishedVersions(s)' = PublishedVersions(s)
           /\ NewestPublished(s)' = NewestPublished(s)
           /\ PublishedVersions(s) # {} => LastResult(s)' = LastResult(s)
           /\ Top(s)' = Top(s)
<1>1. PublishedVersions(s)' = PublishedVersions(s)
  BY DEF PublishedVersions
<1>2. NewestPublished(s)' = NewestPublished(s)
  BY <1>1 DEF NewestPublished
<1>3. PublishedVersions(s) # {} =>
         /\ NewestPublished(s) \in 1..MaxVersions
         /\ results'[<<s, NewestPublished(s)>>] = results[<<s, NewestPublished(s)>>]
  <2> SUFFICES ASSUME PublishedVersions(s) # {}
               PROVE  NewestPublished(s) \in 1..MaxVersions
    OBVIOUS
  <2>1. PublishedVersions(s) \subseteq 1..MaxVersions
    BY DEF PublishedVersions
  <2>2. NewestPublished(s) \in PublishedVersions(s)
    BY <2>1, NewestExists DEF NewestPublished
  <2> QED BY <2>1, <2>2
<1>4. PublishedVersions(s) # {} => LastResult(s)' = LastResult(s)
  BY <1>2, <1>3 DEF LastResult
<1>5. Top(s)' = Top(s)
  BY <1>1, <1>2, <1>3 DEF Top
<1> QED BY <1>1, <1>2, <1>4, <1>5

\* A step that changes no row of a submission, and not whether its newest
\* published document is published, changes nothing for its student.
LEMMA SameRowsSameView ==
    ASSUME NEW s \in Submissions,
           \A v \in 1..MaxVersions : results'[<<s, v>>] = results[<<s, v>>],
           PublishedVersions(s) # {} =>
              (doc'[<<s, NewestPublished(s)>>] = "PUBLISHED"
                 <=> doc[<<s, NewestPublished(s)>>] = "PUBLISHED")
    PROVE  Shown(s)' = Shown(s) /\ Top(s)' = Top(s)
<1>1. /\ PublishedVersions(s)' = PublishedVersions(s)
      /\ NewestPublished(s)' = NewestPublished(s)
      /\ PublishedVersions(s) # {} => LastResult(s)' = LastResult(s)
      /\ Top(s)' = Top(s)
  BY SameRowsSameTop
<1>2. Shown(s)' = IF /\ PublishedVersions(s)' # {}
                     /\ doc'[<<s, NewestPublished(s)'>>] = "PUBLISHED"
                  THEN LastResult(s)' ELSE Nothing
  BY DEF Shown
<1>3. Shown(s) = IF /\ PublishedVersions(s) # {}
                    /\ doc[<<s, NewestPublished(s)>>] = "PUBLISHED"
                 THEN LastResult(s) ELSE Nothing
  BY DEF Shown
<1> QED BY <1>1, <1>2, <1>3

\* A withdrawal takes what is shown from the student of that document at most.
LEMMA UnpublishView ==
    ASSUME TypeOK, NEW d \in Documents, NEW k \in Commands, Unpublish(d, k),
           NEW s \in Submissions
    PROVE  /\ Top(s)' = Top(s)
           /\ \/ Shown(s)' = Shown(s)
              \/ /\ Shown(s)' = Nothing
                 /\ d = <<s, NewestPublished(s)>>
                 /\ PublishedVersions(s) # {}
<1>1. UNCHANGED results /\ doc' = [doc EXCEPT ![d] = "APPROVED"]
  BY DEF Unpublish
<1>2. /\ PublishedVersions(s)' = PublishedVersions(s)
      /\ NewestPublished(s)' = NewestPublished(s)
      /\ Top(s)' = Top(s)
  BY <1>1, SameRowsSameTop
<1>3. CASE PublishedVersions(s) # {} /\ d = <<s, NewestPublished(s)>>
  <2>1. doc'[<<s, NewestPublished(s)>>] # "PUBLISHED"
    BY <1>1, <1>3 DEF TypeOK
  <2>2. Shown(s)' = Nothing
    BY <1>2, <2>1 DEF Shown
  <2> QED BY <1>2, <1>3, <2>2
<1>4. CASE ~(PublishedVersions(s) # {} /\ d = <<s, NewestPublished(s)>>)
  <2>1. PublishedVersions(s) # {} =>
           doc'[<<s, NewestPublished(s)>>] = doc[<<s, NewestPublished(s)>>]
    BY <1>1, <1>4 DEF TypeOK
  <2> QED BY <1>1, <2>1, SameRowsSameView
<1> QED BY <1>3, <1>4

\* A publication shows a student a later result, or changes nothing for them.
LEMMA PublishView ==
    ASSUME TypeOK, PublicationInv, NEW batch \in SUBSET Documents,
           NEW command \in Actions \X Commands, PublishAll(batch, command),
           NEW s \in Submissions
    PROVE  LET n == NewestPublished(s)' IN
           \/ /\ ~(PublishedVersions(s)' # {} /\ <<s, n>> \in batch)
              /\ Shown(s)' = Shown(s) /\ Top(s)' = Top(s)
           \/ /\ PublishedVersions(s)' # {} /\ <<s, n>> \in batch
              /\ approved[<<s, n>>] \in Decisions
              /\ Top(s)' \in Nat \X Nat
              /\ Shown(s)' = [version |-> Top(s)'[1], number |-> Top(s)'[2],
                              snapshot |-> approved[<<s, n>>]]
              /\ Student!Later(Top(s)', Top(s))
<1> DEFINE n == NewestPublished(s)'
           row(d) == [snapshot |-> approved[d], command |-> command]
<1>1. /\ \A d \in batch : doc[d] = "APPROVED" /\ approved[d] # Nothing
      /\ \A d \in batch : results'[d] = Append(results[d], row(d)) /\ doc'[d] = "PUBLISHED"
      /\ \A d \in Documents \ batch : results'[d] = results[d] /\ doc'[d] = doc[d]
  BY DEF PublishAll
<1>2. ASSUME NEW d \in batch
      PROVE  /\ results[d] \in Seq(Result) /\ row(d) \in Result
             /\ approved[d] \in Decisions
             /\ results'[d] # << >>
             /\ Len(results'[d]) = Len(results[d]) + 1
             /\ results'[d][Len(results[d]) + 1].snapshot = approved[d]
  <2>1. approved[d] \in Decisions
    BY <1>1 DEF TypeOK
  <2>2. results[d] \in Seq(Result) /\ row(d) \in Result
    BY <2>1 DEF TypeOK, Result
  <2>3. row(d).snapshot = approved[d]
    OBVIOUS
  <2> HIDE DEF row
  <2> QED BY <1>1, <2>1, <2>2, <2>3, AppendRow
<1> HIDE DEF row
<1>3. \A v \in 1..MaxVersions : <<s, v>> \in Documents
  BY DEF Documents
<1>4. \A v \in 1..MaxVersions : results[<<s, v>>] # << >> => results'[<<s, v>>] # << >>
  BY <1>1, <1>2, <1>3
<1>5. CASE PublishedVersions(s)' = {}
  <2>1. \A v \in 1..MaxVersions : results'[<<s, v>>] = << >>
    BY <1>5 DEF PublishedVersions
  <2>2. \A v \in 1..MaxVersions : results'[<<s, v>>] = results[<<s, v>>]
    BY <1>4, <2>1
  <2>3. PublishedVersions(s) = {}
    BY <2>1, <2>2 DEF PublishedVersions
  <2> QED BY <1>5, <2>2, <2>3, SameRowsSameView
<1>6. ASSUME PublishedVersions(s)' # {}
      PROVE  /\ n \in 1..MaxVersions /\ results'[<<s, n>>] # << >>
             /\ \A w \in 1..MaxVersions : results'[<<s, w>>] # << >> => w <= n
  <2>1. PublishedVersions(s)' \subseteq 1..MaxVersions
    BY DEF PublishedVersions
  <2>2. n \in PublishedVersions(s)' /\ \A w \in PublishedVersions(s)' : w <= n
    BY <1>6, <2>1, NewestExists DEF NewestPublished
  <2> QED BY <2>2 DEF PublishedVersions
<1>7. CASE PublishedVersions(s)' # {} /\ <<s, n>> \notin batch
  <2>1. /\ results'[<<s, n>>] = results[<<s, n>>]
        /\ doc'[<<s, n>>] = doc[<<s, n>>]
    BY <1>1, <1>3, <1>6, <1>7
  <2>2. /\ n \in PublishedVersions(s)
        /\ \A w \in PublishedVersions(s) : w <= n
        /\ PublishedVersions(s) \subseteq 1..MaxVersions
    BY <1>4, <1>6, <1>7, <2>1 DEF PublishedVersions
  <2> HIDE DEF n
  <2>3. NewestPublished(s) = n
    BY <2>2, NewestIs DEF NewestPublished
  <2>4. LastResult(s)' = LastResult(s)
    BY <2>1, <2>3 DEF LastResult, n
  <2>5. Top(s)' = Top(s)
    BY <1>7, <2>1, <2>2, <2>3 DEF Top, n
  <2>6. Shown(s)' = IF doc'[<<s, n>>] = "PUBLISHED" THEN LastResult(s)' ELSE Nothing
    BY <1>7 DEF Shown, n
  <2>7. Shown(s) = IF doc[<<s, n>>] = "PUBLISHED" THEN LastResult(s) ELSE Nothing
    BY <2>2, <2>3 DEF Shown
  <2>8. Shown(s)' = Shown(s)
    BY <2>1, <2>4, <2>6, <2>7
  <2> QED BY <1>7, <2>5, <2>8 DEF n
<1>8. CASE PublishedVersions(s)' # {} /\ <<s, n>> \in batch
  <2> DEFINE d == <<s, n>>
             rows == results[d]
  <2>1. /\ rows \in Seq(Result) /\ approved[d] \in Decisions
        /\ Len(results'[d]) = Len(rows) + 1
        /\ results'[d][Len(rows) + 1].snapshot = approved[d]
        /\ doc'[d] = "PUBLISHED"
    BY <1>1, <1>2, <1>8
  <2>2. n \in Nat /\ n > 0 /\ Len(rows) \in Nat
    BY <1>6, <1>8, <2>1, ReviewConstants
  <2>3. Top(s)' = <<n, Len(rows) + 1>>
    BY <1>8, <2>1 DEF Top
  <2>4. Shown(s)' = [version |-> n, number |-> Len(rows) + 1, snapshot |-> approved[d]]
    BY <1>8, <2>1 DEF Shown, LastResult
  <2>5. Student!Later(<<n, Len(rows) + 1>>, Top(s))
    <3>1. CASE PublishedVersions(s) = {}
      BY <2>2, <3>1 DEF Top, Student!Later
    <3>2. CASE PublishedVersions(s) # {}
      <4> DEFINE m == NewestPublished(s)
      <4>1. PublishedVersions(s) \subseteq 1..MaxVersions
        BY DEF PublishedVersions
      <4>2. m \in PublishedVersions(s)
        BY <3>2, <4>1, NewestExists DEF NewestPublished
      <4>3. m \in 1..MaxVersions /\ m <= n
        BY <1>4, <1>6, <1>8, <4>2 DEF PublishedVersions
      <4>4. Top(s) = <<m, Len(results[<<s, m>>])>>
        BY <3>2 DEF Top
      <4> HIDE DEF m, n
      <4>5. m \in Nat
        BY <4>3
      <4>6. CASE m = n
        BY <2>2, <4>4, <4>6 DEF Student!Later
      <4>7. CASE m # n
        BY <2>2, <4>3, <4>4, <4>5, <4>7 DEF Student!Later
      <4> QED BY <4>6, <4>7
    <3> QED BY <3>1, <3>2
  <2> HIDE DEF rows, n
  <2>6. Top(s)' \in Nat \X Nat
    BY <2>2, <2>3
  <2> QED BY <1>8, <2>1, <2>3, <2>4, <2>5, <2>6 DEF n
<1> QED BY <1>5, <1>7, <1>8

\* Without a publication or a withdrawal students are shown what they were.
LEMMA QuietView ==
    ASSUME TypeOK, UNCHANGED results,
           \A d \in Documents : doc'[d] = "PUBLISHED" <=> doc[d] = "PUBLISHED",
           NEW s \in Submissions
    PROVE  Shown(s)' = Shown(s) /\ Top(s)' = Top(s)
<1>1. ASSUME PublishedVersions(s) # {} PROVE <<s, NewestPublished(s)>> \in Documents
  <2>1. PublishedVersions(s) \subseteq 1..MaxVersions
    BY DEF PublishedVersions
  <2>2. NewestPublished(s) \in PublishedVersions(s)
    BY <1>1, <2>1, NewestExists DEF NewestPublished
  <2> QED BY <2>1, <2>2 DEF Documents
<1> QED BY <1>1, SameRowsSameView

\* Only the withdrawal of a result takes it from its student.
THEOREM OnlyWithdrawalsHide == Spec => OnlyUnpublishHides
<1>1. TypeOK /\ PublicationInv /\ [Next]_vars =>
         [\A s \in Submissions : Shown(s) # Nothing /\ Shown(s)' = Nothing =>
             /\ doc[<<s, Shown(s).version>>] = "PUBLISHED"
             /\ doc'[<<s, Shown(s).version>>] = "APPROVED"]_vars
  <2> SUFFICES ASSUME TypeOK, PublicationInv, [Next]_vars, NEW s \in Submissions,
                      Shown(s) # Nothing, Shown(s)' = Nothing
               PROVE  /\ doc[<<s, Shown(s).version>>] = "PUBLISHED"
                      /\ doc'[<<s, Shown(s).version>>] = "APPROVED"
    OBVIOUS
  <2> DEFINE n == NewestPublished(s)
  <2>1. /\ <<s, n>> \in Documents /\ doc[<<s, n>>] = "PUBLISHED" /\ Shown(s).version = n
    BY ShownIsNewest
  <2>2. ~(/\ UNCHANGED results
          /\ \A d \in Documents : doc'[d] = "PUBLISHED" <=> doc[d] = "PUBLISHED")
    BY QuietView
  <2>3. ASSUME NEW batch \in SUBSET Documents, NEW command \in Actions \X Commands,
               PublishAll(batch, command)
        PROVE  FALSE
    <3>1. PICK top \in Nat \X Nat, content \in Decisions :
             Shown(s)' = [version |-> top[1], number |-> top[2], snapshot |-> content]
      BY <2>3, PublishView
    <3>2. Shown(s)' \in [version : Nat, number : Nat, snapshot : Decisions]
      BY <3>1
    <3> QED BY <3>2, NothingIsNoContent
  <2>4. PICK d \in Documents, k \in Commands : Unpublish(d, k)
    BY <2>2, <2>3, QuietStep
  <2>5. d = <<s, n>>
    BY <2>4, UnpublishView
  <2>6. doc'[<<s, n>>] = "APPROVED"
    BY <2>1, <2>4, <2>5 DEF Unpublish, TypeOK
  <2> QED BY <2>1, <2>6
<1> QED BY <1>1, ReadingInvariant, PTL DEF Spec, OnlyUnpublishHides

\* Every step of a reviewer, of the analysis or of an upload is a step of what
\* a student is promised, or is none to them.
LEMMA PublicationStep ==
    TypeOK /\ PublicationInv /\ ReadingInv /\ [Next]_vars
       => [Student!Next]_(Student!publicationVars)
<1> SUFFICES ASSUME TypeOK, PublicationInv, ReadingInv, [Next]_vars
             PROVE  [Student!Next]_(Student!publicationVars)
  OBVIOUS
<1> DEFINE shown == [s \in Submissions |-> Shown(s)]
           top == [s \in Submissions |-> Top(s)]
<1>1. ASSUME \A s \in Submissions : Shown(s)' = Shown(s) /\ Top(s)' = Top(s)
      PROVE  UNCHANGED Student!publicationVars
  BY <1>1 DEF Student!publicationVars
<1>2. CASE /\ UNCHANGED results
           /\ \A d \in Documents : doc'[d] = "PUBLISHED" <=> doc[d] = "PUBLISHED"
  BY <1>1, <1>2, QuietView
<1>3. ASSUME NEW batch \in SUBSET Documents, NEW command \in Actions \X Commands,
             PublishAll(batch, command)
      PROVE  Student!Next
  <2> DEFINE B == {s \in Submissions : /\ PublishedVersions(s)' # {}
                                       /\ <<s, NewestPublished(s)'>> \in batch}
  <2>1. ASSUME NEW s \in B
        PROVE  /\ Student!Later(Top(s)', Top(s))
               /\ \E c \in Decisions :
                     Shown(s)' = [version |-> Top(s)'[1], number |-> Top(s)'[2],
                                  snapshot |-> c]
    BY <1>3, PublishView
  <2>2. ASSUME NEW s \in Submissions \ B
        PROVE  Shown(s)' = Shown(s) /\ Top(s)' = Top(s)
    BY <1>3, PublishView
  <2>3. B \in SUBSET Submissions
    OBVIOUS
  <2> HIDE DEF B
  <2>4. /\ \A s \in B : Student!Later(top'[s], top[s])
        /\ \A s \in B : \E c \in Decisions :
              shown'[s] = [version |-> top'[s][1], number |-> top'[s][2], snapshot |-> c]
        /\ \A s \in Submissions \ B : shown'[s] = shown[s] /\ top'[s] = top[s]
    BY <2>1, <2>2, <2>3
  <2>5. Student!Show(B)
    BY <2>4 DEF Student!Show
  <2> QED BY <2>3, <2>5 DEF Student!Next
<1>4. ASSUME NEW d \in Documents, NEW k \in Commands, Unpublish(d, k)
      PROVE  Student!Next \/ UNCHANGED Student!publicationVars
  <2>1. CASE \A s \in Submissions : Shown(s)' = Shown(s)
    BY <1>1, <1>4, <2>1, UnpublishView
  <2>2. ASSUME NEW s \in Submissions, Shown(s)' # Shown(s) PROVE Student!Next
    <3>1. Shown(s)' = Nothing /\ d[1] = s
      BY <1>4, <2>2, UnpublishView
    <3>2. \A t \in Submissions : t # s => Shown(t)' = Shown(t)
      BY <1>4, <3>1, UnpublishView
    <3>3. \A t \in Submissions : Top(t)' = Top(t)
      BY <1>4, UnpublishView
    <3>4. shown[s] # Nothing /\ shown' = [shown EXCEPT ![s] = Nothing] /\ top' = top
      BY <2>2, <3>1, <3>2, <3>3
    <3> QED BY <3>4 DEF Student!Withdraw, Student!Next
  <2> QED BY <2>1, <2>2
<1> QED BY <1>2, <1>3, <1>4, QuietStep

\* Review implements Publication: a shown result never changes in place, is
\* followed by later ones only, and never comes back.
THEOREM ReviewImplementsPublication == Spec => ImplementsPublication
<1>1. Init => Student!Init
  <2> SUFFICES ASSUME Init, NEW s \in Submissions
               PROVE  Shown(s) = Nothing /\ Top(s) = <<0, 0>>
    BY DEF Student!Init
  <2>1. PublishedVersions(s) = {}
    BY DEF Init, PublishedVersions, Documents
  <2> QED BY <2>1 DEF Shown, Top
<1> QED
  BY <1>1, ReadingInvariant, PublicationStep, PTL
  DEF Spec, ImplementsPublication, Student!Spec, Student!publicationVars
===============================================================================
