---------------------------- MODULE ReviewReading ----------------------------
(***************************************************************************)
(* What students and reviewers read of the versions of a submission: the   *)
(* list of versions, the comparison of two of them and the page of the     *)
(* published result (services/review.py).  Nothing here changes a row;     *)
(* every screen has its own query and its own idea of what is visible.     *)
(*                                                                         *)
(* A screen is read in one step.  What it shows of a published document    *)
(* comes from one query and from a snapshot that never changes.            *)
(***************************************************************************)
EXTENDS Review

\* _submission_for_read: the student of the submission is not privileged, the
\* owner of the course and the administrators are.
Privileged(reader) == reader = "reviewer"

\* Mutant: the oldest result of a document instead of its newest.
FirstResultNumber(d) == IF results[d] = << >> THEN 0 ELSE 1

\* _versions_with_latest_published_result; 0 is a document without a result.
NewestResultNumber(d) == Len(results[d])

\* list_submission_versions: the number of the result beside each version, 0
\* where the reader is not told of one.
VersionList(reader, s) ==
    [v \in 1..latest[s] |->
        IF Privileged(reader) \/ doc[<<s, v>>] = "PUBLISHED"
        THEN NewestResultNumber(<<s, v>>)
        ELSE 0]

-------------------------------------------------------------------------------
(* Sides of a comparison: a function from the findings that are shown to   *)
(* the decision shown with them.                                           *)

\* Mutant: what was rejected is left out for every reader.
KeptFindingsOnly(decisions, includeRejected) ==
    [f \in {g \in Findings : decisions[g] = "KEEP"} |-> decisions[f]]

\* _snapshot_findings and _privileged_snapshot_side: an approved snapshot lists
\* its rejected findings apart, for privileged readers.
SnapshotSide(decisions, includeRejected) ==
    [f \in {g \in Findings : \/ decisions[g] = "KEEP"
                             \/ includeRejected /\ decisions[g] = "REJECT"}
       |-> decisions[f]]

\* _draft_side: the findings of the document beside the draft saved last.
DraftSide(d) ==
    [f \in findings[d] |-> IF newest[d] = NoReviewer THEN "NONE" ELSE LatestDraft(d)[f]]

\* The newest result counts, then the approval, then the draft.
Content(d) ==
    IF results[d] # << >> THEN results[d][Len(results[d])].snapshot ELSE approved[d]

Side(reader, d) ==
    IF Content(d) = Nothing THEN DraftSide(d)
    ELSE SnapshotSide(Content(d), Privileged(reader))

\* Mutant: it is enough that one of the two versions is published.
OneIsReadable(reader, s, u, v) ==
    ~Privileged(reader) =>
        \E w \in {u, v} : doc[<<s, w>>] = "PUBLISHED" /\ results[<<s, w>>] # << >>

\* A student compares published versions only.
BothAreReadable(reader, s, u, v) ==
    ~Privileged(reader) =>
        \A w \in {u, v} : doc[<<s, w>>] = "PUBLISHED" /\ results[<<s, w>>] # << >>

\* compare_submission_versions; a refusal is Nothing.
Comparison(reader, s, u, v) ==
    IF u # v /\ BothAreReadable(reader, s, u, v)
    THEN [left |-> Side(reader, <<s, u>>), right |-> Side(reader, <<s, v>>)]
    ELSE Nothing

\* The result page lists what the snapshot keeps (_published_response).
ResultPage(s) ==
    IF Shown(s) = Nothing THEN Nothing ELSE SnapshotSide(Shown(s).snapshot, FALSE)

-------------------------------------------------------------------------------
(* Properties.                                                             *)

\* AT-14, AT-15: what a student is told by a comparison is, on both sides, what
\* was approved and is published now: no draft, no rejected finding and no
\* withdrawn result is seen through the older or the newer version beside it.
ComparisonTellsPublishedOnly ==
    \A s \in Submissions : \A u, v \in 1..latest[s] :
        LET seen == Comparison("student", s, u, v) IN
        seen # Nothing =>
            /\ VersionList("student", s)[u] # 0 /\ VersionList("student", s)[v] # 0
            /\ \A f \in DOMAIN seen.left : approved[<<s, u>>][f] = "KEEP"
            /\ \A f \in DOMAIN seen.right : approved[<<s, v>>][f] = "KEEP"

\* AT-16: a reviewer who compares versions sees each finding the document has, with the
\* decision that counts: the approved one once there is an approval, however
\* drafts were edited since, and the draft's before.
ReviewersSeeEveryFinding ==
    \A s \in Submissions : \A u, v \in 1..latest[s] :
        LET seen == Comparison("reviewer", s, u, v)
            d == <<s, u>>
        IN seen # Nothing =>
            /\ DOMAIN seen.left = findings[d]
            /\ approved[d] # Nothing => \A f \in findings[d] : seen.left[f] = approved[d][f]

\* The screens of a student tell one story: the result on the result page is
\* the newest result the list of versions names, and a comparison shows of that
\* version what the page shows.
StudentScreensAgree ==
    \A s \in Submissions : Shown(s) # Nothing =>
        LET listed == VersionList("student", s)
            version == Shown(s).version
        IN /\ listed[version] = Shown(s).number
           /\ \A v \in DOMAIN listed : v > version => listed[v] = 0
           /\ \A v \in DOMAIN listed :
                 LET seen == Comparison("student", s, version, v) IN
                 seen # Nothing => seen.left = ResultPage(s)

\* What a comparison shows of a version is the content that counts for its
\* reader, in the past and while it changes (review.py:2525).
ComparisonShowsWhatCounts == ComparisonTellsPublishedOnly /\ ReviewersSeeEveryFinding
===============================================================================
