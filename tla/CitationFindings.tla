--------------------------- MODULE CitationFindings ---------------------------
(***************************************************************************)
(* What the citation evaluator writes about a document: a finding for each *)
(* problem of its bibliography and for each criterion on citations, and a  *)
(* summary in the job's snapshot (services/citation.py,                    *)
(* evaluate_citations). A job is evaluated again after an attempt that     *)
(* failed, and an attempt that fails in the middle commits what it had     *)
(* written (workers/tasks.py); a database error alone undoes it.           *)
(*                                                                         *)
(* What the providers know of a reference is a choice: no record, one that *)
(* agrees with the entry, one that does not. CitationResolution is how     *)
(* they are asked, SemanticEvaluation how the semantic criteria are.       *)
(***************************************************************************)
EXTENDS BibliographyParsing

CONSTANTS
    Documents,     \* what may be submitted
    Criteria,      \* enabled citation criteria without a semantic method
    Semantic,      \* the criterion with one
    Answers,       \* what providers may answer: an Answer for each reference's place
    MaxFindings,   \* _MAX_FINDINGS_PER_CRITERION
    MaxAnchors,    \* _MAX_EVIDENCE_ANCHORS_PER_FINDING
    MaxAttempts    \* AnalysisJob.max_attempts

\* What comparing the providers' records with an entry comes to: no record that
\* can be compared, or one whose title, authors, year and venue agree or do not.
Answer == {"none", "agrees", "differs"}

ASSUME FindingsConstants ==
    /\ Documents \subseteq DocumentForms
    /\ Answers \subseteq [1..MaxReferences -> Answer]
    /\ MaxFindings \in Nat \ {0} /\ MaxAnchors \in Nat \ {0} /\ MaxAttempts \in Nat \ {0}
    /\ Semantic \notin Criteria

VARIABLES
    doc,       \* the document
    report,    \* what parse_citations makes of it, the same at every attempt
    attempt,   \* attempts begun
    outcome,   \* of the last one: "none", "DONE" or "ERROR"
    findings,  \* Finding rows, with the attempt that wrote them
    summary    \* AnalysisJob.snapshot["citation"]["counts"]

findingVars == <<doc, report, attempt, outcome, findings, summary>>

IdentityProblems == {"MISMATCH", "UNRESOLVED"}
MentionProblems == {"ORPHAN", "AMBIGUOUS", "AMBIGUOUS_MAPPING"}
Statuses == IdentityProblems \union MentionProblems
            \union {"FRAGMENTED", "UNCERTAIN", "UNCITED", "DUPLICATE"}

\* The counts of CitationReport.as_dict. The rates, which divide them, and whether
\* there is a bibliography are left out.
Counters == [references : Nat, mentions : Nat, linked : Nat, orphan_mentions : Nat,
             ambiguous : Nat, ambiguous_mapping : Nat, uncited_references : Nat,
             verified : Nat, metadata_mismatch : Nat, unresolved : Nat,
             parser_uncertain : Nat, fragmented_references : Nat, duplicates : Nat]

NoSummary ==
    [references |-> 0, mentions |-> 0, linked |-> 0, orphan_mentions |-> 0,
     ambiguous |-> 0, ambiguous_mapping |-> 0, uncited_references |-> 0,
     verified |-> 0, metadata_mismatch |-> 0, unresolved |-> 0,
     parser_uncertain |-> 0, fragmented_references |-> 0, duplicates |-> 0]

Positions == Nat \ {0}

\* How hard a finding is: only two kinds are errors of the student.
Severity(status) == IF status \in {"MISMATCH", "ORPHAN"} THEN "error" ELSE "needs_review"

FindingsTypeOK ==
    /\ attempt \in 0..MaxAttempts
    /\ outcome \in {"none", "DONE", "ERROR"}
    /\ summary \in Counters
    /\ \A f \in findings :
          /\ f.attempt \in 1..attempt
          /\ f.criterion \in Criteria \union {Semantic}
          /\ f.status \in Statuses \union {"TRUNCATED", "SEMANTIC"}
          /\ f.omitted \in Nat
          /\ Len(f.anchors) \in 1..MaxAnchors
          /\ \A i \in DOMAIN f.anchors : f.anchors[i] \in Positions

FindingsInit ==
    /\ doc \in Documents /\ report = Parse(doc)
    /\ attempt = 0 /\ outcome = "none"
    /\ findings = {} /\ summary = NoSummary

-------------------------------------------------------------------------------
(* Problems.                                                               *)

\* _identity: an entry that was not read for certain keeps the status it has.
Identity(reference, answer) ==
    CASE reference.status # "PARSED" -> reference.status
      [] reference.status = "PARSED" /\ answer = "none" -> "UNRESOLVED"
      [] reference.status = "PARSED" /\ answer = "agrees" -> "VERIFIED"
      [] reference.status = "PARSED" /\ answer = "differs" -> "MISMATCH"

Row(id, status, anchors) == [id |-> id, status |-> status, anchors |-> anchors]

\* cited_reference_ids: a mention that is not linked cites nothing.
CitedReferences ==
    UNION {report.mentions[i].references :
             i \in {j \in DOMAIN report.mentions : report.mentions[j].status = "LINKED"}}

Legible == {i \in DOMAIN report.references : report.references[i].status = "PARSED"}

Identities(answers) ==
    [i \in DOMAIN report.references |-> Identity(report.references[i], answers[i])]

\* The references and mentions that each kind of row is about.
Unidentified(answers) ==
    {i \in DOMAIN report.references : Identities(answers)[i] # "VERIFIED"}
Unlinked == {i \in DOMAIN report.mentions : report.mentions[i].status \in MentionProblems}
Uncited == Legible \ CitedReferences

ReferenceRow(i, status) ==
    Row(report.references[i].id, status, report.references[i].anchors)
MentionRow(i) ==
    Row(<<report.mentions[i].id>>, report.mentions[i].status, <<report.mentions[i].at>>)

\* _issue_rows, in their order.
IssueRows(answers) ==
    Ordered([i \in Unidentified(answers) |-> ReferenceRow(i, Identities(answers)[i])])
    \o Ordered([i \in Unlinked |-> MentionRow(i)])
    \o Ordered([i \in Uncited |-> ReferenceRow(i, "UNCITED")])
    \o Ordered([i \in report.duplicates |-> ReferenceRow(i, "DUPLICATE")])

Distinct(seq) ==
    Ordered([i \in {j \in DOMAIN seq : \A k \in 1..j - 1 : seq[k] # seq[j]} |-> seq[i]])

UpTo(seq, n) == SubSeq(seq, 1, IF n < Len(seq) THEN n ELSE Len(seq))

\* _bounded_issue_rows: one row for an id and a status, with a few anchors.
Issues(rows) ==
    LET firsts == {i \in DOMAIN rows : \A j \in 1..i - 1 :
                      <<rows[j].id, rows[j].status>> # <<rows[i].id, rows[i].status>>}
    IN Ordered([i \in firsts |-> [rows[i] EXCEPT !.anchors = UpTo(Distinct(@), MaxAnchors)]])

\* Mutant: what takes the last place is not counted among the rows left out.
OmitOneLess(issues) == Len(issues) - MaxFindings

\* The rows the last place stands for.
Omitted(issues) == Len(issues) - (MaxFindings - 1)

Finding(n, criterion, row, omitted) ==
    [attempt |-> n, criterion |-> criterion, id |-> row.id, status |-> row.status,
     anchors |-> row.anchors, omitted |-> omitted]

\* The findings of one criterion, in the n-th attempt.
FindingsOf(n, criterion, issues) ==
    IF Len(issues) <= MaxFindings
    THEN {Finding(n, criterion, issues[i], 0) : i \in DOMAIN issues}
    ELSE {Finding(n, criterion, issues[i], 0) : i \in 1..MaxFindings - 1}
         \union {Finding(n, criterion,
                         Row(<<>>, "TRUNCATED", UpTo(issues[MaxFindings].anchors, 1)),
                         Omitted(issues))}

\* The mentions with a status, and the references with an identity.
Linkage(status) == {i \in DOMAIN report.mentions : report.mentions[i].status = status}
Identified(answers, status) ==
    {i \in DOMAIN report.references : Identities(answers)[i] = status}

Illegible == DOMAIN report.references \ Legible

\* Mutant: linking a mention leaves its parser_status as the marker was read.
DoubtfulMarkers == {i \in DOMAIN report.mentions : ~report.mentions[i].marker.read}

\* The mentions that are not PARSED in the end: all that are left to a person, whether
\* the marker or another part of the document is at fault.
Doubtful == Linkage("AMBIGUOUS_MAPPING")

\* CitationReport.as_dict: counted in the report, not in the rows. A mention left to
\* a person is counted three times, an entry that breaks off twice.
Counted(answers) ==
    [references |-> Len(report.references),
     mentions |-> Len(report.mentions),
     linked |-> Cardinality(Linkage("LINKED")),
     orphan_mentions |-> Cardinality(Linkage("ORPHAN")),
     ambiguous |-> Cardinality(Linkage("AMBIGUOUS")) + Cardinality(Linkage("AMBIGUOUS_MAPPING")),
     ambiguous_mapping |-> Cardinality(Linkage("AMBIGUOUS_MAPPING")),
     uncited_references |-> Cardinality(Uncited),
     verified |-> Cardinality(Identified(answers, "VERIFIED")),
     metadata_mismatch |-> Cardinality(Identified(answers, "MISMATCH")),
     unresolved |-> Cardinality(Identified(answers, "UNRESOLVED")),
     parser_uncertain |-> Cardinality(Illegible) + Cardinality(Doubtful),
     fragmented_references |->
        Cardinality({i \in Illegible : report.references[i].status = "FRAGMENTED"}),
     duplicates |-> Cardinality(report.duplicates)]

-------------------------------------------------------------------------------
(* Attempts.                                                               *)

StartAttempt ==
    /\ outcome # "DONE"
    /\ attempt < MaxAttempts
    /\ attempt' = attempt + 1
    /\ UNCHANGED <<doc, report>>

\* Mutant: only what the criteria without a semantic method said is deleted.
ClearPlain == {f \in findings : f.criterion = Semantic}

\* _clear_existing: of the criteria on citations, semantic ones too. There are
\* no other findings here.
Cleared == {f \in findings : f.criterion \notin Criteria \union {Semantic}}

\* The findings of the n-th attempt, up to the semantic criterion.
Written(n, answers) ==
    UNION {FindingsOf(n, c, Issues(IssueRows(answers))) : c \in Criteria}

\* What the semantic criterion says is about the linked mentions of a document
\* that was read for certain.
SemanticFindings(n) ==
    IF report.uncertain THEN {} ELSE
    {Finding(n, Semantic, Row(<<report.mentions[i].id>>, "SEMANTIC", <<report.mentions[i].at>>), 0) :
        i \in {j \in DOMAIN report.mentions : report.mentions[j].status = "LINKED"}}

EvaluateAnswered(answers) ==
    LET rows == Cleared \union Written(attempt', answers)
        all == rows \union SemanticFindings(attempt')
    IN /\ summary' = Counted(answers)
       /\ \/ outcome' = "DONE" /\ findings' = all
          \/ outcome' = "ERROR" /\ findings' \in {rows, all}

\* The evaluation goes through, or fails in the semantic criterion, before or
\* after it has added its own.
Evaluate == StartAttempt /\ \E answers \in Answers : EvaluateAnswered(answers)

\* It fails before, with the old findings gone.
FailEarly ==
    /\ StartAttempt
    /\ findings' = Cleared
    /\ outcome' = "ERROR"
    /\ UNCHANGED summary

\* A database error: nothing is kept, and the job waits to be taken over.
RollBack ==
    /\ StartAttempt
    /\ outcome' = "none"
    /\ UNCHANGED <<findings, summary>>

FindingsNext == Evaluate \/ FailEarly \/ RollBack

FindingsSpec == FindingsInit /\ [][FindingsNext]_findingVars

-------------------------------------------------------------------------------
(* Properties.                                                             *)

Done == outcome = "DONE"

\* What stands in the bibliography with a number in front of it.
EntriesPrinted ==
    UNION {{Paragraphs(doc)[at].entries[i].number : i \in 1..Len(Paragraphs(doc)[at].entries)} :
             at \in BackPositions(doc)}

\* "Parser uncertainty propagates to reference identity and mention mapping as
\* review status and evidence, never as a hard citation error" (the Document IR
\* design, section 4.5): an orphan is reported only if the bibliography has no
\* entry with any of its numbers, cut short or not, and a mismatch only of an
\* entry that was read to its end.
ErrorsAreCertain ==
    Done => \A f \in {g \in findings : Severity(g.status) = "error"} :
        \/ \E i \in DOMAIN report.mentions :
              /\ f.id = <<report.mentions[i].id>>
              /\ report.mentions[i].marker.read
              /\ report.mentions[i].marker.numbers \intersect EntriesPrinted = {}
        \/ \E i \in DOMAIN report.references :
              /\ f.id = report.references[i].id
              /\ report.bibliography = "PARSED"
              /\ ~Bibliography(doc).groups[i].breaks

\* The problems of a document, told one by one without any row: an entry that is
\* not identified, a legible one nobody cites, one whose work was listed before, a
\* mention without its entry.
Problems(criterion) ==
    LET refs == report.references IN
    Cardinality({i \in DOMAIN refs : refs[i].status # "PARSED"})
    + summary.metadata_mismatch + summary.unresolved
    + Cardinality({i \in DOMAIN refs : refs[i].status = "PARSED"
                                       /\ i \notin CitedReferences})
    + Cardinality(report.duplicates)
    + Cardinality({i \in DOMAIN report.mentions : report.mentions[i].status # "LINKED"})

\* When the job is done, every criterion shows every problem once, or counts it
\* among the omitted ones, and nothing of an earlier attempt is left.
EveryProblemIsShown ==
    Done => \A c \in Criteria :
        LET shown == {f \in findings : f.criterion = c}
            cut == {f \in shown : f.status = "TRUNCATED"}
        IN /\ Cardinality(shown) <= MaxFindings
           /\ Cardinality(cut) <= 1
           /\ Cardinality(shown \ cut) + (IF cut = {} THEN 0 ELSE (CHOOSE f \in cut : TRUE).omitted)
                = Problems(c)

\* The findings of a job that is done are of one attempt, of every criterion.
OneAttemptSpeaks == Done => \A f \in findings : f.attempt = attempt

\* The findings of a criterion that have one of some statuses.
Told(criterion, statuses) ==
    Cardinality({f \in findings : f.criterion = criterion /\ f.status \in statuses})

\* Each count of the summary is that of some findings; and a reference or a mention
\* without a finding is counted as verified or as linked.
AgreeOn(c) ==
    /\ summary.references = summary.verified
         + Told(c, {"FRAGMENTED", "UNCERTAIN", "MISMATCH", "UNRESOLVED"})
    /\ summary.mentions = summary.linked + Told(c, {"ORPHAN", "AMBIGUOUS", "AMBIGUOUS_MAPPING"})
    /\ summary.orphan_mentions = Told(c, {"ORPHAN"})
    /\ summary.ambiguous = Told(c, {"AMBIGUOUS", "AMBIGUOUS_MAPPING"})
    /\ summary.ambiguous_mapping = Told(c, {"AMBIGUOUS_MAPPING"})
    /\ summary.uncited_references = Told(c, {"UNCITED"})
    /\ summary.metadata_mismatch = Told(c, {"MISMATCH"})
    /\ summary.unresolved = Told(c, {"UNRESOLVED"})
    /\ summary.parser_uncertain = Told(c, {"FRAGMENTED", "UNCERTAIN", "AMBIGUOUS_MAPPING"})
    /\ summary.fragmented_references = Told(c, {"FRAGMENTED"})
    /\ summary.duplicates = Told(c, {"DUPLICATE"})

\* The counts in the job's snapshot and the findings of each criterion agree, if the
\* findings are not cut short.
SummaryTellsTheFindings ==
    Done => \A c \in Criteria :
        (\A f \in findings : f.criterion = c => f.status # "TRUNCATED") => AgreeOn(c)

\* The findings and the summary of a job that is done are the whole of one attempt
\* (citation.py:2458, tasks.py:146).
ReportIsComplete == EveryProblemIsShown /\ SummaryTellsTheFindings /\ OneAttemptSpeaks
===============================================================================
