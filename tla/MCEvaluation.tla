----------------------------- MODULE MCEvaluation -----------------------------
(***************************************************************************)
(* Small instances of what evaluates a document: LlmRouting,               *)
(* CitationResolution, SemanticEvaluation and CitationFindings. In the     *)
(* code one job goes through them one after the other, and each reads of   *)
(* the others only a result; so a behaviour is one of one of them: part    *)
(* says of which, and the state of the others stays as it began. Of the    *)
(* two papers that claims cite, one may be in the private cache.           *)
(***************************************************************************)
EXTENDS LlmRouting, CitationFindings, CitationResolution, SemanticEvaluation, TLC

CONSTANTS w1, w2, ann, ben

CONSTANTS P, Q, k1, k2, a1, a2, d1, p1, p2, x1, x2, c1, c2, c3, r1, r2

VARIABLE part

TwoProviders == {P, Q}
TwoKeys == {k1, k2}
TwoAdmins == {a1, a2}
TwoPlain == {p1, p2}
TwoArxivIds == <<x1, x2>>
SlowOpenAlex == [crossref |-> 1, openalex |-> 2, arxiv |-> 1]
ThreeClaims == {c1, c2, c3}
TwoCitedOnce == c1 :> r1 @@ c2 :> r1 @@ c3 :> r2

\* The first author and the year of each work.
TwoWorks == {w1, w2}
OneByEach == w1 :> ann @@ w2 :> ben

Text(marker) == Paragraph("prose", << >>, FALSE, FALSE, <<marker>>)
Cites(numbers) == Text(Marker(numbers, NoAuthor, TRUE))
Names(author) == Text(Marker({}, author, TRUE))
Unreadable == Text(Marker({}, NoAuthor, FALSE))
Entries(entries) == Paragraph("entries", entries, FALSE, FALSE, << >>)

Bodies ==
    {<<Cites({1})>>, <<Cites({1, 2})>>, <<Cites({2}), Cites({1})>>, <<Cites({3})>>,
     <<Unreadable, Cites({1})>>, <<Names(ann)>>, <<Names(ben), Cites({2})>>,
     <<Cites({0, 1}), Cites({1}), Cites({2}), Cites({3})>>}

Backs ==
    {Entries(<<Entry(1, w1, FALSE)>>), Entries(<<Entry(1, w1, TRUE)>>),
     Entries(<<Entry(2, w2, FALSE)>>), Entries(<<Entry(1, w2, FALSE)>>),
     Entries(<<Entry(0, w1, FALSE)>>), Entries(<<Entry(1, w1, FALSE), Entry(2, w2, TRUE)>>),
     [Entries(<<Entry(3, w2, FALSE)>>) EXCEPT !.prefix = TRUE],
     Paragraph("author", <<Entry(0, w1, FALSE)>>, FALSE, FALSE, << >>),
     Paragraph("note", <<Entry(0, w2, FALSE)>>, FALSE, FALSE, << >>),
     [Paragraph("bibliographic", <<Entry(0, w2, TRUE)>>, FALSE, TRUE, << >>) EXCEPT !.doi = TRUE],
     Cites({2})}

\* What a bibliography of three paragraphs begins with.
Fronts == {b \in Backs : /\ b.kind \in {"entries", "author"} /\ ~ b.prefix
                         /\ Len(b.entries) = 1
                         /\ b.entries[1].number < 2 /\ b.entries[1].work = w1}

\* Up to three paragraphs of bibliography, or a table under its heading.
SmallDocuments ==
    {[heading |-> h, body |-> b, back |-> k, table |-> << >>] :
        h \in BOOLEAN, b \in Bodies,
        k \in {s \in UNION {[1..n -> Backs] : n \in 0..3} : Len(s) = 3 => s[1] \in Fronts}}
    \union
    {[heading |-> TRUE, body |-> b, back |-> k,
      table |-> <<Entry(1, w1, FALSE), Entry(2, w2, FALSE)>>] :
        b \in Bodies, k \in {<< >>, <<Cites({2})>>}}

TwoAnswers == {<<"none", "agrees", "agrees">>, <<"differs", "differs", "none">>}

EvaluationSymmetry == {p @@ q : p \in Permutations(Keys), q \in Permutations(Admins)}

vars == <<llmVars, part, resolutionVars, semanticVars, findingVars>>

NoDocument ==
    /\ doc = [heading |-> FALSE, body |-> << >>, back |-> << >>, table |-> << >>]
    /\ report = Parse(doc)
    /\ attempt = 0 /\ outcome = "none" /\ findings = {} /\ summary = NoSummary

Init ==
    /\ part \in {"routing", "looking up", "evaluating", "citing"}
    /\ LlmInit /\ ResolutionInit /\ SemanticInit
    /\ part # "evaluating" => /\ cache = [s \in Sources |-> Nothing]
                              /\ job = [model |-> TRUE, encoder |-> TRUE, fetching |-> TRUE,
                                        approval |-> "none"]
    /\ cache[r2] = Nothing
    /\ \E s \in FirstSlots : slot = [p \in Registries |-> s]
    /\ part # "looking up" => found = {} /\ slot["arxiv"] = 0
    /\ part # "routing" => /\ environment = [p \in Providers \ {Bedrock} |-> NoKey]
                           /\ route.provider = P
    /\ IF part = "citing" THEN FindingsInit ELSE NoDocument

Routing ==
    /\ part = "routing"
    /\ LlmNext /\ LlmWithinBound'
    /\ UNCHANGED <<part, resolutionVars, semanticVars, findingVars>>

LookingUp ==
    /\ part = "looking up"
    /\ ResolutionNext
    /\ UNCHANGED <<llmVars, part, semanticVars, findingVars>>

Evaluating ==
    /\ part = "evaluating"
    /\ SemanticNext
    /\ UNCHANGED <<llmVars, part, resolutionVars, findingVars>>

Citing ==
    /\ part = "citing"
    /\ FindingsNext
    /\ UNCHANGED <<llmVars, part, resolutionVars, semanticVars>>

Next == Routing \/ LookingUp \/ Evaluating \/ Citing

Spec == Init /\ [][Next]_vars

TypeOK == LlmTypeOK /\ ResolutionTypeOK /\ SemanticTypeOK /\ FindingsTypeOK
===============================================================================
