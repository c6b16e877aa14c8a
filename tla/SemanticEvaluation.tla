-------------------------- MODULE SemanticEvaluation --------------------------
(***************************************************************************)
(* One run of evaluate_semantic_citations (services/semantic_citation.py): *)
(* the sources of the cited references are found one by one, in a private  *)
(* cache or over the network; then the claims are evaluated several at a   *)
(* time, with a budget of model calls they share; at the end one score is  *)
(* proposed, or none (semantic_gate.py).                                   *)
(*                                                                         *)
(* A PDF is either the paper the reference names or another one, which is  *)
(* what the identity check tells apart. Retrieval, prompts and texts are   *)
(* abstracted to the outcomes the evaluation distinguishes.                *)
(***************************************************************************)
EXTENDS Integers, FiniteSets, Sequences

CONSTANTS
    Claims,
    Cited,        \* the reference of each claim
    Evaluations, CallBudget, FetchBudget,
    MaxCopies,    \* _MAX_OPEN_ACCESS_PDFS_PER_SOURCE
    Nothing       \* no object, no source, no score

\* Nothing is none of the values it stands beside.
ASSUME SemanticConstants ==
    /\ IsFiniteSet(Claims)
    /\ CallBudget \in Nat /\ FetchBudget \in Nat /\ MaxCopies \in Nat
    /\ Nothing \notin {"unasked", "unscored", "proposed", "paper", "other"}
    /\ Nothing \notin {"SUPPORTED", "PARTIALLY_SUPPORTED", "CONTRADICTED", "IRRELEVANT"}

Sources == {Cited[c] : c \in Claims}

\* What decides a claim: the text itself, or a model's verdict. The other
\* statuses leave it to the teacher.
Verdicts == {"SUPPORTED", "PARTIALLY_SUPPORTED", "CONTRADICTED", "IRRELEVANT"}
Undecided == {"AMBIGUOUS_CLAIM", "SOURCE_UNAVAILABLE", "INSUFFICIENT_EVIDENCE",
              "NEEDS_MANUAL_REVIEW"}

VARIABLES
    job,      \* what the run is given: model, encoder, approval, fetching
    cache,    \* the private cache: "paper", "other" or Nothing, by reference
    source,   \* sources_by_canonical; "unasked" before its turn
    fetches,  \* SourceFetchBudget.remaining
    claims,   \* the claim's thread and its result
    calls,    \* _BudgetedSemanticModel._calls
    fallbacks, \* EncoderRanker.failures
    score,    \* proposed_score
    asked     \* history: calls that reached the model

semanticVars == <<job, cache, source, fetches, claims, calls, fallbacks, score, asked>>

Claim == [phase : {"waiting", "ranked", "calling", "called", "ended"}, attempt : 1..2,
          status : Verdicts \union Undecided \union {Nothing},
          heard : {Nothing, "exact", "valid", "manual", "invalid", "error"}]

SemanticTypeOK ==
    /\ job \in [model : BOOLEAN, encoder : BOOLEAN, fetching : BOOLEAN,
                approval : {"none", "pending", "below", "approved"}]
    /\ cache \in [Sources -> {"paper", "other", Nothing}]
    /\ source \in [Sources -> {"unasked", "paper", "other", Nothing}]
    /\ fetches \in 0..FetchBudget
    /\ claims \in [Claims -> Claim]
    /\ calls \in 0..CallBudget
    /\ fallbacks \in Nat
    /\ score \in {Nothing, "unscored", "proposed"}
    /\ asked \in Nat

\* The private cache may hold what earlier jobs, or the operator, put there.
SemanticInit ==
    /\ job \in [model : BOOLEAN, encoder : BOOLEAN, fetching : BOOLEAN,
                approval : {"none", "pending", "below", "approved"}]
    /\ cache \in [Sources -> {"paper", "other", Nothing}]
    /\ source = [s \in Sources |-> "unasked"]
    /\ fetches = FetchBudget
    /\ claims = [c \in Claims |->
           [phase |-> "waiting", attempt |-> 1, status |-> Nothing, heard |-> Nothing]]
    /\ calls = 0
    /\ fallbacks = 0
    /\ score = "unscored"
    /\ asked = 0

-------------------------------------------------------------------------------
(* Sources: _resolve_from_operator_cache, one reference after the other.   *)

\* Mutant: what the cache holds is taken for the paper.
AcceptsAnything(pdf) == TRUE

\* _identity_match, of a cached or downloaded PDF and again by _accept_source.
Accepts(pdf) == pdf = "paper"

Found(s, pdf) ==
    source' = [source EXCEPT ![s] = IF pdf # Nothing /\ Accepts(pdf) THEN pdf ELSE Nothing]

FromCache(s) ==
    /\ source[s] = "unasked"
    /\ \/ cache[s] # Nothing /\ Found(s, cache[s])
       \/ Found(s, Nothing)                        \* the storage fails
    /\ UNCHANGED <<job, cache, fetches, claims, calls, fallbacks, score, asked>>

\* SourceFetchBudget.take. Only a miss is fetched, and only when the operator allows it.
MayFetch(s) == cache[s] = Nothing /\ job.fetching /\ fetches > 0

NotFetched(s) ==
    /\ source[s] = "unasked" /\ cache[s] = Nothing /\ ~ MayFetch(s)
    /\ Found(s, Nothing)
    /\ UNCHANGED <<job, cache, fetches, claims, calls, fallbacks, score, asked>>

\* The first of the open copies that is the paper.
FirstPaper(copies) == IF \E i \in DOMAIN copies : Accepts(copies[i]) THEN "paper" ELSE Nothing

\* A downloaded PDF is stored before it is used; if that fails it is not used.
Fetch(s) ==
    /\ source[s] = "unasked" /\ MayFetch(s)
    /\ fetches' = fetches - 1
    /\ \E n \in 0..MaxCopies : \E copies \in [1..n -> {"paper", "other"}] :
          LET pdf == FirstPaper(copies)
          IN  \/ cache' = [cache EXCEPT ![s] = pdf] /\ Found(s, pdf)
              \/ UNCHANGED cache /\ Found(s, Nothing)
    /\ UNCHANGED <<job, claims, calls, fallbacks, score, asked>>

-------------------------------------------------------------------------------
(* Claims: evaluate_claim.                                                 *)

Running == {c \in Claims : claims[c].phase \in {"ranked", "calling", "called"}}

Result(c, status, heard) ==
    claims' = [claims EXCEPT ![c].phase = "ended", ![c].status = status, ![c].heard = heard]

Turn(c) ==
    /\ claims[c].phase = "waiting"
    /\ \A s \in Sources : source[s] # "unasked"
    /\ Cardinality(Running) < Evaluations

\* A claim of unclear scope, or without a source.
Undecidable(c) ==
    /\ Turn(c)
    /\ \/ Result(c, "AMBIGUOUS_CLAIM", Nothing)
       \/ source[Cited[c]] = Nothing /\ Result(c, "SOURCE_UNAVAILABLE", Nothing)
    /\ UNCHANGED <<job, cache, source, fetches, calls, fallbacks, score, asked>>

\* Ranking the passages: the encoder fails, its reranker fails, or neither. A
\* source without passages, or only an abstract, ends the claim.
Rank(c) ==
    /\ Turn(c)
    /\ source[Cited[c]] # Nothing
    /\ fallbacks' \in IF job.encoder THEN {fallbacks, fallbacks + 1} ELSE {fallbacks}
    /\ \/ claims' = [claims EXCEPT ![c].phase = "ranked"]
       \/ Result(c, "NEEDS_MANUAL_REVIEW", Nothing)
       \/ Result(c, "INSUFFICIENT_EVIDENCE", Nothing)
    /\ UNCHANGED <<job, cache, source, fetches, calls, score, asked>>

\* A passage that is the claim word for word needs no model; without one the
\* claim is left to the teacher.
Decide(c) ==
    /\ claims[c].phase = "ranked"
    /\ \/ Result(c, "SUPPORTED", "exact")
       \/ ~ job.model /\ Result(c, "NEEDS_MANUAL_REVIEW", Nothing)
       \/ job.model /\ claims' = [claims EXCEPT ![c].phase = "calling"]
    /\ UNCHANGED <<job, cache, source, fetches, calls, fallbacks, score, asked>>

\* Mutant: only a claim's first call is looked at.
CallsOfFirst(c) == claims[c].attempt = 2 \/ calls < CallBudget

\* _BudgetedSemanticModel, under its lock.
WithinBudget(c) == calls < CallBudget

Call(c) ==
    /\ claims[c].phase = "calling"
    /\ IF WithinBudget(c)
       THEN /\ calls' = calls + 1 /\ asked' = asked + 1
            /\ claims' = [claims EXCEPT ![c].phase = "called"]
       ELSE Result(c, "NEEDS_MANUAL_REVIEW", "error") /\ UNCHANGED <<calls, asked>>
    /\ UNCHANGED <<job, cache, source, fetches, fallbacks, score>>

\* _validate_verdict, and no wish of the model for a manual review.
Takes(c, heard) == heard = "valid"

\* An answer outside the schema, the passages or the claim is asked for once more.
ModelAnswers(c) ==
    /\ claims[c].phase = "called"
    /\ \E heard \in {"valid", "manual", "invalid", "error"} :
          IF Takes(c, heard)
          THEN \E verdict \in Verdicts : Result(c, verdict, heard)
          ELSE IF heard = "invalid" /\ claims[c].attempt = 1
          THEN claims' = [claims EXCEPT ![c].phase = "calling", ![c].attempt = 2,
                                        ![c].heard = heard]
          ELSE Result(c, "NEEDS_MANUAL_REVIEW", heard)
    /\ UNCHANGED <<job, cache, source, fetches, calls, fallbacks, score, asked>>

-------------------------------------------------------------------------------
(* The score: score_semantic_results and semantic_gate.decide.             *)

Evaluable == {c \in Claims : claims[c].status \in Verdicts}

\* Mutant: an encoder that fell back does not matter.
GateWithoutEncoder == job.model /\ job.encoder /\ job.approval = "approved"

\* _quality_gate: approval is of this very configuration, whose encoder never failed.
Gate == job.model /\ job.encoder /\ job.approval = "approved" /\ fallbacks = 0

\* semantic_coverage_threshold is 1.
Covered == Evaluable = Claims

Score ==
    /\ score = "unscored"
    /\ \A c \in Claims : claims[c].phase = "ended"
    /\ score' = IF Gate /\ Covered THEN "proposed" ELSE Nothing
    /\ UNCHANGED <<job, cache, source, fetches, claims, calls, fallbacks, asked>>

Scored == score # "unscored" /\ UNCHANGED semanticVars

SemanticNext ==
    \/ \E s \in Sources : FromCache(s) \/ NotFetched(s) \/ Fetch(s)
    \/ \E c \in Claims : \/ Undecidable(c) \/ Rank(c) \/ Decide(c) \/ Call(c) \/ ModelAnswers(c)
    \/ Score \/ Scored

SemanticSpec == SemanticInit /\ [][SemanticNext]_semanticVars

-------------------------------------------------------------------------------
(* Properties.                                                             *)

\* However many claims call the model at once, and with their second attempts,
\* the calls stay within the job's budget (semantic_citation.py:2417).
CallsWithinBudget == asked <= CallBudget

\* A claim has a verdict only if its text stands in the paper its reference
\* names, or a model asked about that paper gave a valid answer: not if the
\* cache or a download held another paper, and not because answers ran out
\* (semantic_citation.py:1502).
VerdictsAreFounded ==
    \A c \in Claims : claims[c].status \in Verdicts =>
        source[Cited[c]] = "paper" /\ claims[c].heard \in {"exact", "valid"}

\* A score is proposed only for a run that decided every claim, in the approved
\* configuration throughout: one claim left out by the budget, or ranked by the
\* fallback while others used the encoder, and there is none
\* (semantic_citation.py:1702, semantic_gate.py:140).
ScoresAreWhole ==
    score = "proposed" =>
        /\ \A c \in Claims : claims[c].status \in Verdicts
        /\ fallbacks = 0 /\ job.approval = "approved"

\* The budget bounds the calls of a run, and a run it cut short proposes no score
\* (semantic_citation.py:2417, semantic_citation.py:1702).
ScoreWithinBudget == CallsWithinBudget /\ ScoresAreWhole
===============================================================================
