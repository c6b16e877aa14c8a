-------------------------- MODULE CitationResolution --------------------------
(***************************************************************************)
(* How one job looks its references up (services/citation.py,              *)
(* _resolve_references and what it calls): arXiv first, in batches; then   *)
(* Crossref, several references at a time; then OpenAlex for what is       *)
(* left. Every provider has a pacer; the job has a deadline, a breaker     *)
(* for each provider and a budget of searches.                             *)
(*                                                                         *)
(* Time passes only while every thread waits: computing takes none. A      *)
(* request ends within its timeout. What a record says is abstracted to    *)
(* whether there is one. Duplicates of a reference copy its record and     *)
(* are left out, and so are references past MAX_CROSSREF_RESOLUTIONS and   *)
(* MAX_ARXIV_RESOLUTIONS, which stay without one.                          *)
(***************************************************************************)
EXTENDS Integers, FiniteSets, Sequences, SequencesExt

CONSTANTS
    Printed,         \* references with a DOI
    Plain,           \* references without an identifier
    ArxivIds,        \* the arXiv-only references, in order
    BatchSize, MaxSingles,
    Lookups,         \* how many references may ask Crossref at once
    MaxSearches, MaxFailures,
    Interval,        \* seconds between requests, by provider
    Timeout,         \* of one request
    Deadline,        \* of the job, in seconds from its start
    RetryAfter,      \* what a provider may ask for instead of 2^attempt
    FirstSlots       \* where another job may have left a pacer

Registries == {"crossref", "openalex", "arxiv"}

\* Settings are bounded from below (_crossref_limits and its like); a reference
\* is of one kind.
ASSUME ResolutionConstants ==
    /\ Lookups \in Nat \ {0} /\ MaxFailures \in Nat \ {0}
    /\ MaxSearches \in Nat /\ BatchSize \in Nat \ {0} /\ MaxSingles \in Nat
    /\ Interval \in [Registries -> Nat] /\ Timeout \in Nat /\ Deadline \in Nat
    /\ RetryAfter \subseteq Nat /\ FirstSlots \subseteq Nat
    /\ IsFiniteSet(Printed) /\ IsFiniteSet(Plain)
    /\ ArxivIds \in Seq(ToSet(ArxivIds))
    /\ Printed \intersect Plain = {}
    /\ ToSet(ArxivIds) \intersect (Printed \union Plain) = {}
    /\ "arXiv" \notin Printed \union Plain \union ToSet(ArxivIds)

LookedUp == Printed \union Plain \union ToSet(ArxivIds)

\* The job's threads: the one that asks arXiv, and one of each other reference.
Lane == "arXiv"
Threads == LookedUp \union {Lane}

VARIABLES
    now,       \* seconds since the job began
    slot,      \* the pacers: _NEXT_REQUEST_AT and its like
    failures,  \* _JobLimits._failures
    searches,  \* _SearchBudget._remaining
    thread,    \* what each thread does
    lane,      \* _resolve_arxiv_batch
    found,     \* references with a record
    last,      \* history: when a request to each provider last began
    late,      \* history: Crossref requests begun while its breaker is open
    searched   \* history: searches begun

resolutionVars == <<now, slot, failures, searches, thread, lane, found, last, late, searched>>

Thread == [stage : {"waiting", "asking", "falling", "ended"}, provider : Registries,
           phase : {"ready", "slot", "asked", "backoff"}, attempt : 0..2,
           at : 0..(Deadline + 1)]

\* next: how many ids have been asked for; single: one at a time, the ids left.
ArxivLane == [next : Nat, single : SUBSET ToSet(ArxivIds), singles : 0..MaxSingles,
              answered : BOOLEAN, asking : SUBSET ToSet(ArxivIds)]

ResolutionTypeOK ==
    /\ now \in 0..(Deadline + 1)
    /\ slot \in [Registries -> Nat]
    /\ failures \in [Registries -> Nat]
    /\ searches \in 0..MaxSearches
    /\ thread \in [Threads -> Thread]
    /\ lane \in ArxivLane
    /\ found \subseteq LookedUp
    /\ last \in [Registries -> Int]
    /\ late \in Nat /\ searched \in Nat

Resting(stage, provider) ==
    [stage |-> stage, provider |-> provider, phase |-> "ready", attempt |-> 0, at |-> 0]

Batch(n) == {ArxivIds[i] : i \in {k \in DOMAIN ArxivIds : n < k /\ k <= n + BatchSize}}

\* A reference in the cache has its record at once; when all of arXiv's have, it
\* is not asked.
ResolutionInit ==
    /\ now = 0
    /\ slot \in [Registries -> FirstSlots]
    /\ failures = [p \in Registries |-> 0]
    /\ searches = MaxSearches
    /\ found \in {{}, Printed, ToSet(ArxivIds)}
    /\ thread = [t \in Threads |->
           Resting(IF t \in found \/ (t = Lane /\ ToSet(ArxivIds) \subseteq found) THEN "ended"
                   ELSE IF t = Lane THEN "asking" ELSE "waiting",
                   IF t = Lane THEN "arxiv"
                   ELSE IF t \in ToSet(ArxivIds) THEN "openalex" ELSE "crossref")]
    /\ lane = [next |-> 0, single |-> {}, singles |-> 0, answered |-> TRUE, asking |-> Batch(0)]
    /\ last = [p \in Registries |-> 0 - Interval[p]]
    /\ late = 0
    /\ searched = 0

-------------------------------------------------------------------------------
(* _JobLimits and the pacers.                                              *)

Remaining == Deadline - now

\* Mutant: the breaker is never open.
WithoutBreaker(p) == Remaining > 0

Allows(p) == Remaining > 0 /\ failures[p] < MaxFailures

Fits(seconds) == seconds < Remaining

Later(a, b) == IF a > b THEN a ELSE b
Sooner(a, b) == IF a < b THEN a ELSE b

\* Mutant: the slot is counted from the clock, not from the last slot.
SlotFromClock(p) == now + Interval[p]

\* The slot after the one a thread takes.
NextSlot(p) == Later(now, slot[p]) + Interval[p]

Record(p, ok) == failures' = [failures EXCEPT ![p] = IF ok THEN 0 ELSE @ + 1]

Set(t, record) == thread' = [thread EXCEPT ![t] = record]

\* Reserving a slot and waiting for it; the slot is not taken if the wait would
\* cross the deadline.
Reserve(t) ==
    LET p == thread[t].provider
        wait == Later(0, slot[p] - now)
    IN  /\ thread[t].stage \in {"asking", "falling"} /\ thread[t].phase = "ready"
        /\ Allows(p) /\ Fits(wait)
        /\ slot' = [slot EXCEPT ![p] = NextSlot(p)]
        /\ Set(t, [thread[t] EXCEPT !.phase = "slot", !.at = now + wait])
        /\ UNCHANGED <<now, failures, searches, lane, found, last, late, searched>>

\* _JobLimits.timeout.
CutTimeout == Sooner(Timeout, Remaining)

Begin(t) ==
    LET p == thread[t].provider
    IN  /\ thread[t].phase = "slot" /\ thread[t].at = now
        /\ Set(t, [thread[t] EXCEPT !.phase = "asked", !.at = now + CutTimeout])
        /\ last' = [last EXCEPT ![p] = now]
        /\ late' = IF p = "crossref" /\ failures[p] >= MaxFailures THEN late + 1 ELSE late
        /\ searched' = IF p = "openalex" /\ t \in Plain THEN searched + 1 ELSE searched
        /\ UNCHANGED <<now, slot, failures, searches, lane, found>>

\* After the lane, what arXiv did not give is looked up one after the other.
ArxivsTurn ==
    /\ thread[Lane].stage = "ended"
    /\ \A r \in ToSet(ArxivIds) : thread[r].stage # "falling"

ArxivDone == \A t \in ToSet(ArxivIds) \union {Lane} : thread[t].stage = "ended"

\* The references that hold the semaphore.
Holding == {r \in Printed \union Plain : thread[r].stage = "asking"}

CrossrefsTurn == ArxivDone /\ Cardinality(Holding) < Lookups

\* Nothing to do but wait, for a time or for another thread.
Sleeping(t) ==
    \/ thread[t].phase \in {"slot", "asked", "backoff"} /\ thread[t].at > now
    \/ thread[t].stage = "ended"
    \/ /\ thread[t].stage = "waiting"
       /\ ~ IF t \in ToSet(ArxivIds) THEN ArxivsTurn ELSE CrossrefsTurn

Asked(t, p) == thread[t].phase = "asked" /\ thread[t].provider = p

Tick ==
    /\ now <= Deadline
    /\ \A t \in Threads : Sleeping(t)
    /\ \E t \in Threads : thread[t].stage # "ended"
    /\ now' = now + 1
    /\ UNCHANGED <<slot, failures, searches, thread, lane, found, last, late, searched>>

-------------------------------------------------------------------------------
(* arXiv: _resolve_arxiv_batch and _fetch_arxiv_records.                   *)

\* The attempts of a batch, and of a single id.
Attempts == IF lane.singles > 0 THEN 1 ELSE 2

LaneEnds == Set(Lane, Resting("ended", "arxiv"))

\* The next batch; after the last, one by one the ids arXiv left out of its
\* answers, if it answered every batch and there was more than one id.
NextAsk(l, known) ==
    LET unresolved == ToSet(ArxivIds) \ known
        rest == [l EXCEPT !.single = IF l.singles = 0 THEN unresolved ELSE @]
    IN  IF l.singles = 0 /\ l.next < Len(ArxivIds)
        THEN Set(Lane, Resting("asking", "arxiv")) /\ lane' = [l EXCEPT !.asking = Batch(l.next)]
        ELSE IF l.answered /\ rest.single # {} /\ l.singles < MaxSingles /\ Len(ArxivIds) > 1
        THEN /\ Set(Lane, Resting("asking", "arxiv"))
             /\ \E i \in DOMAIN ArxivIds :
                  /\ ArxivIds[i] \in rest.single
                  /\ \A k \in 1..(i - 1) : ArxivIds[k] \notin rest.single
                  /\ lane' = [rest EXCEPT !.single = @ \ {ArxivIds[i]}, !.singles = @ + 1,
                                         !.asking = {ArxivIds[i]}]
        ELSE LaneEnds /\ lane' = [l EXCEPT !.single = {}, !.asking = {}]

\* Past this batch, without an answer: of a single id that is no matter.
Past(l, answered) ==
    IF l.singles > 0 THEN l
    ELSE [l EXCEPT !.next = @ + BatchSize, !.answered = @ /\ answered]

ArxivAnswers ==
    /\ Asked(Lane, "arxiv")
    /\ Record("arxiv", TRUE)
    /\ \E known \in SUBSET lane.asking :
          /\ found' = found \union known
          /\ NextAsk(Past(lane, TRUE), found \union known)
    /\ UNCHANGED <<now, slot, searches, last, late, searched>>

ArxivFails ==
    /\ Asked(Lane, "arxiv")
    /\ Record("arxiv", FALSE)
    /\ IF thread[Lane].attempt + 1 < Attempts
       THEN /\ Set(Lane, [Resting("asking", "arxiv") EXCEPT !.attempt = thread[Lane].attempt + 1])
            /\ UNCHANGED lane
       ELSE NextAsk(Past(lane, FALSE), found)
    /\ UNCHANGED <<now, slot, searches, found, last, late, searched>>

\* The deadline or the breaker stands in the way of the batch.
ArxivGivesUp ==
    LET wait == Later(0, slot["arxiv"] - now)
    IN  /\ thread[Lane].stage = "asking" /\ thread[Lane].phase = "ready"
        /\ ~ (Allows("arxiv") /\ Fits(wait))
        /\ NextAsk(Past(lane, FALSE), found)
        /\ UNCHANGED <<now, slot, failures, searches, found, last, late, searched>>

ArxivTurn(r) ==
    /\ r \in ToSet(ArxivIds) /\ thread[r].stage = "waiting"
    /\ ArxivsTurn
    /\ Set(r, Resting(IF r \in found THEN "ended" ELSE "falling", "openalex"))
    /\ UNCHANGED <<now, slot, failures, searches, lane, found, last, late, searched>>

-------------------------------------------------------------------------------
(* Crossref: _crossref_request, under the semaphore.                       *)

CrossrefTurn(r) ==
    /\ r \in Printed \union Plain /\ thread[r].stage = "waiting"
    /\ CrossrefsTurn
    /\ Set(r, Resting("asking", "crossref"))
    /\ UNCHANGED <<now, slot, failures, searches, lane, found, last, late, searched>>

FallBack(r) == Set(r, Resting("falling", "openalex"))

\* A record, or an answer without one (404, or nothing that matches).
CrossrefAnswers(r) ==
    /\ Asked(r, "crossref")
    /\ Record("crossref", TRUE) /\ late' = 0
    /\ \/ found' = found \union {r} /\ Set(r, Resting("ended", "crossref"))
       \/ UNCHANGED found /\ FallBack(r)
    /\ UNCHANGED <<now, slot, searches, lane, last, searched>>

\* Mutant: the retry waits without looking at the deadline.
BackoffAlways(delay) == TRUE

Backoff(delay) == Fits(delay)

\* A failed attempt: another one after a wait that ends before the deadline.
CrossrefRetries(r) ==
    /\ Asked(r, "crossref") /\ thread[r].attempt < 2
    /\ \E delay \in RetryAfter \union {2 ^ thread[r].attempt} :
          IF Backoff(delay)
          THEN Set(r, [thread[r] EXCEPT !.phase = "backoff", !.at = now + delay, !.attempt = @ + 1])
          ELSE FallBack(r)
    /\ UNCHANGED <<now, slot, failures, searches, lane, found, last, late, searched>>

Wake(r) ==
    /\ thread[r].phase = "backoff" /\ thread[r].at = now
    /\ Set(r, [thread[r] EXCEPT !.phase = "ready", !.at = 0])
    /\ UNCHANGED <<now, slot, failures, searches, lane, found, last, late, searched>>

\* The last attempt failed, or one that is not worth repeating (501); being
\* told to slow down (429) is no failure.
CrossrefFails(r) ==
    /\ Asked(r, "crossref")
    /\ \/ Record("crossref", FALSE)
       \/ thread[r].attempt = 2 /\ UNCHANGED failures
    /\ FallBack(r)
    /\ UNCHANGED <<now, slot, searches, lane, found, last, late, searched>>

CrossrefGivesUp(r) ==
    LET wait == Later(0, slot["crossref"] - now)
    IN  /\ thread[r].provider = "crossref"
        /\ thread[r].stage = "asking" /\ thread[r].phase = "ready"
        /\ ~ (Allows("crossref") /\ Fits(wait))
        /\ FallBack(r)
        /\ UNCHANGED <<now, slot, failures, searches, lane, found, last, late, searched>>

-------------------------------------------------------------------------------
(* OpenAlex: _resolve_openalex, outside the semaphore.                     *)

\* Mutant: a search that is taken is not counted.
TakeNothing(r) == searches

\* _SearchBudget.take; looking a DOI up is free.
Taken(r) == IF r \in Plain THEN searches - 1 ELSE searches

\* attempt = 1 marks a search that has been taken from the budget.
Falling(r) == thread[r].stage = "falling" /\ thread[r].phase = "ready"

Search(r) ==
    /\ r \in Plain /\ Falling(r) /\ thread[r].attempt = 0
    /\ IF Allows("openalex") /\ searches > 0
       THEN /\ searches' = Taken(r)
            /\ Set(r, [thread[r] EXCEPT !.attempt = 1])
       ELSE UNCHANGED searches /\ Set(r, Resting("ended", "openalex"))
    /\ UNCHANGED <<now, slot, failures, lane, found, last, late, searched>>

\* Fewer than three words are not searched for.
TooShort(r) ==
    /\ r \in Plain /\ Falling(r) /\ thread[r].attempt = 0
    /\ Set(r, Resting("ended", "openalex"))
    /\ UNCHANGED <<now, slot, failures, searches, lane, found, last, late, searched>>

OpenAlexReserve(r) ==
    /\ r \in Plain => thread[r].attempt = 1
    /\ Falling(r) /\ Reserve(r)

OpenAlexGivesUp(r) ==
    LET wait == Later(0, slot["openalex"] - now)
    IN  /\ Falling(r) /\ (r \in Plain => thread[r].attempt = 1)
        /\ ~ (Allows("openalex") /\ Fits(wait))
        /\ Set(r, Resting("ended", "openalex"))
        /\ UNCHANGED <<now, slot, failures, searches, lane, found, last, late, searched>>

\* A record, an answer without one, a failure, or 429, which ends all searches.
OpenAlexAnswers(r) ==
    /\ Asked(r, "openalex")
    /\ Set(r, Resting("ended", "openalex"))
    /\ \/ Record("openalex", TRUE) /\ found' \in {found, found \union {r}} /\ UNCHANGED searches
       \/ Record("openalex", FALSE) /\ UNCHANGED <<found, searches>>
       \/ searches' = 0 /\ UNCHANGED <<found, failures>>
    /\ UNCHANGED <<now, slot, lane, last, late, searched>>

\* Every reference has been looked up as far as it goes.
Resolved ==
    /\ \A t \in Threads : thread[t].stage = "ended"
    /\ UNCHANGED resolutionVars

ResolutionNext ==
    \/ Tick \/ Resolved
    \/ ArxivAnswers \/ ArxivFails \/ ArxivGivesUp
    \/ \E t \in Threads : \/ thread[t].stage = "asking" /\ Reserve(t)
                          \/ Begin(t) \/ Wake(t)
    \/ \E r \in LookedUp : \/ ArxivTurn(r) \/ CrossrefTurn(r)
                             \/ CrossrefAnswers(r) \/ CrossrefRetries(r)
                             \/ CrossrefFails(r) \/ CrossrefGivesUp(r)
                             \/ Search(r) \/ TooShort(r) \/ OpenAlexReserve(r) \/ OpenAlexGivesUp(r)
                             \/ OpenAlexAnswers(r)

ResolutionSpec == ResolutionInit /\ [][ResolutionNext]_resolutionVars

-------------------------------------------------------------------------------
(* Properties.                                                             *)

\* No request and no wait outlives the job's deadline, however retries,
\* pacers and fallbacks of its threads add up (citation.py:1595).
EndsByTheDeadline == now > Deadline => \A t \in Threads : thread[t].stage = "ended"

\* Two requests to one provider never begin closer together than its interval,
\* whichever threads make them and whether they are retries
\* (citation.py:1654, citation.py:1732, citation.py:1873).
RequestsArePaced ==
    [][\A t \in Threads :
          thread[t].phase = "slot" /\ thread'[t].phase = "asked"
              => now - last[thread[t].provider] >= Interval[thread[t].provider]]_resolutionVars

\* Once three requests in a row have failed, and until one is answered, only the
\* threads that had already passed the breaker ask Crossref again: one fewer than
\* may run at a time (citation.py:1618).
BreakerHolds == late < Lookups

\* The searches a job makes, those it has taken but not begun and those it may
\* still take are never more than its budget, although several threads take
\* from it at once (citation.py:1713).
SearchesAreBudgeted ==
    searched + searches
        + Cardinality({r \in Plain : thread[r].stage = "falling" /\ thread[r].attempt = 1
                                     /\ thread[r].phase \in {"ready", "slot"}}) <= MaxSearches

\* The threads of a lookup keep the limits they share: the deadline, the breaker,
\* the budget of searches and the pace of each provider (citation.py:1595).
LookupKeepsItsLimits ==
    [](EndsByTheDeadline /\ BreakerHolds /\ SearchesAreBudgeted) /\ RequestsArePaced
===============================================================================
