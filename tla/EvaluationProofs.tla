--------------------------- MODULE EvaluationProofs ---------------------------
(***************************************************************************)
(* Theorems about the parts of an evaluation that run several threads, for *)
(* any number of references, claims and threads and any limits:            *)
(* CitationResolution and SemanticEvaluation; and about the route to the   *)
(* model it may ask, LlmRouting.                                           *)
(*                                                                         *)
(* Of a lookup: a slot is given an interval after the last one given, so   *)
(* the slots of a provider that are taken or were begun lie apart; what    *)
(* waits has a slot, an answer or a delay before the deadline, so time     *)
(* does not pass the deadline; a thread that passed the breaker holds the  *)
(* semaphore, and so does the one whose failure opens it; a search is      *)
(* taken, pending or begun, and counted once.                              *)
(***************************************************************************)
EXTENDS CitationResolution, SemanticEvaluation, LlmRouting, FiniteSetTheorems, TLAPS

\* What a thread may be in, and whom it asks.
InOrder(t, r) ==
    /\ r.phase # "ready" =>
          /\ r.stage \in {"asking", "falling"}
          /\ now <= r.at /\ r.at <= Deadline
    /\ r.phase = "backoff" => r.provider = "crossref"
    /\ t = Lane => r.stage \in {"asking", "ended"}
    /\ r.provider = "crossref" => t \in Printed \union Plain
    /\ r.stage = "falling" => r.provider = "openalex"
    /\ t \in Printed \union Plain /\ r.stage = "asking" => r.provider = "crossref"
    /\ t \in Plain /\ r.stage = "falling" /\ r.phase = "slot" => r.attempt = 1

ThreadsInOrder == \A t \in Threads : InOrder(t, thread[t])

\* The slots of a provider, those taken and the next, are an interval apart.
HasSlot(t, p) == thread[t].phase = "slot" /\ thread[t].provider = p

SlotsAreApart ==
    \A p \in Registries :
        /\ slot[p] >= last[p] + Interval[p]
        /\ \A t \in Threads : HasSlot(t, p) =>
              /\ thread[t].at >= last[p] + Interval[p]
              /\ slot[p] >= thread[t].at + Interval[p]
              /\ \A u \in Threads \ {t} : HasSlot(u, p) =>
                    \/ thread[u].at >= thread[t].at + Interval[p]
                    \/ thread[t].at >= thread[u].at + Interval[p]

FewHold == Cardinality(Holding) <= Lookups

\* The threads that have passed the breaker and not begun their request.
Passed == {t \in Printed \union Plain : HasSlot(t, "crossref")}

BreakerCounts ==
    IF failures["crossref"] < MaxFailures THEN late = 0
    ELSE late + Cardinality(Passed) < Lookups

\* The searches taken and not begun.
Pending == {r \in Plain : thread[r].stage = "falling" /\ thread[r].attempt = 1
                          /\ thread[r].phase \in {"ready", "slot"}}

ResolutionInv ==
    /\ ResolutionTypeOK
    /\ now <= Deadline
    /\ ThreadsInOrder
    /\ SlotsAreApart
    /\ FewHold
    /\ BreakerCounts
    /\ searched + searches + Cardinality(Pending) <= MaxSearches
-------------------------------------------------------------------------------
\* The counted sets are finite.
LEMMA Counted ==
    /\ IsFiniteSet(Printed \union Plain)
    /\ IsFiniteSet(Holding) /\ Cardinality(Holding) \in Nat
    /\ IsFiniteSet(Passed) /\ Cardinality(Passed) \in Nat
    /\ IsFiniteSet(Pending) /\ Cardinality(Pending) \in Nat
<1>1. IsFiniteSet(Printed \union Plain) /\ IsFiniteSet(Plain)
  BY FS_Union, ResolutionConstants
<1>2. /\ Holding \in SUBSET (Printed \union Plain) /\ Passed \in SUBSET (Printed \union Plain)
      /\ Pending \in SUBSET Plain
  BY DEF Holding, Passed, Pending
<1>3. IsFiniteSet(Holding) /\ IsFiniteSet(Passed) /\ IsFiniteSet(Pending)
  BY <1>1, <1>2, FS_Subset
<1> QED BY <1>1, <1>3, FS_CardinalityType

LEMMA Smaller ==
  ASSUME NEW S, NEW T, IsFiniteSet(S), T \subseteq S
  PROVE  IsFiniteSet(T) /\ Cardinality(T) <= Cardinality(S)
  BY FS_Subset

LEMMA OneMore ==
  ASSUME NEW S, NEW x, IsFiniteSet(S)
  PROVE  IsFiniteSet(S \union {x}) /\ Cardinality(S \union {x}) <= Cardinality(S) + 1
<1>1. IsFiniteSet(S \union {x})
  BY FS_AddElement
<1>2. Cardinality(S \union {x}) = IF x \in S THEN Cardinality(S) ELSE Cardinality(S) + 1
  BY FS_AddElement
<1>3. Cardinality(S) \in Nat
  BY FS_CardinalityType
<1> QED BY <1>1, <1>2, <1>3

LEMMA RestingIsThread ==
  ASSUME NEW stage \in {"waiting", "asking", "falling", "ended"}, NEW provider \in Registries
  PROVE  Resting(stage, provider) \in Thread
<1>1. 0 \in 0..(Deadline + 1)
  BY ResolutionConstants
<1>2. 0 \in 0..2
  OBVIOUS
<1> QED BY <1>1, <1>2 DEF Resting, Thread

LEMMA InitResolution == ResolutionInit => ResolutionInv
<1> SUFFICES ASSUME ResolutionInit PROVE ResolutionInv
  OBVIOUS
<1> USE ResolutionConstants
<1>1. Batch(0) \subseteq ToSet(ArxivIds)
  BY DEF Batch, ToSet
<1>2. thread \in [Threads -> Thread]
  BY RestingIsThread DEF ResolutionInit, Registries
<1>3. /\ now = 0 /\ slot \in [Registries -> FirstSlots]
      /\ failures = [p \in Registries |-> 0] /\ searches = MaxSearches
      /\ found \in {{}, Printed, ToSet(ArxivIds)}
      /\ lane = [next |-> 0, single |-> {}, singles |-> 0, answered |-> TRUE,
                 asking |-> Batch(0)]
      /\ last = [p \in Registries |-> 0 - Interval[p]] /\ late = 0 /\ searched = 0
  BY DEF ResolutionInit
<1>4. lane \in ArxivLane
  BY <1>1, <1>3 DEF ArxivLane
<1>5. ResolutionTypeOK
  <2>1. now \in 0..(Deadline + 1) /\ searches \in 0..MaxSearches /\ late \in Nat /\ searched \in Nat
    BY <1>3
  <2>2. slot \in [Registries -> Nat]
    BY <1>3
  <2>4. failures \in [Registries -> Nat]
    BY <1>3
  <2>5. last \in [Registries -> Int]
    <3>1. \A p \in Registries : 0 - Interval[p] \in Int
      OBVIOUS
    <3> QED BY <1>3, <3>1
  <2>3. found \subseteq LookedUp
    BY <1>3 DEF LookedUp
  <2> QED BY <1>2, <1>4, <2>1, <2>2, <2>3, <2>4, <2>5 DEF ResolutionTypeOK
<1>6. \A t \in Threads :
        /\ thread[t].phase = "ready" /\ thread[t].attempt = 0
        /\ thread[t].stage \in {"waiting", "asking", "ended"}
        /\ thread[t].stage = "asking" => t = Lane
        /\ t = Lane => thread[t].stage \in {"asking", "ended"} /\ thread[t].provider = "arxiv"
        /\ thread[t].provider = "crossref" => t \in Printed \union Plain
  BY DEF ResolutionInit, Resting, Threads, LookedUp
<1>7. ThreadsInOrder
  BY <1>6 DEF ThreadsInOrder, InOrder, Lane
<1>8. SlotsAreApart
  <2>1. \A p \in Registries : slot[p] \in Nat /\ Interval[p] \in Nat /\ last[p] = 0 - Interval[p]
    BY <1>3
  <2>2. \A p \in Registries : slot[p] >= last[p] + Interval[p]
    BY <2>1
  <2> QED BY <2>2, <1>6 DEF SlotsAreApart, HasSlot
<1>9. Holding = {} /\ Passed = {} /\ Pending = {}
  BY <1>6 DEF Holding, Passed, Pending, HasSlot, Threads, LookedUp, Lane
<1>10. FewHold /\ BreakerCounts /\ searched + searches + Cardinality(Pending) <= MaxSearches
  BY <1>3, <1>9, FS_EmptySet DEF FewHold, BreakerCounts, Registries
<1> QED BY <1>3, <1>5, <1>7, <1>8, <1>10 DEF ResolutionInv
-------------------------------------------------------------------------------
\* A thread that changes alone and takes no slot; a search only from the budget,
\* and a turn at Crossref only if one is free.
LEMMA Moves ==
  ASSUME ResolutionInv, NEW t \in Threads, NEW new \in Thread,
         Set(t, new), InOrder(t, new), new.phase # "slot",
         t \in Printed \union Plain /\ new.stage = "asking" =>
             thread[t].stage = "asking" \/ Cardinality(Holding) < Lookups,
         new.stage = "falling" => new.attempt = 0 \/ searches' < searches,
         UNCHANGED <<now, slot, last, searched>>,
         lane' \in ArxivLane, found' \subseteq LookedUp,
         failures' \in [Registries -> Nat], late' \in Nat, searches' \in 0..searches,
         IF failures'["crossref"] < MaxFailures THEN late' = 0
         ELSE /\ late' = late
              /\ failures["crossref"] >= MaxFailures \/ Asked(t, "crossref")
  PROVE  ResolutionInv'
<1> USE DEF ResolutionInv
<1>1. \A u \in Threads : thread'[u] = IF u = t THEN new ELSE thread[u]
  BY DEF Set, ResolutionTypeOK
<1>2. ResolutionTypeOK'
  <2>1. thread' \in [Threads -> Thread]
    BY DEF Set, ResolutionTypeOK
  <2>2. searches' \in 0..MaxSearches
    BY ResolutionConstants DEF ResolutionTypeOK
  <2> QED BY <2>1, <2>2 DEF ResolutionTypeOK
<1>3. ThreadsInOrder'
  <2>1. \A u \in Threads : InOrder(u, thread'[u])
    BY <1>1 DEF ThreadsInOrder
  <2> QED BY <2>1 DEF ThreadsInOrder, InOrder
<1>4. \A u \in Threads, p \in Registries : HasSlot(u, p)' => u # t /\ HasSlot(u, p)
  BY <1>1 DEF HasSlot
<1>5. SlotsAreApart'
  <2>1. \A u \in Threads \ {t} : thread'[u] = thread[u]
    BY <1>1
  <2> QED BY <1>4, <2>1 DEF SlotsAreApart
<1>6. /\ Holding' \subseteq IF Cardinality(Holding) < Lookups THEN Holding \union {t} ELSE Holding
      /\ Passed' \subseteq Passed \ {t}
      /\ Pending' \subseteq IF searches' < searches THEN Pending \union {t} ELSE Pending
  <2>1. Printed \union Plain \subseteq Threads
    BY DEF Threads, LookedUp
  <2>2. Holding' \subseteq IF Cardinality(Holding) < Lookups THEN Holding \union {t} ELSE Holding
    BY <1>1, <2>1 DEF Holding
  <2>3. Passed' \subseteq Passed \ {t}
    BY <1>4, <2>1 DEF Passed, Registries
  <2>4. Pending' \subseteq IF searches' < searches THEN Pending \union {t} ELSE Pending
    BY <1>1, <2>1 DEF Pending
  <2> QED BY <2>2, <2>3, <2>4
<1>7. FewHold'
  <2>1. /\ IsFiniteSet(Holding \union {t})
        /\ Cardinality(Holding \union {t}) <= Cardinality(Holding) + 1
    BY Counted, OneMore
  <2>2. IsFiniteSet(Holding') /\ Cardinality(Holding') <=
            IF Cardinality(Holding) < Lookups THEN Cardinality(Holding \union {t})
            ELSE Cardinality(Holding)
    BY <1>6, <2>1, Counted, Smaller
  <2>3. Cardinality(Holding') \in Nat /\ Cardinality(Holding \union {t}) \in Nat
    BY <2>1, <2>2, FS_CardinalityType
  <2> QED BY <2>1, <2>2, <2>3, Counted, ResolutionConstants DEF FewHold
<1>8. BreakerCounts'
  <2>1. Cardinality(Passed') \in Nat /\ Cardinality(Passed') <= Cardinality(Passed)
    <3>1. IsFiniteSet(Passed') /\ Cardinality(Passed') <= Cardinality(Passed)
      BY <1>6, Counted, Smaller
    <3> QED BY <3>1, FS_CardinalityType
  <2>2. failures["crossref"] \in Nat /\ failures'["crossref"] \in Nat /\ late \in Nat
    BY DEF ResolutionTypeOK, Registries
  <2>3. CASE failures["crossref"] >= MaxFailures
    BY <2>1, <2>2, <2>3, Counted, ResolutionConstants DEF BreakerCounts
  <2>4. CASE failures["crossref"] < MaxFailures /\ failures'["crossref"] >= MaxFailures
    <3>1. Asked(t, "crossref") /\ late' = 0
      BY <2>2, <2>4, ResolutionConstants DEF BreakerCounts
    <3>2. t \in Holding
      BY <3>1 DEF ThreadsInOrder, InOrder, Asked, Holding
    <3>3. Passed' \subseteq Holding \ {t}
      BY <1>6 DEF Passed, Holding, HasSlot, ThreadsInOrder, InOrder, Threads, LookedUp
    <3>4. Cardinality(Passed') <= Cardinality(Holding) - 1
      <4>1. IsFiniteSet(Holding \ {t}) /\ Cardinality(Holding \ {t}) = Cardinality(Holding) - 1
        BY <3>2, Counted, FS_RemoveElement
      <4> QED BY <3>3, <4>1, Smaller
    <3> QED BY <3>1, <3>4, <2>1, <2>2, <2>4, Counted, ResolutionConstants DEF BreakerCounts, FewHold
  <2>5. CASE failures'["crossref"] < MaxFailures
    BY <2>5 DEF BreakerCounts
  <2> QED BY <2>2, <2>3, <2>4, <2>5, ResolutionConstants
<1>9. (searched + searches + Cardinality(Pending) <= MaxSearches)'
  <2>1. /\ IsFiniteSet(Pending \union {t})
        /\ Cardinality(Pending \union {t}) <= Cardinality(Pending) + 1
    BY Counted, OneMore
  <2>2. IsFiniteSet(Pending') /\ Cardinality(Pending') <=
            IF searches' < searches THEN Cardinality(Pending \union {t}) ELSE Cardinality(Pending)
    BY <1>6, <2>1, Counted, Smaller
  <2>3. Cardinality(Pending') \in Nat /\ Cardinality(Pending \union {t}) \in Nat
    BY <2>1, <2>2, FS_CardinalityType
  <2>4. searches \in Nat /\ searched \in Nat /\ searched' = searched /\ MaxSearches \in Nat
    BY ResolutionConstants DEF ResolutionTypeOK
  <2>5. searches' \in Nat /\ searches' <= searches
    BY <2>4
  <2>6. Cardinality(Pending) \in Nat /\ searched + searches + Cardinality(Pending) <= MaxSearches
    BY Counted
  <2>7. CASE searches' < searches
    BY <2>1, <2>2, <2>3, <2>4, <2>5, <2>6, <2>7
  <2>8. CASE ~ (searches' < searches)
    BY <2>2, <2>3, <2>4, <2>5, <2>6, <2>8
  <2> QED BY <2>7, <2>8
<1> QED BY <1>2, <1>3, <1>5, <1>7, <1>8, <1>9

\* A thread that comes to rest.
LEMMA Rests ==
  ASSUME ResolutionInv, NEW t \in Threads,
         NEW stage \in {"waiting", "asking", "falling", "ended"}, NEW provider \in Registries,
         Set(t, Resting(stage, provider)),
         t = Lane => stage \in {"asking", "ended"} /\ provider = "arxiv",
         t # Lane /\ stage = "asking" =>
             provider = "crossref" /\ Cardinality(Holding) < Lookups,
         provider = "crossref" => t \in Printed \union Plain,
         stage = "falling" => provider = "openalex",
         UNCHANGED <<now, slot, last, searched>>,
         lane' \in ArxivLane, found' \subseteq LookedUp,
         failures' \in [Registries -> Nat], late' \in Nat, searches' \in 0..searches,
         IF failures'["crossref"] < MaxFailures THEN late' = 0
         ELSE /\ late' = late
              /\ failures["crossref"] >= MaxFailures \/ Asked(t, "crossref")
  PROVE  ResolutionInv'
<1> DEFINE new == Resting(stage, provider)
<1>1. new \in Thread
  BY RestingIsThread
<1>2. new.phase = "ready" /\ new.attempt = 0 /\ new.stage = stage /\ new.provider = provider
  BY DEF Resting
<1>3. Lane \notin Printed \union Plain
  BY ResolutionConstants DEF Lane
<1>4. Set(t, new)
  OBVIOUS
<1> HIDE DEF new
<1>5. InOrder(t, new)
  BY <1>2, <1>3 DEF InOrder
<1>6. t \in Printed \union Plain /\ new.stage = "asking" => Cardinality(Holding) < Lookups
  BY <1>2, <1>3
<1> QED BY <1>1, <1>2, <1>4, <1>5, <1>6, Moves

\* What an invariant state says of the types, for the leaves below.
LEMMA Facts ==
  ASSUME ResolutionInv
  PROVE  /\ lane \in ArxivLane /\ found \subseteq LookedUp /\ late \in Nat
         /\ failures \in [Registries -> Nat] /\ searches \in 0..searches /\ searches \in Nat
         /\ Lane \in Threads /\ LookedUp \subseteq Threads /\ Lane \notin LookedUp
         /\ IF failures["crossref"] < MaxFailures THEN late = 0
            ELSE late = late /\ failures["crossref"] >= MaxFailures
         /\ now \in Nat /\ Deadline \in Nat /\ now <= Deadline
<1> USE ResolutionConstants
<1>1. /\ lane \in ArxivLane /\ found \subseteq LookedUp /\ late \in Nat
      /\ failures \in [Registries -> Nat] /\ searches \in 0..MaxSearches /\ now \in 0..(Deadline + 1)
      /\ now <= Deadline
  BY DEF ResolutionInv, ResolutionTypeOK
<1>2. failures["crossref"] \in Nat
  BY <1>1 DEF Registries
<1>3. Lane \in Threads /\ LookedUp \subseteq Threads /\ Lane \notin LookedUp
  BY DEF Threads, LookedUp, Lane
<1>4. failures["crossref"] < MaxFailures => late = 0
  BY DEF ResolutionInv, BreakerCounts
<1> QED BY <1>1, <1>2, <1>3, <1>4

\* A failure or an answer of another provider says nothing of Crossref.
LEMMA OthersFail ==
  ASSUME ResolutionInv, NEW p \in {"openalex", "arxiv"}, NEW ok \in BOOLEAN, Record(p, ok)
  PROVE  failures' \in [Registries -> Nat] /\ failures'["crossref"] = failures["crossref"]
<1>1. \A n \in Nat : n + 1 \in Nat
  OBVIOUS
<1>2. failures \in [Registries -> Nat] /\ p \in Registries /\ p # "crossref"
  BY Facts DEF Registries
<1> QED BY <1>1, <1>2 DEF Record, Registries

\* The lane asks for the next ids, or ends.
LEMMA NextAskKeeps ==
  ASSUME NEW l \in ArxivLane, NEW known, NextAsk(l, known)
  PROVE  /\ lane' \in ArxivLane
         /\ \E stage \in {"asking", "ended"} : Set(Lane, Resting(stage, "arxiv"))
<1> USE ResolutionConstants
<1> DEFINE rest == [l EXCEPT !.single = IF l.singles = 0 THEN ToSet(ArxivIds) \ known ELSE @]
<1>1. \A n : Batch(n) \subseteq ToSet(ArxivIds)
  BY DEF Batch, ToSet
<1>2. rest \in ArxivLane
  BY DEF ArxivLane
<1>3. \A q \in ArxivLane, s \in SUBSET ToSet(ArxivIds) :
        [q EXCEPT !.asking = s] \in ArxivLane /\ [q EXCEPT !.single = s] \in ArxivLane
  BY DEF ArxivLane
<1>4. CASE l.singles = 0 /\ l.next < Len(ArxivIds)
  BY <1>1, <1>3, <1>4 DEF NextAsk
<1>5. CASE /\ ~ (l.singles = 0 /\ l.next < Len(ArxivIds))
           /\ l.answered /\ rest.single # {} /\ l.singles < MaxSingles /\ Len(ArxivIds) > 1
  <2>1. PICK i \in DOMAIN ArxivIds :
           lane' = [rest EXCEPT !.single = @ \ {ArxivIds[i]}, !.singles = @ + 1,
                                !.asking = {ArxivIds[i]}]
    BY <1>5 DEF NextAsk
  <2>2. {ArxivIds[i]} \in SUBSET ToSet(ArxivIds)
    BY DEF ToSet
  <2>3. rest.singles + 1 \in 0..MaxSingles
    BY <1>5 DEF ArxivLane
  <2>4. rest.single \ {ArxivIds[i]} \in SUBSET ToSet(ArxivIds)
    BY <1>2 DEF ArxivLane
  <2>5. \A q \in ArxivLane, n \in 0..MaxSingles : [q EXCEPT !.singles = n] \in ArxivLane
    BY DEF ArxivLane
  <2>6. lane' = [[[rest EXCEPT !.single = rest.single \ {ArxivIds[i]}]
                    EXCEPT !.singles = rest.singles + 1] EXCEPT !.asking = {ArxivIds[i]}]
    BY <2>1
  <2>7. Set(Lane, Resting("asking", "arxiv"))
    BY <1>5 DEF NextAsk
  <2> HIDE DEF rest
  <2> QED BY <1>2, <1>3, <2>2, <2>3, <2>4, <2>5, <2>6, <2>7
<1>6. CASE /\ ~ (l.singles = 0 /\ l.next < Len(ArxivIds))
           /\ ~ (l.answered /\ rest.single # {} /\ l.singles < MaxSingles /\ Len(ArxivIds) > 1)
  <2>1. Set(Lane, Resting("ended", "arxiv")) /\ lane' = [l EXCEPT !.single = {}, !.asking = {}]
    BY <1>6 DEF NextAsk, LaneEnds
  <2>2. lane' = [[l EXCEPT !.single = {}] EXCEPT !.asking = {}]
    BY <2>1
  <2>3. [l EXCEPT !.single = {}] \in ArxivLane
    BY <1>3
  <2>4. lane' \in ArxivLane
    BY <1>3, <2>2, <2>3
  <2> QED BY <2>1, <2>4
<1> QED BY <1>4, <1>5, <1>6

LEMMA PastIsLane ==
  ASSUME NEW l \in ArxivLane, NEW answered \in BOOLEAN
  PROVE  Past(l, answered) \in ArxivLane
<1>1. l.next + BatchSize \in Nat /\ (l.answered /\ answered) \in BOOLEAN
  BY ResolutionConstants DEF ArxivLane
<1>2. \A q \in ArxivLane, n \in Nat : [q EXCEPT !.next = n] \in ArxivLane
  BY DEF ArxivLane
<1>3. \A q \in ArxivLane, b \in BOOLEAN : [q EXCEPT !.answered = b] \in ArxivLane
  BY DEF ArxivLane
<1> DEFINE a == l.answered /\ answered
<1>4. [l EXCEPT !.next = @ + BatchSize, !.answered = @ /\ answered]
        = [[l EXCEPT !.next = l.next + BatchSize] EXCEPT !.answered = a]
  OBVIOUS
<1> HIDE DEF a
<1> QED BY <1>1, <1>2, <1>3, <1>4 DEF Past, a

LEMMA LaneStep ==
  ASSUME ResolutionInv, ArxivAnswers \/ ArxivFails \/ ArxivGivesUp
  PROVE  ResolutionInv'
<1>1. /\ lane' \in ArxivLane /\ found' \subseteq LookedUp
      /\ \/ \E stage \in {"asking", "ended"} : Set(Lane, Resting(stage, "arxiv"))
         \/ thread[Lane].attempt + 1 < Attempts /\ UNCHANGED <<lane, found>>
             /\ Set(Lane, [Resting("asking", "arxiv") EXCEPT !.attempt = thread[Lane].attempt + 1])
  <2>1. CASE ArxivAnswers
    <3>1. PICK known \in SUBSET lane.asking :
             found' = found \union known /\ NextAsk(Past(lane, TRUE), found \union known)
      BY <2>1 DEF ArxivAnswers
    <3>2. known \subseteq LookedUp
      BY Facts DEF ArxivLane, LookedUp
    <3> QED BY <3>1, <3>2, Facts, PastIsLane, NextAskKeeps
  <2>2. CASE ArxivFails
    BY <2>2, Facts, PastIsLane, NextAskKeeps DEF ArxivFails
  <2>3. CASE ArxivGivesUp
    BY <2>3, Facts, PastIsLane, NextAskKeeps DEF ArxivGivesUp
  <2> QED BY <2>1, <2>2, <2>3
<1>2. failures' \in [Registries -> Nat] /\ failures'["crossref"] = failures["crossref"]
  BY Facts, OthersFail DEF ArxivAnswers, ArxivFails, ArxivGivesUp
<1>3. UNCHANGED <<now, slot, searches, last, late, searched>>
  BY DEF ArxivAnswers, ArxivFails, ArxivGivesUp
<1>4. CASE \E stage \in {"asking", "ended"} : Set(Lane, Resting(stage, "arxiv"))
  BY <1>1, <1>2, <1>3, <1>4, Facts, Rests DEF Registries
<1>5. CASE /\ thread[Lane].attempt + 1 < Attempts /\ UNCHANGED <<lane, found>>
           /\ Set(Lane, [Resting("asking", "arxiv") EXCEPT !.attempt = thread[Lane].attempt + 1])
  <2> DEFINE old == Resting("asking", "arxiv")
             new == [old EXCEPT !.attempt = thread[Lane].attempt + 1]
  <2>1. thread[Lane].attempt + 1 \in 0..2
    <3>1. thread[Lane] \in Thread
      BY Facts DEF ResolutionInv, ResolutionTypeOK
    <3>2. thread[Lane].attempt \in 0..2
      BY <3>1 DEF Thread
    <3>3. Attempts \in {1, 2}
      BY DEF Attempts
    <3> QED BY <1>5, <3>2, <3>3
  <2>2. old \in Thread
    BY RestingIsThread DEF Registries
  <2>3. \A q \in Thread, n \in 0..2 : [q EXCEPT !.attempt = n] \in Thread
    BY DEF Thread
  <2>4. new.phase = "ready" /\ new.stage = "asking" /\ new.provider = "arxiv"
    BY DEF Resting
  <2>5. Set(Lane, new)
    BY <1>5
  <2> HIDE DEF old
  <2>6. new \in Thread
    BY <2>1, <2>2, <2>3
  <2> HIDE DEF new
  <2>7. InOrder(Lane, new) /\ Lane \notin Printed \union Plain
    BY <2>4, ResolutionConstants DEF InOrder, Lane
  <2> QED BY <1>1, <1>2, <1>3, <2>4, <2>5, <2>6, <2>7, Facts, Moves
<1> QED BY <1>1, <1>4, <1>5

\* The turns and the ends of a lookup.
LEMMA RestStep ==
  ASSUME ResolutionInv, NEW r \in LookedUp,
         \/ ArxivTurn(r) \/ CrossrefTurn(r) \/ CrossrefAnswers(r) \/ CrossrefFails(r) \/ CrossrefGivesUp(r)
         \/ TooShort(r) \/ OpenAlexGivesUp(r) \/ OpenAlexAnswers(r)
  PROVE  ResolutionInv'
<1>1. r \in Threads /\ r # Lane
  BY Facts
<1>2. failures["crossref"] \in Nat /\ MaxFailures \in Nat \ {0}
  BY Facts, ResolutionConstants DEF Registries
<1>3. CASE ArxivTurn(r)
  BY <1>1, <1>3, Facts, Rests DEF ArxivTurn, Registries
<1>9. CASE CrossrefTurn(r)
  <2>1. r \in Printed \union Plain /\ Cardinality(Holding) < Lookups
    BY <1>9 DEF CrossrefTurn, CrossrefsTurn
  <2> QED BY <1>1, <1>9, <2>1, Facts, Rests DEF CrossrefTurn, Registries
<1>4. CASE CrossrefAnswers(r)
  <2>1. r \in Printed \union Plain
    BY <1>1, <1>4 DEF CrossrefAnswers, Asked, ResolutionInv, ThreadsInOrder, InOrder
  <2>2. failures' \in [Registries -> Nat] /\ failures'["crossref"] = 0 /\ late' = 0
    BY <1>4, Facts DEF CrossrefAnswers, Record, Registries
  <2>3. found' \subseteq LookedUp
    BY <1>4, Facts DEF CrossrefAnswers
  <2>4. UNCHANGED <<now, slot, searches, lane, last, searched>>
    BY <1>4 DEF CrossrefAnswers
  <2>5. \/ Set(r, Resting("ended", "crossref")) \/ Set(r, Resting("falling", "openalex"))
    BY <1>4 DEF CrossrefAnswers, FallBack
  <2> QED BY <1>1, <1>2, <2>1, <2>2, <2>3, <2>4, <2>5, Facts, Rests DEF Registries
<1>5. CASE CrossrefFails(r)
  <2>1. failures' \in [Registries -> Nat] /\ failures'["crossref"] >= failures["crossref"]
    <3>1. \A n \in Nat : n + 1 \in Nat /\ n + 1 >= n /\ n >= n
      OBVIOUS
    <3> QED BY <1>2, <1>5, <3>1, Facts DEF CrossrefFails, Record, Registries
  <2>2. Asked(r, "crossref") /\ Set(r, Resting("falling", "openalex"))
        /\ UNCHANGED <<now, slot, searches, lane, found, last, late, searched>>
    BY <1>5 DEF CrossrefFails, FallBack
  <2>3. failures'["crossref"] \in Nat
    BY <2>1 DEF Registries
  <2>4. failures'["crossref"] < MaxFailures => late' = 0
    BY <1>2, <2>1, <2>2, <2>3, Facts
  <2> QED BY <1>1, <1>2, <2>1, <2>2, <2>4, Facts, Rests DEF Registries
<1>6. CASE CrossrefGivesUp(r)
  BY <1>1, <1>6, Facts, Rests DEF CrossrefGivesUp, FallBack, Registries
<1>7. CASE TooShort(r) \/ OpenAlexGivesUp(r)
  BY <1>1, <1>7, Facts, Rests DEF TooShort, OpenAlexGivesUp, Registries
<1>8. CASE OpenAlexAnswers(r)
  <2>1. failures' \in [Registries -> Nat] /\ failures'["crossref"] = failures["crossref"]
    BY <1>8, Facts, OthersFail DEF OpenAlexAnswers
  <2>2. /\ Set(r, Resting("ended", "openalex")) /\ searches' \in {0, searches}
        /\ found' \in {found, found \union {r}}
        /\ UNCHANGED <<now, slot, lane, last, late, searched>>
    BY <1>8 DEF OpenAlexAnswers
  <2>3. searches' \in 0..searches
    BY <2>2, Facts
  <2>4. found' \subseteq LookedUp
    BY <2>2, Facts
  <2> QED BY <1>1, <1>2, <2>1, <2>2, <2>3, <2>4, Facts, Rests DEF Registries
<1> QED BY <1>3, <1>4, <1>5, <1>6, <1>7, <1>8, <1>9

\* A failed request of Crossref is repeated after a wait that ends in time.
LEMMA RetryStep ==
  ASSUME ResolutionInv, NEW r \in LookedUp, CrossrefRetries(r)
  PROVE  ResolutionInv'
<1>1. r \in Threads /\ r # Lane /\ thread[r] \in Thread /\ InOrder(r, thread[r])
  BY Facts DEF ResolutionInv, ResolutionTypeOK, ThreadsInOrder
<1>2. /\ thread[r].phase = "asked" /\ thread[r].provider = "crossref"
      /\ thread[r].stage = "asking" /\ r \in Printed \union Plain
      /\ thread[r].attempt \in 0..1
  BY <1>1 DEF CrossrefRetries, Asked, InOrder, Thread
<1>3. UNCHANGED <<now, slot, failures, searches, lane, found, last, late, searched>>
  BY DEF CrossrefRetries
<1>4. PICK delay \in RetryAfter \union {2 ^ thread[r].attempt} :
         IF Backoff(delay)
         THEN Set(r, [thread[r] EXCEPT !.phase = "backoff", !.at = now + delay, !.attempt = @ + 1])
         ELSE FallBack(r)
  BY DEF CrossrefRetries
<1>5. delay \in Nat
  <2>1. 2 ^ 0 \in Nat /\ 2 ^ 1 \in Nat
    OBVIOUS
  <2>2. thread[r].attempt = 0 \/ thread[r].attempt = 1
    BY <1>2
  <2> QED BY <1>4, <2>1, <2>2, ResolutionConstants
<1>6. CASE Backoff(delay)
  <2> DEFINE n == thread[r].attempt + 1
             at == now + delay
             new == [thread[r] EXCEPT !.phase = "backoff", !.at = at, !.attempt = n]
  <2>1. n \in 0..2
    BY <1>2
  <2>2. at \in 0..(Deadline + 1) /\ now <= at /\ at <= Deadline
    BY <1>5, <1>6, Facts DEF Backoff, Fits, Remaining
  <2>3. Set(r, new)
    BY <1>4, <1>6
  <2>4. /\ new.phase = "backoff" /\ new.at = at /\ new.stage = "asking"
        /\ new.provider = "crossref"
    BY <1>1, <1>2 DEF Thread
  <2>5. new = [[[thread[r] EXCEPT !.phase = "backoff"] EXCEPT !.at = at] EXCEPT !.attempt = n]
    OBVIOUS
  <2> HIDE DEF n, at
  <2>6. \A q \in Thread : [q EXCEPT !.phase = "backoff"] \in Thread
    BY DEF Thread
  <2>7. \A q \in Thread : [q EXCEPT !.at = at] \in Thread
    BY <2>2 DEF Thread
  <2>8. \A q \in Thread : [q EXCEPT !.attempt = n] \in Thread
    BY <2>1 DEF Thread
  <2> HIDE DEF new
  <2>9. new \in Thread
    BY <1>1, <2>5, <2>6, <2>7, <2>8
  <2>10. InOrder(r, new)
    BY <1>1, <1>2, <2>2, <2>4 DEF InOrder
  <2> QED BY <1>1, <1>2, <1>3, <2>3, <2>4, <2>9, <2>10, Facts, Moves
<1>7. CASE ~ Backoff(delay)
  BY <1>1, <1>3, <1>4, <1>7, Facts, Rests DEF FallBack, Registries
<1> QED BY <1>6, <1>7

LEMMA WakeStep ==
  ASSUME ResolutionInv, NEW t \in Threads, Wake(t)
  PROVE  ResolutionInv'
<1> DEFINE new == [thread[t] EXCEPT !.phase = "ready", !.at = 0]
<1>1. thread[t] \in Thread /\ InOrder(t, thread[t])
  BY DEF ResolutionInv, ResolutionTypeOK, ThreadsInOrder
<1>2. /\ thread[t].phase = "backoff" /\ Set(t, new)
      /\ UNCHANGED <<now, slot, failures, searches, lane, found, last, late, searched>>
  BY DEF Wake
<1>3. thread[t].provider = "crossref" /\ thread[t].stage = "asking"
  BY <1>1, <1>2 DEF InOrder
<1>4. new.phase = "ready" /\ new.stage = "asking" /\ new.provider = "crossref"
  BY <1>1, <1>3 DEF Thread
<1>5. 0 \in 0..(Deadline + 1)
  BY Facts
<1>6. \A q \in Thread : [q EXCEPT !.phase = "ready"] \in Thread
  BY DEF Thread
<1>7. \A q \in Thread : [q EXCEPT !.at = 0] \in Thread
  BY <1>5 DEF Thread
<1>8. new = [[thread[t] EXCEPT !.phase = "ready"] EXCEPT !.at = 0]
  OBVIOUS
<1> HIDE DEF new
<1>9. new \in Thread
  BY <1>1, <1>6, <1>7, <1>8
<1>10. InOrder(t, new)
  BY <1>1, <1>2, <1>3, <1>4 DEF InOrder
<1> QED BY <1>2, <1>3, <1>4, <1>9, <1>10, Facts, Moves

\* A search is taken from the budget in one step.
LEMMA SearchStep ==
  ASSUME ResolutionInv, NEW r \in LookedUp, Search(r)
  PROVE  ResolutionInv'
<1>1. r \in Threads /\ r # Lane /\ thread[r] \in Thread /\ InOrder(r, thread[r])
  BY Facts DEF ResolutionInv, ResolutionTypeOK, ThreadsInOrder
<1>2. /\ r \in Plain /\ thread[r].stage = "falling" /\ thread[r].phase = "ready"
      /\ UNCHANGED <<now, slot, failures, lane, found, last, late, searched>>
  BY DEF Search, Falling
<1>3. CASE Allows("openalex") /\ searches > 0
  <2> DEFINE new == [thread[r] EXCEPT !.attempt = 1]
  <2>1. Set(r, new) /\ searches' = searches - 1
    BY <1>2, <1>3 DEF Search, Taken
  <2>2. new \in Thread /\ new.stage = "falling" /\ new.phase = "ready"
        /\ new.provider = thread[r].provider
    BY <1>1, <1>2 DEF Thread
  <2>3. searches' \in 0..searches /\ searches' < searches
    BY <1>3, <2>1, Facts
  <2> HIDE DEF new
  <2>4. InOrder(r, new)
    BY <1>1, <1>2, <2>2 DEF InOrder
  <2> QED BY <1>1, <1>2, <2>1, <2>2, <2>3, <2>4, Facts, Moves
<1>4. CASE ~ (Allows("openalex") /\ searches > 0)
  BY <1>1, <1>2, <1>4, Facts, Rests DEF Search, Registries
<1> QED BY <1>3, <1>4

\* A slot is an interval after all that were given, and before the deadline.
LEMMA ReserveStep ==
  ASSUME ResolutionInv, NEW t \in Threads,
         \/ thread[t].stage = "asking"
         \/ thread[t].stage = "falling" /\ (t \in Plain => thread[t].attempt = 1),
         Reserve(t)
  PROVE  ResolutionInv'
<1> DEFINE p == thread[t].provider
           wait == Later(0, slot[p] - now)
           at == now + wait
           new == [thread[t] EXCEPT !.phase = "slot", !.at = at]
<1>1. /\ thread[t] \in Thread /\ InOrder(t, thread[t]) /\ p \in Registries
      /\ slot \in [Registries -> Nat] /\ slot[p] \in Nat
      /\ last \in [Registries -> Int] /\ last[p] \in Int
      /\ Interval[p] \in Nat
  <2>1. thread[t] \in Thread /\ InOrder(t, thread[t])
    BY DEF ResolutionInv, ResolutionTypeOK, ThreadsInOrder
  <2>2. p \in Registries
    BY <2>1 DEF Thread
  <2>3. slot \in [Registries -> Nat] /\ last \in [Registries -> Int]
    BY DEF ResolutionInv, ResolutionTypeOK
  <2> QED BY <2>1, <2>2, <2>3, ResolutionConstants
<1>2. /\ thread[t].phase = "ready" /\ Allows(p) /\ Fits(wait)
      /\ slot' = [slot EXCEPT ![p] = NextSlot(p)] /\ Set(t, new)
      /\ UNCHANGED <<now, failures, searches, lane, found, last, late, searched>>
  BY DEF Reserve
<1>3. /\ at \in 0..(Deadline + 1) /\ now <= at /\ at <= Deadline /\ slot[p] <= at
      /\ NextSlot(p) \in Nat /\ NextSlot(p) = at + Interval[p]
  BY <1>1, <1>2, Facts DEF Later, Fits, Remaining, NextSlot
<1>4. /\ new.phase = "slot" /\ new.at = at /\ new.provider = p
      /\ new.stage = thread[t].stage /\ new.attempt = thread[t].attempt
  BY <1>1 DEF Thread
<1>5. new = [[thread[t] EXCEPT !.phase = "slot"] EXCEPT !.at = at]
  OBVIOUS
<1> HIDE DEF p, wait, at
<1>6. \A q \in Thread : [q EXCEPT !.phase = "slot"] \in Thread
  BY DEF Thread
<1>7. \A q \in Thread : [q EXCEPT !.at = at] \in Thread
  BY <1>3 DEF Thread
<1> HIDE DEF new
<1>8. new \in Thread
  BY <1>1, <1>5, <1>6, <1>7
<1>9. \A u \in Threads : thread'[u] = IF u = t THEN new ELSE thread[u]
  BY <1>2 DEF Set, ResolutionInv, ResolutionTypeOK
<1>10. ResolutionTypeOK'
  <2>1. thread' \in [Threads -> Thread]
    BY <1>2, <1>8 DEF Set, ResolutionInv, ResolutionTypeOK
  <2>2. slot' \in [Registries -> Nat]
    BY <1>1, <1>2, <1>3
  <2> QED BY <1>2, <2>1, <2>2 DEF ResolutionInv, ResolutionTypeOK
<1>11. ThreadsInOrder'
  <2>1. thread[t].stage \in {"asking", "falling"}
    OBVIOUS
  <2>3. InOrder(t, new)
    BY <1>1, <1>2, <1>3, <1>4, <2>1 DEF InOrder, p
  <2>4. \A u \in Threads : InOrder(u, thread'[u])
    BY <1>9, <2>3 DEF ResolutionInv, ThreadsInOrder
  <2> QED BY <1>2, <2>4 DEF ThreadsInOrder, InOrder
<1>12. SlotsAreApart'
  <2>1. \A q \in Registries : slot'[q] = IF q = p THEN at + Interval[p] ELSE slot[q]
    BY <1>1, <1>2, <1>3
  <2>2. \A u \in Threads, q \in Registries :
           HasSlot(u, q)' => IF u = t THEN q = p ELSE HasSlot(u, q)
    BY <1>4, <1>9 DEF HasSlot
  <2>3. \A u \in Threads : thread'[u].at = IF u = t THEN at ELSE thread[u].at
    BY <1>4, <1>9
  <2>4. \A u \in Threads : thread[u].at \in Int
    BY DEF ResolutionInv, ResolutionTypeOK, Thread
  <2>5. /\ slot[p] >= last[p] + Interval[p]
        /\ \A u \in Threads : HasSlot(u, p) => slot[p] >= thread[u].at + Interval[p]
    BY <1>1 DEF ResolutionInv, SlotsAreApart
  <2>6. /\ at \in Int /\ at >= last[p] + Interval[p] /\ at + Interval[p] >= last[p] + Interval[p]
        /\ \A u \in Threads : HasSlot(u, p) =>
              at >= thread[u].at + Interval[p] /\ at + Interval[p] >= thread[u].at + Interval[p]
    BY <1>1, <1>3, <2>4, <2>5
  <2>7. \A q \in Registries : slot'[q] >= last'[q] + Interval[q]
    BY <1>2, <2>1, <2>6 DEF ResolutionInv, SlotsAreApart
  <2>8. ASSUME NEW q \in Registries, NEW u \in Threads, HasSlot(u, q)'
        PROVE  thread'[u].at >= last'[q] + Interval[q] /\ slot'[q] >= thread'[u].at + Interval[q]
    <3>1. CASE u = t
      BY <1>1, <1>2, <2>1, <2>2, <2>3, <2>6, <2>8, <3>1
    <3>2. CASE u # t
      BY <1>2, <2>1, <2>2, <2>3, <2>6, <2>8, <3>2 DEF ResolutionInv, SlotsAreApart
    <3> QED BY <3>1, <3>2
  <2>9. ASSUME NEW q \in Registries, NEW u \in Threads, NEW v \in Threads \ {u},
               HasSlot(u, q)', HasSlot(v, q)'
        PROVE  \/ thread'[v].at >= thread'[u].at + Interval[q]
               \/ thread'[u].at >= thread'[v].at + Interval[q]
    <3>1. CASE u = t \/ v = t
      BY <2>2, <2>3, <2>6, <2>9, <3>1
    <3>2. CASE u # t /\ v # t
      BY <2>2, <2>3, <2>9, <3>2 DEF ResolutionInv, SlotsAreApart
    <3> QED BY <3>1, <3>2
  <2> QED BY <2>7, <2>8, <2>9 DEF SlotsAreApart
<1>13. Holding' = Holding /\ Pending' \subseteq Pending
  <2>1. Printed \union Plain \subseteq Threads
    BY DEF Threads, LookedUp
  <2>2. Holding' = Holding
    BY <1>4, <1>9, <2>1 DEF Holding
  <2>3. Pending' \subseteq Pending
    BY <1>2, <1>4, <1>9, <2>1 DEF Pending
  <2> QED BY <2>2, <2>3
<1>14. FewHold'
  BY <1>13 DEF ResolutionInv, FewHold
<1>15. BreakerCounts'
  <2>1. CASE p = "crossref"
    BY <1>2, <2>1 DEF Allows, ResolutionInv, BreakerCounts
  <2>2. CASE p # "crossref"
    <3>1. Passed' \subseteq Passed
      BY <1>4, <1>9, <2>2 DEF Passed, HasSlot, Threads, LookedUp
    <3>2. IsFiniteSet(Passed') /\ Cardinality(Passed') <= Cardinality(Passed)
      BY <3>1, Counted, Smaller
    <3>3. Cardinality(Passed') \in Nat
      BY <3>2, FS_CardinalityType
    <3> QED BY <1>2, <3>2, <3>3, Counted, Facts, ResolutionConstants DEF ResolutionInv, BreakerCounts
  <2> QED BY <2>1, <2>2
<1>16. (searched + searches + Cardinality(Pending) <= MaxSearches)'
  <2>1. IsFiniteSet(Pending') /\ Cardinality(Pending') <= Cardinality(Pending)
    BY <1>13, Counted, Smaller
  <2>2. Cardinality(Pending') \in Nat
    BY <2>1, FS_CardinalityType
  <2>3. searched \in Nat /\ searches \in Nat
    BY Facts DEF ResolutionInv, ResolutionTypeOK
  <2> QED BY <1>2, <2>1, <2>2, <2>3, Counted, ResolutionConstants DEF ResolutionInv
<1>17. (now <= Deadline)'
  BY <1>2, Facts
<1> QED BY <1>10, <1>11, <1>12, <1>14, <1>15, <1>16, <1>17 DEF ResolutionInv

\* A request begins at its slot.
LEMMA BeginStep ==
  ASSUME ResolutionInv, NEW t \in Threads, Begin(t)
  PROVE  ResolutionInv'
<1> DEFINE p == thread[t].provider
           at == now + CutTimeout
           new == [thread[t] EXCEPT !.phase = "asked", !.at = at]
<1>1. /\ thread[t] \in Thread /\ InOrder(t, thread[t]) /\ p \in Registries
      /\ last \in [Registries -> Int] /\ Interval[p] \in Nat /\ HasSlot(t, p)
  <2>1. thread[t] \in Thread /\ InOrder(t, thread[t])
    BY DEF ResolutionInv, ResolutionTypeOK, ThreadsInOrder
  <2>2. p \in Registries
    BY <2>1 DEF Thread
  <2>3. last \in [Registries -> Int]
    BY DEF ResolutionInv, ResolutionTypeOK
  <2> QED BY <2>1, <2>2, <2>3, ResolutionConstants DEF Begin, HasSlot
<1>2. /\ thread[t].phase = "slot" /\ thread[t].at = now /\ Set(t, new)
      /\ last' = [last EXCEPT ![p] = now]
      /\ late' = IF p = "crossref" /\ failures[p] >= MaxFailures THEN late + 1 ELSE late
      /\ searched' = IF p = "openalex" /\ t \in Plain THEN searched + 1 ELSE searched
      /\ UNCHANGED <<now, slot, failures, searches, lane, found>>
  BY DEF Begin
<1>3. at \in 0..(Deadline + 1) /\ now <= at /\ at <= Deadline
  BY Facts, ResolutionConstants DEF CutTimeout, Sooner, Remaining
<1>4. /\ new.phase = "asked" /\ new.at = at /\ new.provider = p
      /\ new.stage = thread[t].stage /\ new.attempt = thread[t].attempt
  BY <1>1 DEF Thread
<1>5. new = [[thread[t] EXCEPT !.phase = "asked"] EXCEPT !.at = at]
  OBVIOUS
<1> HIDE DEF p, at
<1>6. \A q \in Thread : [q EXCEPT !.phase = "asked"] \in Thread
  BY DEF Thread
<1>7. \A q \in Thread : [q EXCEPT !.at = at] \in Thread
  BY <1>3 DEF Thread
<1> HIDE DEF new
<1>8. new \in Thread
  BY <1>1, <1>5, <1>6, <1>7
<1>9. \A u \in Threads : thread'[u] = IF u = t THEN new ELSE thread[u]
  BY <1>2 DEF Set, ResolutionInv, ResolutionTypeOK
<1>10. late \in Nat /\ late' \in Nat /\ searched \in Nat /\ searched' \in Nat
  BY <1>2 DEF ResolutionInv, ResolutionTypeOK
<1>11. ResolutionTypeOK'
  <2>1. thread' \in [Threads -> Thread]
    BY <1>2, <1>8 DEF Set, ResolutionInv, ResolutionTypeOK
  <2>2. last' \in [Registries -> Int]
    BY <1>1, <1>2, Facts
  <2> QED BY <1>2, <1>10, <2>1, <2>2 DEF ResolutionInv, ResolutionTypeOK
<1>12. ThreadsInOrder'
  <2>1. InOrder(t, new)
    BY <1>1, <1>2, <1>3, <1>4 DEF InOrder, p
  <2>2. \A u \in Threads : InOrder(u, thread'[u])
    BY <1>9, <2>1 DEF ResolutionInv, ThreadsInOrder
  <2> QED BY <1>2, <2>2 DEF ThreadsInOrder, InOrder
<1>13. SlotsAreApart'
  <2>1. \A q \in Registries : last'[q] = IF q = p THEN now ELSE last[q]
    BY <1>1, <1>2
  <2>2. \A u \in Threads, q \in Registries : HasSlot(u, q)' => u # t /\ HasSlot(u, q)
    BY <1>4, <1>9 DEF HasSlot
  <2>3. \A u \in Threads \ {t} : thread'[u] = thread[u]
    BY <1>9
  <2>4. slot[p] >= now + Interval[p]
    BY <1>1, <1>2 DEF ResolutionInv, SlotsAreApart
  <2>5. ASSUME NEW u \in Threads \ {t}, HasSlot(u, p)
        PROVE  thread[u].at >= now + Interval[p]
    <3>1. thread[u].at >= now
      BY <2>5 DEF ResolutionInv, ThreadsInOrder, InOrder, HasSlot
    <3>2. thread[u].at >= now + Interval[p] \/ now >= thread[u].at + Interval[p]
      BY <1>1, <1>2, <2>5 DEF ResolutionInv, SlotsAreApart
    <3>3. thread[u].at \in Int /\ now \in Int
      BY Facts DEF ResolutionInv, ResolutionTypeOK, Thread
    <3> QED BY <1>1, <3>1, <3>2, <3>3
  <2>6. \A q \in Registries : slot'[q] >= last'[q] + Interval[q]
    BY <1>2, <2>1, <2>4 DEF ResolutionInv, SlotsAreApart
  <2>7. ASSUME NEW q \in Registries, NEW u \in Threads, HasSlot(u, q)'
        PROVE  thread'[u].at >= last'[q] + Interval[q] /\ slot'[q] >= thread'[u].at + Interval[q]
    BY <1>2, <2>1, <2>2, <2>3, <2>5, <2>7 DEF ResolutionInv, SlotsAreApart
  <2>8. ASSUME NEW q \in Registries, NEW u \in Threads, NEW v \in Threads \ {u},
               HasSlot(u, q)', HasSlot(v, q)'
        PROVE  \/ thread'[v].at >= thread'[u].at + Interval[q]
               \/ thread'[u].at >= thread'[v].at + Interval[q]
    BY <2>2, <2>3, <2>8 DEF ResolutionInv, SlotsAreApart
  <2> QED BY <2>6, <2>7, <2>8 DEF SlotsAreApart
<1>14. Printed \union Plain \subseteq Threads
  BY DEF Threads, LookedUp
<1>15. FewHold'
  <2>1. Holding' = Holding
    BY <1>4, <1>9, <1>14 DEF Holding
  <2> QED BY <2>1 DEF ResolutionInv, FewHold
<1>16. BreakerCounts'
  <2>1. Passed' \subseteq IF p = "crossref" THEN Passed \ {t} ELSE Passed
    BY <1>4, <1>9, <1>14 DEF Passed, HasSlot
  <2>2. p = "crossref" => t \in Passed
    BY <1>1 DEF Passed, InOrder, p
  <2>3. CASE p = "crossref"
    <3>1. IsFiniteSet(Passed \ {t}) /\ Cardinality(Passed \ {t}) = Cardinality(Passed) - 1
      BY <2>2, <2>3, Counted, FS_RemoveElement
    <3>2. IsFiniteSet(Passed') /\ Cardinality(Passed') <= Cardinality(Passed) - 1
      BY <2>1, <2>3, <3>1, Smaller
    <3>3. Cardinality(Passed') \in Nat
      BY <3>2, FS_CardinalityType
    <3>4. failures[p] = failures["crossref"] /\ failures["crossref"] \in Nat
      BY <2>3, Facts DEF Registries
    <3> QED BY <1>2, <1>10, <2>3, <3>2, <3>3, <3>4, Counted, ResolutionConstants
            DEF ResolutionInv, BreakerCounts
  <2>4. CASE p # "crossref"
    <3>1. IsFiniteSet(Passed') /\ Cardinality(Passed') <= Cardinality(Passed)
      BY <2>1, <2>4, Counted, Smaller
    <3>2. Cardinality(Passed') \in Nat
      BY <3>1, FS_CardinalityType
    <3> QED BY <1>2, <1>10, <2>4, <3>1, <3>2, Counted, ResolutionConstants
            DEF ResolutionInv, BreakerCounts
  <2> QED BY <2>3, <2>4
<1>17. (searched + searches + Cardinality(Pending) <= MaxSearches)'
  <2>1. Pending' \subseteq Pending \ {t}
    BY <1>4, <1>9, <1>14 DEF Pending
  <2>2. p = "openalex" /\ t \in Plain => t \in Pending
    BY <1>1, <1>2 DEF Pending, InOrder, p
  <2>3. /\ IsFiniteSet(Pending \ {t})
        /\ Cardinality(Pending \ {t}) =
               IF t \in Pending THEN Cardinality(Pending) - 1 ELSE Cardinality(Pending)
    BY Counted, FS_RemoveElement
  <2>4. IsFiniteSet(Pending') /\ Cardinality(Pending') <= Cardinality(Pending \ {t})
    BY <2>1, <2>3, Smaller
  <2>5. Cardinality(Pending') \in Nat
    BY <2>4, FS_CardinalityType
  <2>6. searches' = searches /\ searches \in Nat /\ MaxSearches \in Nat
        /\ Cardinality(Pending) \in Nat /\ searched + searches + Cardinality(Pending) <= MaxSearches
    BY <1>2, Facts, Counted, ResolutionConstants DEF ResolutionInv
  <2>7. CASE p = "openalex" /\ t \in Plain
    BY <1>2, <1>10, <2>2, <2>3, <2>4, <2>5, <2>6, <2>7
  <2>8. CASE ~ (p = "openalex" /\ t \in Plain)
    BY <1>2, <1>10, <2>3, <2>4, <2>5, <2>6, <2>8
  <2> QED BY <2>7, <2>8
<1>18. (now <= Deadline)'
  BY <1>2, Facts
<1> QED BY <1>11, <1>12, <1>13, <1>15, <1>16, <1>17, <1>18 DEF ResolutionInv

\* At the deadline no thread waits: time does not pass it.
LEMMA TickStep ==
  ASSUME ResolutionInv, Tick
  PROVE  ResolutionInv'
<1>1. /\ \A t \in Threads : Sleeping(t)
      /\ now' = now + 1
      /\ UNCHANGED <<slot, failures, searches, thread, lane, found, last, late, searched>>
  BY DEF Tick
<1>2. \A t \in Threads : thread[t].phase # "ready" => now + 1 <= thread[t].at
  <2> SUFFICES ASSUME NEW t \in Threads, thread[t].phase # "ready"
               PROVE  now + 1 <= thread[t].at
    OBVIOUS
  <2>1. thread[t] \in Thread /\ InOrder(t, thread[t])
    BY DEF ResolutionInv, ResolutionTypeOK, ThreadsInOrder
  <2>2. thread[t].phase \in {"slot", "asked", "backoff"} /\ thread[t].stage \in {"asking", "falling"}
        /\ thread[t].at \in Nat
    BY <2>1, ResolutionConstants DEF Thread, InOrder
  <2>3. thread[t].at > now
    BY <1>1, <2>2 DEF Sleeping
  <2> QED BY <2>2, <2>3, Facts
<1>3. now < Deadline
  <2> SUFFICES ASSUME now = Deadline PROVE FALSE
    BY Facts
  <2>1. \A t \in Threads : thread[t].phase = "ready"
    <3> SUFFICES ASSUME NEW t \in Threads, thread[t].phase # "ready" PROVE FALSE
      OBVIOUS
    <3>1. thread[t] \in Thread /\ thread[t].at <= Deadline
      BY DEF ResolutionInv, ResolutionTypeOK, ThreadsInOrder, InOrder
    <3>2. thread[t].at \in Int
      BY <3>1 DEF Thread
    <3> QED BY <1>2, <3>1, <3>2, Facts
  <2>2. \A t \in Threads : thread[t].stage \in {"waiting", "ended"}
    BY <1>1, <2>1 DEF Sleeping
  <2>3. thread[Lane].stage = "ended"
    BY <2>2, Facts DEF ResolutionInv, ThreadsInOrder, InOrder
  <2>4. ToSet(ArxivIds) \subseteq Threads
    BY DEF Threads, LookedUp
  <2>5. ArxivsTurn
    BY <2>2, <2>3, <2>4 DEF ArxivsTurn
  <2>6. \A r \in ToSet(ArxivIds) : thread[r].stage = "ended"
    BY <1>1, <2>1, <2>2, <2>4, <2>5 DEF Sleeping
  <2>7. ArxivDone
    BY <2>3, <2>6 DEF ArxivDone
  <2>8. Holding = {}
    BY <2>2 DEF Holding, Threads, LookedUp
  <2>9. CrossrefsTurn
    BY <2>7, <2>8, FS_EmptySet, ResolutionConstants DEF CrossrefsTurn
  <2>10. \A t \in Threads : thread[t].stage = "ended"
    BY <1>1, <2>1, <2>2, <2>5, <2>9 DEF Sleeping
  <2> QED BY <2>10 DEF Tick
<1>4. ResolutionTypeOK'
  <2>1. now' \in 0..(Deadline + 1)
    BY <1>1, <1>3, Facts
  <2> QED BY <1>1, <2>1 DEF ResolutionInv, ResolutionTypeOK
<1>5. ThreadsInOrder'
  <2>1. \A t \in Threads : InOrder(t, thread[t])'
    BY <1>1, <1>2 DEF ResolutionInv, ThreadsInOrder, InOrder
  <2> QED BY <2>1 DEF ThreadsInOrder
<1>6. SlotsAreApart' /\ FewHold' /\ BreakerCounts'
      /\ (searched + searches + Cardinality(Pending) <= MaxSearches)'
  BY <1>1 DEF ResolutionInv, SlotsAreApart, HasSlot, FewHold, Holding, BreakerCounts, Passed, Pending
<1>7. (now <= Deadline)'
  BY <1>1, <1>3, Facts
<1> QED BY <1>4, <1>5, <1>6, <1>7 DEF ResolutionInv

LEMMA ResolutionStays == ResolutionInv /\ UNCHANGED resolutionVars => ResolutionInv'
  BY DEF ResolutionInv, resolutionVars, ResolutionTypeOK, ThreadsInOrder, InOrder, SlotsAreApart,
         HasSlot, FewHold, Holding, BreakerCounts, Passed, Pending

\* The invariant of a lookup.
THEOREM ResolutionInvariant == ResolutionSpec => []ResolutionInv
<1>1. ResolutionInv /\ [ResolutionNext]_resolutionVars => ResolutionInv'
  <2> SUFFICES ASSUME ResolutionInv, [ResolutionNext]_resolutionVars PROVE ResolutionInv'
    OBVIOUS
  <2>1. CASE Tick
    BY <2>1, TickStep
  <2>2. CASE ArxivAnswers \/ ArxivFails \/ ArxivGivesUp
    BY <2>2, LaneStep
  <2>3. CASE \E t \in Threads : \/ thread[t].stage = "asking" /\ Reserve(t)
                               \/ Begin(t) \/ Wake(t)
    BY <2>3, ReserveStep, BeginStep, WakeStep
  <2>4. CASE \E r \in LookedUp : \/ ArxivTurn(r) \/ CrossrefTurn(r)
                                \/ CrossrefAnswers(r) \/ CrossrefFails(r) \/ CrossrefGivesUp(r)
                                \/ TooShort(r) \/ OpenAlexGivesUp(r) \/ OpenAlexAnswers(r)
    BY <2>4, RestStep
  <2>5. CASE \E r \in LookedUp : CrossrefRetries(r) \/ Search(r)
    BY <2>5, RetryStep, SearchStep
  <2>6. CASE \E r \in LookedUp : OpenAlexReserve(r)
    BY <2>6, Facts, ReserveStep DEF OpenAlexReserve, Falling
  <2>7. CASE Resolved \/ UNCHANGED resolutionVars
    BY <2>7, ResolutionStays DEF Resolved
  <2> QED BY <2>1, <2>2, <2>3, <2>4, <2>5, <2>6, <2>7 DEF ResolutionNext
<1> QED BY <1>1, InitResolution, PTL DEF ResolutionSpec

\* Only Begin makes a request of a slot.
LEMMA OnlyBeginAsks ==
  ASSUME ResolutionInv, ResolutionNext, NEW t \in Threads,
         thread[t].phase = "slot", thread'[t].phase = "asked"
  PROVE  Begin(t)
<1>1. \A u \in Threads : \A r : Set(u, r) => thread'[t] = IF t = u THEN r ELSE thread[t]
  BY DEF Set, ResolutionInv, ResolutionTypeOK
<1>2. \A stage, provider : Resting(stage, provider).phase = "ready"
  BY DEF Resting
<1>3. Lane \in Threads /\ LookedUp \subseteq Threads /\ \A u \in Threads : thread[u] \in Thread
  BY Facts DEF ResolutionInv, ResolutionTypeOK
<1>4. \A u \in Threads : \A stage, provider : ~ Set(u, Resting(stage, provider))
  BY <1>1, <1>2
<1>5. ~ Tick /\ ~ Resolved
  BY DEF Tick, Resolved, resolutionVars
<1>6. ~ ArxivAnswers /\ ~ ArxivGivesUp
  <2>1. \A l, known : ~ NextAsk(l, known)
    BY <1>3, <1>4 DEF NextAsk, LaneEnds
  <2> QED BY <2>1 DEF ArxivAnswers, ArxivGivesUp
<1>7. ~ ArxivFails
  <2>1. \A l, known : ~ NextAsk(l, known)
    BY <1>3, <1>4 DEF NextAsk, LaneEnds
  <2>2. \A n : [Resting("asking", "arxiv") EXCEPT !.attempt = n].phase = "ready"
    BY DEF Resting
  <2> QED BY <1>1, <1>3, <2>1, <2>2 DEF ArxivFails
<1>8. \A u \in Threads : ~ Reserve(u) /\ ~ Wake(u)
  <2> TAKE u \in Threads
  <2>1. \A at : [thread[u] EXCEPT !.phase = "slot", !.at = at].phase = "slot"
    BY <1>3 DEF Thread
  <2>2. \A at : [thread[u] EXCEPT !.phase = "ready", !.at = at].phase = "ready"
    BY <1>3 DEF Thread
  <2> QED BY <1>1, <2>1, <2>2 DEF Reserve, Wake
<1>9. \A r \in LookedUp : ~ (\/ ArxivTurn(r) \/ CrossrefTurn(r) \/ CrossrefAnswers(r)
                             \/ CrossrefFails(r) \/ CrossrefGivesUp(r)
                             \/ TooShort(r) \/ OpenAlexGivesUp(r) \/ OpenAlexAnswers(r))
  BY <1>3, <1>4 DEF ArxivTurn, CrossrefTurn, CrossrefAnswers, CrossrefFails, CrossrefGivesUp,
                    TooShort, OpenAlexGivesUp, OpenAlexAnswers, FallBack
<1>10. \A r \in LookedUp : ~ CrossrefRetries(r)
  <2> SUFFICES ASSUME NEW r \in LookedUp, CrossrefRetries(r) PROVE FALSE
    OBVIOUS
  <2>2. ~ FallBack(r)
    BY <1>3, <1>4 DEF FallBack
  <2>3. PICK delay : Set(r, [thread[r] EXCEPT !.phase = "backoff", !.at = now + delay,
                                              !.attempt = @ + 1])
    BY <2>2 DEF CrossrefRetries
  <2> DEFINE new == [thread[r] EXCEPT !.phase = "backoff", !.at = now + delay, !.attempt = @ + 1]
  <2>4. new.phase = "backoff"
    BY <1>3 DEF Thread
  <2>5. Set(r, new)
    BY <2>3
  <2> HIDE DEF new
  <2> QED BY <1>1, <1>3, <2>4, <2>5
<1>11. \A r \in LookedUp : ~ Search(r) /\ ~ OpenAlexReserve(r)
  <2> TAKE r \in LookedUp
  <2>1. [thread[r] EXCEPT !.attempt = 1].phase = thread[r].phase
    BY <1>3 DEF Thread
  <2> QED BY <1>1, <1>3, <1>4, <1>8, <2>1 DEF Search, Falling, OpenAlexReserve
<1>12. PICK u \in Threads : Begin(u)
  BY <1>5, <1>6, <1>7, <1>8, <1>9, <1>10, <1>11 DEF ResolutionNext
<1> QED BY <1>1, <1>12 DEF Begin

\* LookupKeepsItsLimits: however many references, threads and failures there are,
\* a lookup keeps its deadline, its breaker, its budget of searches and the pace
\* of every provider (_JobLimits, _SearchBudget and the pacers of citation.py).
THEOREM LookupsKeepTheirLimits == ResolutionSpec => LookupKeepsItsLimits
<1>1. ResolutionInv => EndsByTheDeadline /\ BreakerHolds /\ SearchesAreBudgeted
  <2> SUFFICES ASSUME ResolutionInv PROVE EndsByTheDeadline /\ BreakerHolds /\ SearchesAreBudgeted
    OBVIOUS
  <2>1. EndsByTheDeadline
    BY Facts DEF EndsByTheDeadline
  <2>2. BreakerHolds
    <3>1. failures["crossref"] \in Nat
      BY Facts DEF Registries
    <3> QED BY <3>1, Facts, Counted, ResolutionConstants
            DEF BreakerHolds, ResolutionInv, BreakerCounts
  <2>3. SearchesAreBudgeted
    BY DEF SearchesAreBudgeted, ResolutionInv, Pending
  <2> QED BY <2>1, <2>2, <2>3
<1>2. ResolutionInv /\ [ResolutionNext]_resolutionVars
        => [\A t \in Threads :
              thread[t].phase = "slot" /\ thread'[t].phase = "asked"
                => now - last[thread[t].provider] >= Interval[thread[t].provider]]_resolutionVars
  <2> SUFFICES ASSUME ResolutionInv, ResolutionNext, NEW t \in Threads,
                      thread[t].phase = "slot", thread'[t].phase = "asked"
               PROVE  now - last[thread[t].provider] >= Interval[thread[t].provider]
    OBVIOUS
  <2> DEFINE p == thread[t].provider
  <2>1. thread[t].at = now
    BY OnlyBeginAsks DEF Begin
  <2>2. p \in Registries /\ now \in Nat /\ last \in [Registries -> Int]
    BY Facts DEF ResolutionInv, ResolutionTypeOK, Thread
  <2>3. now >= last[p] + Interval[p]
    BY <2>1, <2>2 DEF ResolutionInv, SlotsAreApart, HasSlot
  <2>4. last[p] \in Int /\ Interval[p] \in Nat
    BY <2>2, ResolutionConstants
  <2> QED BY <2>2, <2>3, <2>4
<1> QED BY <1>1, <1>2, ResolutionInvariant, PTL
        DEF ResolutionSpec, LookupKeepsItsLimits, RequestsArePaced

-------------------------------------------------------------------------------
(* SemanticEvaluation: a claim goes on only with the paper, and ends once. *)

\* A source that was found is the paper its reference names.
SourcesAreIdentified == \A s \in Sources : source[s] \in {"unasked", "paper", Nothing}

\* What a claim goes on with is the paper, and only an ended claim has a status.
ClaimsHaveTheirPaper ==
    \A c \in Claims :
        /\ claims[c].phase \in {"ranked", "calling", "called"} => source[Cited[c]] = "paper"
        /\ claims[c].phase # "ended" => claims[c].status = Nothing

\* The score comes when nothing is left to do.
ScoreIsLast == score # "unscored" => \A c \in Claims : claims[c].phase = "ended"

SemanticInv ==
    /\ SemanticTypeOK
    /\ asked = calls
    /\ SourcesAreIdentified
    /\ ClaimsHaveTheirPaper
    /\ VerdictsAreFounded
    /\ ScoreIsLast
    /\ ScoresAreWhole
-------------------------------------------------------------------------------
LEMMA InitSemantic == SemanticInit => SemanticInv
  BY SemanticConstants
  DEF SemanticInit, SemanticInv, SemanticTypeOK, SourcesAreIdentified, ClaimsHaveTheirPaper,
      VerdictsAreFounded, ScoreIsLast, ScoresAreWhole, Claim, Verdicts, Undecided

\* A source is looked for once, and what is kept of it is the paper.
LEMMA SourceStep ==
  ASSUME SemanticInv, NEW s \in Sources, FromCache(s) \/ NotFetched(s) \/ Fetch(s)
  PROVE  SemanticInv'
<1> USE SemanticConstants DEF SemanticInv
<1>1. /\ source[s] = "unasked"
      /\ \E kept \in {"paper", Nothing} : source' = [source EXCEPT ![s] = kept]
      /\ UNCHANGED <<job, claims, calls, fallbacks, score, asked>>
  <2>1. ASSUME NEW pdf, Found(s, pdf)
        PROVE  \E kept \in {"paper", Nothing} : source' = [source EXCEPT ![s] = kept]
    BY <2>1 DEF Found, Accepts
  <2>2. CASE FromCache(s) BY <2>1, <2>2 DEF FromCache
  <2>3. CASE NotFetched(s) BY <2>1, <2>3 DEF NotFetched
  <2>4. CASE Fetch(s) BY <2>1, <2>4 DEF Fetch
  <2> QED BY <2>2, <2>3, <2>4
<1>2. cache' \in [Sources -> {"paper", "other", Nothing}] /\ fetches' \in 0..FetchBudget
  <2>1. CASE FromCache(s) \/ NotFetched(s)
    BY <2>1 DEF FromCache, NotFetched, SemanticTypeOK
  <2>2. CASE Fetch(s)
    <3>1. fetches' \in 0..FetchBudget
      BY <2>2 DEF Fetch, MayFetch, SemanticTypeOK
    <3>2. \A copies : FirstPaper(copies) \in {"paper", Nothing}
      BY DEF FirstPaper
    <3>3. cache' \in [Sources -> {"paper", "other", Nothing}]
      BY <2>2, <3>2 DEF Fetch, SemanticTypeOK
    <3> QED BY <3>1, <3>3
  <2> QED BY <2>1, <2>2
<1>3. PICK kept \in {"paper", Nothing} : source' = [source EXCEPT ![s] = kept]
  BY <1>1
<1>4. source' \in [Sources -> {"unasked", "paper", "other", Nothing}]
  BY <1>3 DEF SemanticTypeOK
<1>5. SemanticTypeOK'
  BY <1>1, <1>2, <1>4 DEF SemanticTypeOK
<1>6. SourcesAreIdentified'
  BY <1>3 DEF SourcesAreIdentified, SemanticTypeOK
<1>7. \A c \in Claims : source[Cited[c]] = "paper" => source'[Cited[c]] = "paper"
  BY <1>1, <1>3 DEF SemanticTypeOK, Sources
<1>8. ClaimsHaveTheirPaper' /\ VerdictsAreFounded'
  BY <1>1, <1>7 DEF ClaimsHaveTheirPaper, VerdictsAreFounded
<1> QED BY <1>1, <1>5, <1>6, <1>8 DEF ScoreIsLast, ScoresAreWhole

\* What a step that changes the one claim has to keep.
LEMMA ClaimStep ==
  ASSUME SemanticInv, NEW c \in Claims, NEW new \in Claim,
         claims[c].phase # "ended",
         claims' = [claims EXCEPT ![c] = new],
         new.phase \in {"ranked", "calling", "called"} => source[Cited[c]] = "paper",
         new.phase # "ended" => new.status = Nothing,
         new.status \in Verdicts => source[Cited[c]] = "paper" /\ new.heard \in {"exact", "valid"},
         UNCHANGED <<job, cache, source, fetches, score>>,
         fallbacks' \in Nat, calls' \in 0..CallBudget, asked' = calls'
  PROVE  SemanticInv'
<1> USE SemanticConstants DEF SemanticInv
<1>1. SemanticTypeOK' BY DEF SemanticTypeOK
<1>2. \A d \in Claims : claims'[d] = IF d = c THEN new ELSE claims[d]
  BY DEF SemanticTypeOK
<1>3. SourcesAreIdentified' BY DEF SourcesAreIdentified
<1>4. ClaimsHaveTheirPaper' BY <1>2 DEF ClaimsHaveTheirPaper
<1>5. VerdictsAreFounded' BY <1>2 DEF VerdictsAreFounded
<1>6. score = "unscored" BY DEF ScoreIsLast
<1>7. ScoreIsLast' /\ ScoresAreWhole' BY <1>6 DEF ScoreIsLast, ScoresAreWhole
<1> QED BY <1>1, <1>3, <1>4, <1>5, <1>7

\* A result that is no verdict, or that is founded, keeps the invariant.
LEMMA ResultStep ==
  ASSUME SemanticInv, NEW c \in Claims, claims[c].phase # "ended",
         NEW status \in Verdicts \union Undecided \union {Nothing},
         NEW heard \in {Nothing, "exact", "valid", "manual", "invalid", "error"},
         Result(c, status, heard),
         status \in Verdicts => source[Cited[c]] = "paper" /\ heard \in {"exact", "valid"},
         UNCHANGED <<job, cache, source, fetches, score>>,
         fallbacks' \in Nat, calls' \in 0..CallBudget, asked' = calls'
  PROVE  SemanticInv'
<1> DEFINE new == [claims[c] EXCEPT !.phase = "ended", !.status = status, !.heard = heard]
<1>1. claims[c] \in Claim BY DEF SemanticInv, SemanticTypeOK
<1>2. claims' = [claims EXCEPT ![c] = new] BY DEF Result, SemanticInv, SemanticTypeOK
<1>3. new.phase = "ended" /\ new.status = status /\ new.heard = heard BY <1>1 DEF Claim
<1>4. \A q \in Claim : [q EXCEPT !.phase = "ended"] \in Claim BY DEF Claim
<1>5. \A q \in Claim : [q EXCEPT !.status = status] \in Claim BY DEF Claim
<1>6. \A q \in Claim : [q EXCEPT !.heard = heard] \in Claim BY DEF Claim
<1>7. new = [[[claims[c] EXCEPT !.phase = "ended"] EXCEPT !.status = status] EXCEPT !.heard = heard]
  OBVIOUS
<1> HIDE DEF new
<1>8. new \in Claim BY <1>1, <1>4, <1>5, <1>6, <1>7
<1> QED BY <1>2, <1>3, <1>8, ClaimStep

LEMMA UndecidableStep ==
  ASSUME SemanticInv, NEW c \in Claims, Undecidable(c)
  PROVE  SemanticInv'
<1>1. /\ claims[c].phase # "ended" /\ fallbacks' \in Nat /\ calls' \in 0..CallBudget
      /\ asked' = calls'
  BY DEF Undecidable, Turn, SemanticInv, SemanticTypeOK
<1>2. UNCHANGED <<job, cache, source, fetches, score>> BY DEF Undecidable
<1>3. \E status \in {"AMBIGUOUS_CLAIM", "SOURCE_UNAVAILABLE"} : Result(c, status, Nothing)
  BY DEF Undecidable
<1> QED BY <1>1, <1>2, <1>3, ResultStep DEF Verdicts, Undecided

LEMMA RankStep ==
  ASSUME SemanticInv, NEW c \in Claims, Rank(c)
  PROVE  SemanticInv'
<1>1. /\ claims[c].phase = "waiting" /\ fallbacks' \in Nat /\ calls' \in 0..CallBudget
      /\ asked' = calls' /\ claims[c] \in Claim /\ claims[c].status = Nothing
  BY DEF Rank, Turn, SemanticInv, SemanticTypeOK, ClaimsHaveTheirPaper
<1>2. UNCHANGED <<job, cache, source, fetches, score>> BY DEF Rank
<1>3. source[Cited[c]] = "paper"
  BY DEF Rank, Turn, SemanticInv, SourcesAreIdentified, Sources
<1>4. CASE claims' = [claims EXCEPT ![c].phase = "ranked"]
  <2> DEFINE new == [claims[c] EXCEPT !.phase = "ranked"]
  <2>1. new \in Claim /\ new.phase = "ranked" /\ new.status = Nothing BY <1>1 DEF Claim
  <2>2. claims' = [claims EXCEPT ![c] = new] BY <1>4 DEF SemanticInv, SemanticTypeOK
  <2> HIDE DEF new
  <2> QED BY <1>1, <1>2, <1>3, <2>1, <2>2, ClaimStep, SemanticConstants DEF Verdicts
<1>5. CASE \E status \in {"NEEDS_MANUAL_REVIEW", "INSUFFICIENT_EVIDENCE"} :
               Result(c, status, Nothing)
  BY <1>1, <1>2, <1>5, ResultStep DEF Verdicts, Undecided
<1> QED BY <1>4, <1>5 DEF Rank

LEMMA DecideStep ==
  ASSUME SemanticInv, NEW c \in Claims, Decide(c)
  PROVE  SemanticInv'
<1>1. /\ claims[c].phase = "ranked" /\ fallbacks' \in Nat /\ calls' \in 0..CallBudget
      /\ asked' = calls' /\ claims[c] \in Claim /\ claims[c].status = Nothing
      /\ source[Cited[c]] = "paper"
  BY DEF Decide, SemanticInv, SemanticTypeOK, ClaimsHaveTheirPaper
<1>2. UNCHANGED <<job, cache, source, fetches, score>> BY DEF Decide
<1>3. CASE claims' = [claims EXCEPT ![c].phase = "calling"]
  <2> DEFINE new == [claims[c] EXCEPT !.phase = "calling"]
  <2>1. new \in Claim /\ new.phase = "calling" /\ new.status = Nothing BY <1>1 DEF Claim
  <2>2. claims' = [claims EXCEPT ![c] = new] BY <1>3 DEF SemanticInv, SemanticTypeOK
  <2> HIDE DEF new
  <2> QED BY <1>1, <1>2, <2>1, <2>2, ClaimStep, SemanticConstants DEF Verdicts
<1>4. CASE Result(c, "SUPPORTED", "exact")
  BY <1>1, <1>2, <1>4, ResultStep DEF Verdicts, Undecided
<1>5. CASE Result(c, "NEEDS_MANUAL_REVIEW", Nothing)
  BY <1>1, <1>2, <1>5, ResultStep DEF Verdicts, Undecided
<1> QED BY <1>3, <1>4, <1>5 DEF Decide

\* The budget is looked at and taken from in one step, under its lock.
LEMMA CallStep ==
  ASSUME SemanticInv, NEW c \in Claims, Call(c)
  PROVE  SemanticInv'
<1>1. /\ claims[c].phase = "calling" /\ fallbacks' \in Nat
      /\ claims[c] \in Claim /\ claims[c].status = Nothing /\ source[Cited[c]] = "paper"
  BY DEF Call, SemanticInv, SemanticTypeOK, ClaimsHaveTheirPaper
<1>2. UNCHANGED <<job, cache, source, fetches, score>> BY DEF Call
<1>3. calls' \in 0..CallBudget /\ asked' = calls'
  BY SemanticConstants DEF Call, WithinBudget, SemanticInv, SemanticTypeOK
<1>4. CASE WithinBudget(c)
  <2> DEFINE new == [claims[c] EXCEPT !.phase = "called"]
  <2>1. new \in Claim /\ new.phase = "called" /\ new.status = Nothing BY <1>1 DEF Claim
  <2>2. claims' = [claims EXCEPT ![c] = new] BY <1>4 DEF Call, SemanticInv, SemanticTypeOK
  <2> HIDE DEF new
  <2> QED BY <1>1, <1>2, <1>3, <2>1, <2>2, ClaimStep, SemanticConstants DEF Verdicts
<1>5. CASE ~ WithinBudget(c)
  <2>1. Result(c, "NEEDS_MANUAL_REVIEW", "error") BY <1>5 DEF Call
  <2> QED BY <1>1, <1>2, <1>3, <2>1, ResultStep DEF Verdicts, Undecided
<1> QED BY <1>4, <1>5

LEMMA AnswerStep ==
  ASSUME SemanticInv, NEW c \in Claims, ModelAnswers(c)
  PROVE  SemanticInv'
<1>1. /\ claims[c].phase = "called" /\ fallbacks' \in Nat /\ calls' \in 0..CallBudget
      /\ asked' = calls' /\ claims[c] \in Claim /\ claims[c].status = Nothing
      /\ source[Cited[c]] = "paper"
  BY DEF ModelAnswers, SemanticInv, SemanticTypeOK, ClaimsHaveTheirPaper
<1>2. UNCHANGED <<job, cache, source, fetches, score>> BY DEF ModelAnswers
<1>3. PICK heard \in {"valid", "manual", "invalid", "error"} :
         IF Takes(c, heard)
         THEN \E verdict \in Verdicts : Result(c, verdict, heard)
         ELSE IF heard = "invalid" /\ claims[c].attempt = 1
         THEN claims' = [claims EXCEPT ![c].phase = "calling", ![c].attempt = 2,
                                       ![c].heard = heard]
         ELSE Result(c, "NEEDS_MANUAL_REVIEW", heard)
  BY DEF ModelAnswers
<1>4. CASE Takes(c, heard)
  <2>1. PICK verdict \in Verdicts : Result(c, verdict, heard) BY <1>3, <1>4
  <2>2. heard = "valid" BY <1>4 DEF Takes
  <2> QED BY <1>1, <1>2, <2>1, <2>2, ResultStep
<1>5. CASE Result(c, "NEEDS_MANUAL_REVIEW", heard)
  BY <1>1, <1>2, <1>5, ResultStep DEF Verdicts, Undecided
<1>6. CASE claims' = [claims EXCEPT ![c].phase = "calling", ![c].attempt = 2,
                                    ![c].heard = heard]
  <2> DEFINE new == [claims[c] EXCEPT !.phase = "calling", !.attempt = 2, !.heard = heard]
  <2>1. \A q \in Claim : [q EXCEPT !.phase = "calling"] \in Claim BY DEF Claim
  <2>2. \A q \in Claim : [q EXCEPT !.attempt = 2] \in Claim BY DEF Claim
  <2>3. \A q \in Claim : [q EXCEPT !.heard = heard] \in Claim BY DEF Claim
  <2>4. new = [[[claims[c] EXCEPT !.phase = "calling"] EXCEPT !.attempt = 2]
                  EXCEPT !.heard = heard]
    OBVIOUS
  <2>5. new.phase = "calling" /\ new.status = Nothing BY <1>1 DEF Claim
  <2>6. claims' = [claims EXCEPT ![c] = new] BY <1>6 DEF SemanticInv, SemanticTypeOK
  <2> HIDE DEF new
  <2>7. new \in Claim BY <1>1, <2>1, <2>2, <2>3, <2>4
  <2> QED BY <1>1, <1>2, <2>5, <2>6, <2>7, ClaimStep, SemanticConstants DEF Verdicts
<1> QED BY <1>3, <1>4, <1>5, <1>6

LEMMA ScoreStep ==
  ASSUME SemanticInv, Score
  PROVE  SemanticInv'
<1> USE SemanticConstants DEF SemanticInv, Score
<1>1. SemanticTypeOK' BY DEF SemanticTypeOK
<1>2. SourcesAreIdentified' /\ ClaimsHaveTheirPaper' /\ VerdictsAreFounded' /\ ScoreIsLast'
  BY DEF SourcesAreIdentified, ClaimsHaveTheirPaper, VerdictsAreFounded, ScoreIsLast
<1>3. ScoresAreWhole' BY DEF ScoresAreWhole, Gate, Covered, Evaluable
<1> QED BY <1>1, <1>2, <1>3

LEMMA SemanticStays == SemanticInv /\ UNCHANGED semanticVars => SemanticInv'
  BY DEF SemanticInv, semanticVars, SemanticTypeOK, SourcesAreIdentified, ClaimsHaveTheirPaper,
         VerdictsAreFounded, ScoreIsLast, ScoresAreWhole

\* The invariant of a run.
THEOREM SemanticInvariant == SemanticSpec => []SemanticInv
<1>1. SemanticInv /\ [SemanticNext]_semanticVars => SemanticInv'
  <2> SUFFICES ASSUME SemanticInv, [SemanticNext]_semanticVars PROVE SemanticInv'
    OBVIOUS
  <2>1. CASE \E s \in Sources : FromCache(s) \/ NotFetched(s) \/ Fetch(s)
    BY <2>1, SourceStep
  <2>2. CASE \E c \in Claims : Undecidable(c) \/ Rank(c) \/ Decide(c) \/ Call(c) \/ ModelAnswers(c)
    BY <2>2, UndecidableStep, RankStep, DecideStep, CallStep, AnswerStep
  <2>3. CASE Score BY <2>3, ScoreStep
  <2>4. CASE Scored \/ UNCHANGED semanticVars BY <2>4, SemanticStays DEF Scored
  <2> QED BY <2>1, <2>2, <2>3, <2>4 DEF SemanticNext
<1> QED BY <1>1, InitSemantic, PTL DEF SemanticSpec

\* VerdictsAreFounded: whatever the cache and the downloads hold and however the
\* answers end, a verdict rests on the paper and on a valid answer or the very
\* text (evaluate_claim of semantic_citation.py).
THEOREM VerdictsStayFounded == SemanticSpec => []VerdictsAreFounded
  BY SemanticInvariant, PTL DEF SemanticInv

\* ScoreWithinBudget: the claims of a run share one budget of calls, and a run
\* that left a claim undecided or fell back proposes no score
\* (score_semantic_results and decide).
THEOREM ScoreStaysWithinBudget == SemanticSpec => []ScoreWithinBudget
<1>1. SemanticInv => ScoreWithinBudget
  BY SemanticConstants
  DEF SemanticInv, SemanticTypeOK, ScoreWithinBudget, CallsWithinBudget
<1> QED BY <1>1, SemanticInvariant, PTL

-------------------------------------------------------------------------------
(* Which model a claim may be given to: LlmRouting, for any number of      *)
(* providers, keys, administrators, jobs and changes. The revision of a    *)
(* credential stands for one key. As long as it does not change, neither   *)
(* does a fingerprint that is set, and it never comes back once it         *)
(* changed; so a row that a worker reads with the revision of its snapshot *)
(* has the fingerprint the snapshot was made of.                           *)


\* The fingerprint of a stored key is the key.
StoredKeysAreKnown ==
    \A p \in Providers \ {Bedrock} :
        providers[p].source = "STORED" => providers[p].fingerprint = providers[p].stored

\* A test that will be applied has asked with the key its row still stores.
TestsUseTheirRow ==
    \A a \in Admins : Is(a, "TEST") =>
        LET test == admins[a]
            row == providers[test.provider]
        IN  /\ test.seen <= row.revision
            /\ test.provider # Bedrock => test.key # Role
            /\ test.provider # Bedrock /\ test.seen = row.revision =>
                  /\ row.source = "STORED" => test.key = row.stored
                  /\ row.source = "NONE" => test.key = NoKey

\* A row with the revision of a snapshot has the key of the snapshot.
Pins(row, snapshot) ==
    row.credential = snapshot.credential => row.fingerprint = snapshot.granted

SnapshotsPinTheirKey ==
    \A j \in Jobs : jobs[j].phase \in {"queued", "read", "ended"} =>
        LET snapshot == jobs[j].route
        IN  /\ snapshot \in Snapshot
            /\ snapshot.provider = Bedrock => snapshot.granted = Role
            /\ snapshot.provider # Bedrock =>
                  /\ snapshot.granted \in Keys
                  /\ snapshot.credential <= providers[snapshot.provider].credential
                  /\ Pins(providers[snapshot.provider], snapshot)
            /\ jobs[j].phase = "read" =>
                  /\ jobs[j].row \in Provider
                  /\ snapshot.provider # Bedrock => Pins(jobs[j].row, snapshot)

\* Only a job that has run has a key.
OthersHaveNoKey == \A j \in Jobs : jobs[j].phase # "ended" => jobs[j].key = NoKey

RoutingInv ==
    /\ LlmTypeOK
    /\ StoredKeysAreKnown
    /\ TestsUseTheirRow
    /\ SnapshotsPinTheirKey
    /\ OthersHaveNoKey
    /\ KeysAreVerified
-------------------------------------------------------------------------------
(* Initial states.                                                         *)

LEMMA InitRouting == LlmInit => RoutingInv
<1> SUFFICES ASSUME LlmInit PROVE RoutingInv
  OBVIOUS
<1> USE RoutingConstants DEF LlmInit
<1>1. PICK p \in Providers \ {Bedrock}, origin \in {"STORED", "ENVIRONMENT"}, k \in Keys :
         /\ providers = [q \in Providers |->
                IF q # p THEN Seeded
                ELSE [approved |-> TRUE, source |-> origin, fingerprint |-> k,
                      catalog |-> "VERIFIED",
                      stored |-> IF origin = "STORED" THEN k ELSE NoKey,
                      verified |-> 1, credential |-> 1, revision |-> 1]]
         /\ route = [provider |-> p, state |-> "DRAFT", quality |-> TRUE,
                     credential |-> 1, revision |-> 1]
         /\ environment = [q \in Providers \ {Bedrock} |->
                IF q = p /\ origin = "ENVIRONMENT" THEN k ELSE NoKey]
  OBVIOUS
<1>2. LlmTypeOK
  <2>1. providers \in [Providers -> Provider]
    BY <1>1 DEF Provider, Seeded, MaybeKey, CredentialSources, Revision
  <2>2. route \in Route /\ environment \in [Providers \ {Bedrock} -> MaybeKey]
    BY <1>1 DEF Route, Revision, MaybeKey
  <2>3. admins \in [Admins -> Request \union {Idle}] /\ jobs \in [Jobs -> Job]
    BY DEF Job, MaybeKey
  <2> QED BY <2>1, <2>2, <2>3 DEF LlmTypeOK
<1>3. StoredKeysAreKnown
  BY <1>1 DEF StoredKeysAreKnown, Seeded
<1>4. TestsUseTheirRow /\ SnapshotsPinTheirKey /\ OthersHaveNoKey
  BY DEF TestsUseTheirRow, Is, SnapshotsPinTheirKey, OthersHaveNoKey
<1>5. KeysAreVerified
  BY <1>1 DEF KeysAreVerified, ActiveRouteIsBacked, JobsKeepTheirKey
<1> QED BY <1>2, <1>3, <1>4, <1>5 DEF RoutingInv

-------------------------------------------------------------------------------
(* Changes of a provider's row.                                            *)

\* What a change of a row may do to it. The credential's revision only grows, and
\* without a new one a fingerprint stays.
RowChange(p, old, new) ==
    /\ new \in Provider
    /\ new.revision = old.revision + 1
    /\ old.credential <= new.credential
    /\ p # Bedrock =>
          /\ new.source = "STORED" => new.fingerprint = new.stored
          /\ new.credential = old.credential /\ old.fingerprint # NoKey =>
                new.fingerprint = old.fingerprint

\* Such a change keeps what is known of keys, of the tests and of the snapshots.
LEMMA RowChangeKeepsKeys ==
    ASSUME RoutingInv, NEW a \in Admins, NEW p \in Providers, NEW new,
           RowChange(p, providers[p], new),
           providers' = [providers EXCEPT ![p] = new],
           End(a), UNCHANGED jobs
    PROVE  /\ providers' \in [Providers -> Provider]
           /\ admins' \in [Admins -> Request \union {Idle}]
           /\ StoredKeysAreKnown' /\ TestsUseTheirRow' /\ SnapshotsPinTheirKey'
           /\ OthersHaveNoKey' /\ JobsKeepTheirKey'
<1> USE RoutingConstants DEF RoutingInv
<1>1. providers' \in [Providers -> Provider] /\ admins' \in [Admins -> Request \union {Idle}]
  BY DEF LlmTypeOK, RowChange, End
<1>2. StoredKeysAreKnown'
  BY DEF LlmTypeOK, StoredKeysAreKnown, RowChange
<1>3. TestsUseTheirRow'
  <2> SUFFICES ASSUME NEW b \in Admins, Is(b, "TEST")'
               PROVE  LET test == admins'[b]
                          row == providers'[test.provider]
                      IN  /\ test.seen <= row.revision
                          /\ test.provider # Bedrock => test.key # Role
                          /\ test.provider # Bedrock /\ test.seen = row.revision =>
                                /\ row.source = "STORED" => test.key = row.stored
                                /\ row.source = "NONE" => test.key = NoKey
    BY DEF TestsUseTheirRow
  <2>1. admins'[b] = admins[b] /\ Is(b, "TEST")
    BY DEF Is, End, LlmTypeOK
  <2>2. /\ admins[b].provider \in Providers
        /\ admins[b].seen \in Revision /\ admins[b].key \in MaybeKey \union {Role}
    BY <2>1 DEF LlmTypeOK, Is, Request
  <2>3. CASE admins[b].provider # p
    BY <2>1, <2>2, <2>3 DEF TestsUseTheirRow, LlmTypeOK
  <2>4. CASE admins[b].provider = p
    <3>1. providers[p].revision \in Nat /\ admins[b].seen \in Nat
      BY <2>2 DEF LlmTypeOK, Provider, Revision
    <3>2. providers'[p].revision = providers[p].revision + 1
      BY DEF LlmTypeOK, RowChange
    <3>3. admins[b].seen < providers'[p].revision
      BY <2>1, <2>4, <3>1, <3>2 DEF TestsUseTheirRow
    <3> QED BY <2>1, <2>4, <3>1, <3>2, <3>3 DEF TestsUseTheirRow
  <2> QED BY <2>3, <2>4
<1>4. SnapshotsPinTheirKey'
  <2> SUFFICES ASSUME NEW j \in Jobs, jobs[j].phase \in {"queued", "read", "ended"},
                      jobs[j].route.provider = p, p # Bedrock
               PROVE  /\ jobs[j].route.credential <= providers'[p].credential
                      /\ Pins(providers'[p], jobs[j].route)
    BY DEF SnapshotsPinTheirKey, LlmTypeOK, Snapshot
  <2>1. /\ jobs[j].route.granted \in Keys
        /\ jobs[j].route.credential \in Nat
        /\ jobs[j].route.credential <= providers[p].credential
        /\ Pins(providers[p], jobs[j].route)
    BY DEF SnapshotsPinTheirKey, Snapshot, Revision
  <2>2. providers'[p] = new /\ providers[p].credential \in Nat /\ new.credential \in Nat
    BY DEF LlmTypeOK, RowChange, Provider, Revision
  <2> QED BY <2>1, <2>2 DEF RowChange, Pins
<1> QED BY <1>1, <1>2, <1>3, <1>4 DEF OthersHaveNoKey, KeysAreVerified, JobsKeepTheirKey

\* A changed route is a route.
LEMMA RouteWith ==
    ASSUME NEW r \in Route, NEW state \in {"DRAFT", "ACTIVE", "DISABLED"}
    PROVE  [r EXCEPT !.state = state, !.revision = @ + 1] \in Route
<1>1. \A q \in Route : [q EXCEPT !.state = state] \in Route
  BY DEF Route
<1>2. \A q \in Route : [q EXCEPT !.revision = @ + 1] \in Route
  BY DEF Route, Revision
<1>3. [r EXCEPT !.state = state, !.revision = @ + 1]
         = [[r EXCEPT !.state = state] EXCEPT !.revision = @ + 1]
  OBVIOUS
<1> QED BY <1>1, <1>2, <1>3

\* A change that deactivates the route, or that leaves the row approved and with
\* its credential, keeps an active route backed.
LEMMA RowChangeKeepsRoute ==
    ASSUME RoutingInv, NEW p \in Providers, NEW new,
           new \in Provider, providers' = [providers EXCEPT ![p] = new],
           \/ route' = Deactivated(p)
           \/ UNCHANGED route /\ new.credential = providers[p].credential
                              /\ (providers[p].approved => new.approved)
    PROVE  route' \in Route /\ ActiveRouteIsBacked'
<1> USE DEF RoutingInv, KeysAreVerified
<1>0. route \in Route
  BY DEF LlmTypeOK
<1>1. route' \in Route
  <2>1. [route EXCEPT !.state = "DISABLED", !.revision = @ + 1] \in Route
    BY <1>0, RouteWith
  <2> QED BY <1>0, <2>1 DEF Deactivated
<1>2. CASE route' = Deactivated(p)
  <2>1. CASE route.provider = p /\ route.state = "ACTIVE"
    <3>1. [route EXCEPT !.state = "DISABLED", !.revision = @ + 1].state = "DISABLED"
      BY <1>0 DEF Route
    <3>2. route'.state = "DISABLED"
      BY <1>2, <2>1, <3>1 DEF Deactivated
    <3> QED BY <1>1, <3>2 DEF ActiveRouteIsBacked
  <2>2. CASE ~ (route.provider = p /\ route.state = "ACTIVE")
    BY <1>2, <2>2 DEF Deactivated, ActiveRouteIsBacked, LlmTypeOK
  <2> QED BY <2>1, <2>2
<1>3. CASE UNCHANGED route /\ new.credential = providers[p].credential
                           /\ (providers[p].approved => new.approved)
  BY <1>3 DEF ActiveRouteIsBacked, LlmTypeOK
<1> QED BY <1>1, <1>2, <1>3

\* What the two lemmas give together.
LEMMA RowChangeKeepsInv ==
    ASSUME RoutingInv, NEW a \in Admins, NEW p \in Providers, NEW new,
           RowChange(p, providers[p], new),
           providers' = [providers EXCEPT ![p] = new],
           \/ route' = Deactivated(p)
           \/ UNCHANGED route /\ new.credential = providers[p].credential
                              /\ (providers[p].approved => new.approved),
           End(a), UNCHANGED <<environment, jobs>>
    PROVE  RoutingInv'
<1>1. new \in Provider
  BY DEF RowChange
<1>2. route' \in Route /\ ActiveRouteIsBacked'
  BY <1>1, RowChangeKeepsRoute
<1>3. /\ providers' \in [Providers -> Provider]
      /\ admins' \in [Admins -> Request \union {Idle}]
      /\ StoredKeysAreKnown' /\ TestsUseTheirRow' /\ SnapshotsPinTheirKey'
      /\ OthersHaveNoKey' /\ JobsKeepTheirKey'
  BY RowChangeKeepsKeys
<1> QED BY <1>2, <1>3 DEF RoutingInv, LlmTypeOK, KeysAreVerified

\* A new credential starts a new revision, so it may have any key.
LEMMA NewCredential ==
    ASSUME NEW row \in Provider, NEW origin \in CredentialSources, NEW key \in MaybeKey
    PROVE  LET new == WithCredential(row, origin, key)
           IN  /\ new \in Provider /\ new.revision = row.revision
               /\ new.credential = row.credential + 1
               /\ new.source = origin /\ new.fingerprint = new.stored
<1> DEFINE r1 == [row EXCEPT !.source = origin]
           r2 == [r1 EXCEPT !.stored = key]
           r3 == [r2 EXCEPT !.fingerprint = key]
           r4 == [r3 EXCEPT !.credential = @ + 1]
           r5 == [r4 EXCEPT !.catalog = "UNTESTED"]
           r6 == [r5 EXCEPT !.verified = 0]
<1>1. \A r \in Provider :
         /\ [r EXCEPT !.source = origin] \in Provider
         /\ [r EXCEPT !.stored = key] \in Provider
         /\ [r EXCEPT !.fingerprint = key] \in Provider
         /\ [r EXCEPT !.credential = @ + 1] \in Provider
         /\ [r EXCEPT !.catalog = "UNTESTED"] \in Provider
         /\ [r EXCEPT !.verified = 0] \in Provider
  BY DEF Provider, Revision
<1>2. r6 \in Provider
  BY <1>1
<1>3. WithCredential(row, origin, key) = r6
  BY DEF WithCredential
<1>4. /\ WithCredential(row, origin, key).revision = row.revision
      /\ WithCredential(row, origin, key).credential = row.credential + 1
      /\ WithCredential(row, origin, key).source = origin
      /\ WithCredential(row, origin, key).fingerprint = key
      /\ WithCredential(row, origin, key).stored = key
  BY DEF WithCredential, Provider
<1> QED BY <1>2, <1>3, <1>4

\* A row that is stored differs from what was written to it in the revision.
LEMMA NextRevision ==
    ASSUME NEW row \in Provider
    PROVE  LET new == [row EXCEPT !.revision = @ + 1]
           IN  /\ new \in Provider /\ new.revision = row.revision + 1
               /\ new.approved = row.approved /\ new.source = row.source
               /\ new.stored = row.stored /\ new.fingerprint = row.fingerprint
               /\ new.credential = row.credential
BY DEF Provider, Revision

\* A row with a new credential is a change of the old one.
LEMMA CredentialStep ==
    ASSUME NEW p \in Providers, NEW old \in Provider, NEW row \in Provider,
           row.revision = old.revision, row.credential = old.credential + 1,
           row.fingerprint = row.stored
    PROVE  RowChange(p, old, [row EXCEPT !.revision = @ + 1])
<1>1. old.credential \in Nat
  BY DEF Provider, Revision
<1> QED BY <1>1, NextRevision DEF RowChange

\* update_provider and delete_credential.
LEMMA StoreKeepsInv ==
    ASSUME RoutingInv, NEW a \in Admins, NEW p \in Providers, NEW row \in Provider,
           RowChange(p, providers[p], [row EXCEPT !.revision = @ + 1]),
           Store(a, p, row)
    PROVE  RoutingInv'
<1> DEFINE new == [row EXCEPT !.revision = @ + 1]
<1>1. /\ new.credential = row.credential /\ new.approved = row.approved
      /\ providers' = [providers EXCEPT ![p] = new]
      /\ End(a) /\ UNCHANGED <<environment, jobs>>
  BY DEF Store, Provider
<1>2. \/ route' = Deactivated(p)
      \/ UNCHANGED route /\ row.credential = providers[p].credential /\ row.approved
  BY DEF Store, Deactivates, Provider
<1> QED BY <1>1, <1>2, RowChangeKeepsInv

LEMMA UpdateProviderKeepsInv ==
    ASSUME RoutingInv, NEW a \in Admins, UpdateProvider(a)
    PROVE  RoutingInv'
<1> DEFINE p == admins[a].provider
           old == providers[p]
<1>1. p \in Providers /\ old \in Provider
  BY RoutingConstants DEF RoutingInv, LlmTypeOK, UpdateProvider, Is, Request
<1>2. PICK approved \in BOOLEAN, origin \in CredentialSources, key \in MaybeKey :
         /\ origin = "STORED" /\ key = NoKey => old.source = "STORED"
         /\ Store(a, p, [IF origin # old.source \/ key # NoKey
                         THEN WithCredential(old, origin, key) ELSE old
                         EXCEPT !.approved = approved])
  BY DEF UpdateProvider
<1>3. CASE origin # old.source \/ key # NoKey
  <2> DEFINE row == [WithCredential(old, origin, key) EXCEPT !.approved = approved]
  <2>1. /\ WithCredential(old, origin, key) \in Provider
        /\ WithCredential(old, origin, key).revision = old.revision
        /\ WithCredential(old, origin, key).credential = old.credential + 1
        /\ WithCredential(old, origin, key).fingerprint = WithCredential(old, origin, key).stored
    BY <1>1, NewCredential
  <2>2. /\ row \in Provider /\ row.revision = old.revision
        /\ row.credential = old.credential + 1 /\ row.fingerprint = row.stored
    BY <2>1 DEF Provider
  <2>3. RowChange(p, old, [row EXCEPT !.revision = @ + 1])
    BY <1>1, <2>2, CredentialStep
  <2> QED BY <1>1, <1>2, <1>3, <2>2, <2>3, StoreKeepsInv
<1>4. CASE ~ (origin # old.source \/ key # NoKey)
  <2> DEFINE row == [old EXCEPT !.approved = approved]
  <2>1. row \in Provider
    BY <1>1 DEF Provider
  <2>2. /\ row.credential = old.credential /\ row.revision = old.revision
        /\ row.source = old.source /\ row.stored = old.stored /\ row.fingerprint = old.fingerprint
    BY <1>1 DEF Provider
  <2>3. p # Bedrock /\ old.source = "STORED" => old.fingerprint = old.stored
    BY <1>1 DEF RoutingInv, StoredKeysAreKnown
  <2>4. old.credential \in Nat
    BY <1>1 DEF Provider, Revision
  <2> HIDE DEF row
  <2>5. RowChange(p, old, [row EXCEPT !.revision = @ + 1])
    BY <2>1, <2>2, <2>3, <2>4, NextRevision DEF RowChange
  <2> QED BY <1>1, <1>2, <1>4, <2>1, <2>5, StoreKeepsInv DEF row
<1> QED BY <1>3, <1>4

LEMMA DeleteCredentialKeepsInv ==
    ASSUME RoutingInv, NEW a \in Admins, DeleteCredential(a)
    PROVE  RoutingInv'
<1> DEFINE p == admins[a].provider
           old == providers[p]
           row == WithCredential(old, "NONE", NoKey)
<1>1. p \in Providers /\ old \in Provider
  BY RoutingConstants DEF RoutingInv, LlmTypeOK, DeleteCredential, Is, Request
<1>2. /\ row \in Provider /\ row.revision = old.revision
      /\ row.credential = old.credential + 1 /\ row.fingerprint = row.stored
  BY <1>1, NewCredential DEF CredentialSources, MaybeKey
<1>3. RowChange(p, old, [row EXCEPT !.revision = @ + 1])
  BY <1>1, <1>2, CredentialStep
<1> QED BY <1>1, <1>2, <1>3, StoreKeepsInv DEF DeleteCredential

\* test_catalog, once the provider has answered.
LEMMA TestApplyKeepsInv ==
    ASSUME RoutingInv, NEW a \in Admins, TestApply(a)
    PROVE  RoutingInv'
<1> DEFINE p == admins[a].provider
           key == admins[a].key
           old == providers[p]
           revision == Numbered(old, key)
           failed == [old EXCEPT !.catalog = "FAILED", !.verified = 0, !.revision = @ + 1]
           passed == [old EXCEPT !.catalog = "VERIFIED", !.credential = revision,
                                 !.verified = revision, !.revision = @ + 1,
                                 !.fingerprint = IF p = Bedrock THEN NoKey ELSE key]
<1>1. p \in Providers /\ old \in Provider /\ key \in MaybeKey \union {Role}
  BY RoutingConstants DEF RoutingInv, LlmTypeOK, TestApply, Is, Request
<1>2. /\ old.credential \in Nat \ {0} /\ revision \in Nat \ {0} /\ old.credential <= revision
      /\ revision # old.credential => revision = old.credential + 1
  BY <1>1 DEF Provider, Revision, Numbered
<1>3. /\ p # Bedrock => key # Role
      /\ p # Bedrock /\ old.source = "STORED" => key = old.stored
      /\ p # Bedrock /\ old.source = "NONE" => key = NoKey
  BY <1>1 DEF TestApply, Current, RoutingInv, TestsUseTheirRow
<1>4. p # Bedrock /\ old.source = "STORED" => old.fingerprint = old.stored
  BY <1>1 DEF RoutingInv, StoredKeysAreKnown
<1>5. CASE providers' = [providers EXCEPT ![p] = failed] /\ UNCHANGED route
  <2>1. /\ failed.revision = old.revision + 1 /\ failed.credential = old.credential
        /\ failed.source = old.source /\ failed.stored = old.stored
        /\ failed.fingerprint = old.fingerprint /\ failed.approved = old.approved
    BY <1>1 DEF Provider
  <2>2. failed \in Provider
    <3>1. \A r \in Provider : /\ [r EXCEPT !.catalog = "FAILED"] \in Provider
                              /\ [r EXCEPT !.verified = 0] \in Provider
                              /\ [r EXCEPT !.revision = @ + 1] \in Provider
      BY DEF Provider, Revision
    <3>2. failed = [[[old EXCEPT !.catalog = "FAILED"] EXCEPT !.verified = 0]
                       EXCEPT !.revision = @ + 1]
      OBVIOUS
    <3> QED BY <1>1, <3>1, <3>2
  <2>3. RowChange(p, old, failed)
    BY <1>2, <1>4, <2>1, <2>2 DEF RowChange
  <2> QED BY <1>1, <1>5, <2>1, <2>3, RowChangeKeepsInv DEF TestApply
<1>6. CASE /\ key # NoKey
           /\ providers' = [providers EXCEPT ![p] = passed]
           /\ route' = IF revision # old.credential THEN Deactivated(p) ELSE route
  <2> DEFINE print == IF p = Bedrock THEN NoKey ELSE key
  <2>1. /\ passed.revision = old.revision + 1 /\ passed.credential = revision
        /\ passed.source = old.source /\ passed.stored = old.stored
        /\ passed.fingerprint = print /\ passed.approved = old.approved
    BY <1>1 DEF Provider
  <2>2. passed \in Provider
    <3>1. print \in MaybeKey
      BY <1>1, <1>3 DEF MaybeKey
    <3>2. \A r \in Provider : /\ [r EXCEPT !.catalog = "VERIFIED"] \in Provider
                              /\ [r EXCEPT !.credential = revision] \in Provider
                              /\ [r EXCEPT !.verified = revision] \in Provider
                              /\ [r EXCEPT !.revision = @ + 1] \in Provider
                              /\ [r EXCEPT !.fingerprint = print] \in Provider
      BY <1>2, <3>1 DEF Provider, Revision
    <3>3. passed = [[[[[old EXCEPT !.catalog = "VERIFIED"] EXCEPT !.credential = revision]
                       EXCEPT !.verified = revision] EXCEPT !.revision = @ + 1]
                       EXCEPT !.fingerprint = print]
      OBVIOUS
    <3> HIDE DEF print, passed
    <3> QED BY <1>1, <3>2, <3>3
  <2>3. p # Bedrock => /\ old.source = "STORED" => print = old.stored
                       /\ revision = old.credential /\ old.fingerprint # NoKey =>
                             print = old.fingerprint
    <3>1. SUFFICES ASSUME p # Bedrock, revision = old.credential, old.fingerprint # NoKey
                   PROVE  key = old.fingerprint
      BY <1>3
    <3>2. old.source \in {"NONE", "STORED", "ENVIRONMENT"}
      BY <1>1 DEF Provider, CredentialSources
    <3>3. CASE old.source = "ENVIRONMENT"
      BY <1>2, <3>1, <3>3 DEF Numbered
    <3> QED BY <1>3, <1>4, <1>6, <3>1, <3>2, <3>3
  <2>4. RowChange(p, old, passed)
    BY <1>2, <2>1, <2>2, <2>3 DEF RowChange
  <2> QED BY <1>1, <1>6, <2>1, <2>4, RowChangeKeepsInv DEF TestApply
<1> QED BY <1>5, <1>6 DEF TestApply

-------------------------------------------------------------------------------
(* Requests, the route and the jobs.                                       *)

\* A request that begins or is given up changes nothing else.
LEMMA RequestKeepsInv ==
    ASSUME RoutingInv, NEW a \in Admins, NEW request \in Request \union {Idle},
           admins' = [admins EXCEPT ![a] = request],
           request # Idle /\ request.op = "TEST" =>
               /\ request.seen = providers[request.provider].revision
               /\ request.key = KeyOf(providers[request.provider], request.provider),
           UNCHANGED <<providers, route, environment, jobs>>
    PROVE  RoutingInv'
<1> USE RoutingConstants DEF RoutingInv
<1>1. LlmTypeOK'
  BY DEF LlmTypeOK
<1>2. TestsUseTheirRow'
  <2> SUFFICES ASSUME NEW b \in Admins, Is(b, "TEST")'
               PROVE  LET test == admins'[b]
                          row == providers[test.provider]
                      IN  /\ test.seen <= row.revision
                          /\ test.provider # Bedrock => test.key # Role
                          /\ test.provider # Bedrock /\ test.seen = row.revision =>
                                /\ row.source = "STORED" => test.key = row.stored
                                /\ row.source = "NONE" => test.key = NoKey
    BY DEF TestsUseTheirRow
  <2>1. CASE b # a
    BY <2>1 DEF Is, LlmTypeOK, TestsUseTheirRow
  <2>2. CASE b = a
    <3>1. request = admins'[b] /\ request # Idle /\ request.op = "TEST"
      BY <2>2 DEF Is, LlmTypeOK
    <3> DEFINE q == request.provider
    <3>2. q \in Providers /\ request.seen \in Nat
      BY <3>1 DEF Request, Revision
    <3>3. providers[q] \in Provider /\ request.seen = providers[q].revision
      BY <3>1, <3>2 DEF LlmTypeOK
    <3>4. request.key = KeyOf(providers[q], q)
      BY <3>1
    <3>5. q # Bedrock => environment[q] \in MaybeKey
      BY <3>2 DEF LlmTypeOK
    <3>6. q # Bedrock => request.key # Role
      BY <3>3, <3>4, <3>5 DEF KeyOf, Provider, MaybeKey, CredentialSources
    <3>7. q # Bedrock => /\ providers[q].source = "STORED" => request.key = providers[q].stored
                         /\ providers[q].source = "NONE" => request.key = NoKey
      BY <3>4 DEF KeyOf
    <3> QED BY <3>1, <3>2, <3>3, <3>6, <3>7
  <2> QED BY <2>1, <2>2
<1>3. StoredKeysAreKnown' /\ SnapshotsPinTheirKey' /\ OthersHaveNoKey' /\ KeysAreVerified'
  BY DEF StoredKeysAreKnown, SnapshotsPinTheirKey, OthersHaveNoKey, KeysAreVerified,
         ActiveRouteIsBacked, JobsKeepTheirKey
<1> QED BY <1>1, <1>2, <1>3

LEMMA RequestsKeepInv ==
    ASSUME RoutingInv, NEW a \in Admins,
           Abandon(a) \/ ProviderLock(a) \/ TestBegin(a) \/ RouteLock(a)
    PROVE  RoutingInv'
<1>1. CASE Abandon(a)
  BY <1>1, RequestKeepsInv DEF Abandon, End
<1>2. CASE ProviderLock(a)
  <2>1. PICK p \in Providers : BeginRequest(a, [op |-> "PROVIDER", provider |-> p])
    BY <1>2 DEF ProviderLock
  <2>2. [op |-> "PROVIDER", provider |-> p] \in Request
    BY DEF Request
  <2> QED BY <2>1, <2>2, RequestKeepsInv DEF BeginRequest
<1>3. CASE RouteLock(a)
  <2>1. PICK p \in Providers :
           BeginRequest(a, [op |-> "ROUTE", provider |-> p, seen |-> route.revision])
    BY <1>3 DEF RouteLock
  <2>2. [op |-> "ROUTE", provider |-> p, seen |-> route.revision] \in Request
    BY DEF Request, RoutingInv, LlmTypeOK, Route
  <2> QED BY <2>1, <2>2, RequestKeepsInv DEF BeginRequest
<1>4. CASE TestBegin(a)
  <2>1. PICK p \in Providers :
           BeginRequest(a, [op |-> "TEST", provider |-> p, seen |-> providers[p].revision,
                     credential |-> providers[p].credential, key |-> KeyOf(providers[p], p)])
    BY <1>4 DEF TestBegin
  <2> DEFINE test == [op |-> "TEST", provider |-> p, seen |-> providers[p].revision,
                      credential |-> providers[p].credential, key |-> KeyOf(providers[p], p)]
  <2>2. providers[p] \in Provider /\ (p # Bedrock => environment[p] \in MaybeKey)
    BY DEF RoutingInv, LlmTypeOK
  <2>3. KeyOf(providers[p], p) \in MaybeKey \union {Role}
    <3>1. CASE p = Bedrock BY <3>1 DEF KeyOf
    <3>2. CASE p # Bedrock BY <2>2, <3>2 DEF KeyOf, Provider, MaybeKey, CredentialSources
    <3> QED BY <3>1, <3>2
  <2>4. test \in Request
    BY <2>2, <2>3 DEF Request, Provider
  <2> QED BY <2>1, <2>4, RequestKeepsInv DEF BeginRequest
<1> QED BY <1>1, <1>2, <1>3, <1>4

\* The environment is read when a key is resolved, and is part of no claim.
LEMMA EnvironmentKeepsInv ==
    ASSUME RoutingInv, NEW p \in Providers \ {Bedrock}, ChangeEnvironment(p)
    PROVE  RoutingInv'
BY DEF ChangeEnvironment, RoutingInv, LlmTypeOK, StoredKeysAreKnown, TestsUseTheirRow, Is,
       SnapshotsPinTheirKey, OthersHaveNoKey, KeysAreVerified, ActiveRouteIsBacked,
       JobsKeepTheirKey

\* A change of the route alone.
LEMMA RouteChangeKeepsInv ==
    ASSUME RoutingInv, NEW a \in Admins, NEW changed \in Route, RouteChange(a, changed),
           changed.state = "ACTIVE" =>
               /\ providers[changed.provider].approved
               /\ providers[changed.provider].credential = changed.credential
    PROVE  RoutingInv'
<1>1. /\ route' = [changed EXCEPT !.revision = @ + 1]
      /\ End(a) /\ UNCHANGED <<providers, environment, jobs>>
  BY DEF RouteChange
<1>2. /\ route' \in Route /\ route'.state = changed.state
      /\ route'.provider = changed.provider /\ route'.credential = changed.credential
  BY <1>1 DEF Route, Revision
<1>3. ActiveRouteIsBacked'
  BY <1>1, <1>2 DEF ActiveRouteIsBacked
<1>4. LlmTypeOK'
  BY <1>1, <1>2 DEF RoutingInv, LlmTypeOK, End
<1>5. TestsUseTheirRow'
  BY <1>1 DEF RoutingInv, LlmTypeOK, TestsUseTheirRow, Is, End
<1>6. StoredKeysAreKnown' /\ SnapshotsPinTheirKey' /\ OthersHaveNoKey' /\ JobsKeepTheirKey'
  BY <1>1 DEF RoutingInv, StoredKeysAreKnown, SnapshotsPinTheirKey, OthersHaveNoKey,
              KeysAreVerified, JobsKeepTheirKey
<1> QED BY <1>3, <1>4, <1>5, <1>6 DEF RoutingInv, KeysAreVerified

LEMMA RouteStepsKeepInv ==
    ASSUME RoutingInv, NEW a \in Admins, SaveRoute(a) \/ Activate(a) \/ Deactivate(a)
    PROVE  RoutingInv'
<1>0. /\ route \in Route /\ providers \in [Providers -> Provider]
  BY DEF RoutingInv, LlmTypeOK
<1>1. CASE SaveRoute(a)
  <2> DEFINE p == admins[a].provider
  <2>1. p \in Providers
    BY <1>1, RoutingConstants DEF SaveRoute, Is, RoutingInv, LlmTypeOK, Request
  <2>2. PICK quality \in BOOLEAN :
           RouteChange(a, [route EXCEPT !.provider = p, !.quality = quality, !.state = "DRAFT",
                                        !.credential = providers[p].credential])
    BY <1>1 DEF SaveRoute
  <2> DEFINE changed == [route EXCEPT !.provider = p, !.quality = quality, !.state = "DRAFT",
                                      !.credential = providers[p].credential]
  <2>3. providers[p].credential \in Revision
    BY <1>0, <2>1 DEF Provider
  <2>4. \A r \in Route : /\ [r EXCEPT !.provider = p] \in Route
                         /\ [r EXCEPT !.quality = quality] \in Route
                         /\ [r EXCEPT !.state = "DRAFT"] \in Route
                         /\ [r EXCEPT !.credential = providers[p].credential] \in Route
    BY <2>1, <2>3 DEF Route
  <2>5. changed = [[[[route EXCEPT !.provider = p] EXCEPT !.quality = quality]
                      EXCEPT !.state = "DRAFT"] EXCEPT !.credential = providers[p].credential]
    OBVIOUS
  <2>6. changed \in Route
    <3> HIDE DEF changed
    <3> QED BY <1>0, <2>4, <2>5
  <2>7. changed.state = "DRAFT"
    BY <1>0 DEF Route
  <2> QED BY <2>2, <2>6, <2>7, RouteChangeKeepsInv
<1>2. CASE Activate(a)
  <2> DEFINE row == providers[route.provider]
             changed == [route EXCEPT !.state = "ACTIVE", !.credential = row.credential]
  <2>1. route.provider \in Providers /\ row \in Provider
    BY <1>0 DEF Route
  <2>2. RouteChange(a, changed) /\ row.approved
    BY <1>2 DEF Activate, Ready
  <2>3. \A r \in Route : /\ [r EXCEPT !.state = "ACTIVE"] \in Route
                         /\ [r EXCEPT !.credential = row.credential] \in Route
    BY <2>1 DEF Route, Provider
  <2>4. changed = [[route EXCEPT !.state = "ACTIVE"] EXCEPT !.credential = row.credential]
    OBVIOUS
  <2>5. changed.provider = route.provider /\ changed.credential = row.credential
    BY <1>0 DEF Route
  <2> HIDE DEF changed
  <2>6. changed \in Route
    BY <1>0, <2>3, <2>4
  <2> QED BY <2>2, <2>5, <2>6, RouteChangeKeepsInv
<1>3. CASE Deactivate(a)
  <2> DEFINE changed == [route EXCEPT !.state = "DISABLED"]
  <2>1. changed \in Route /\ changed.state = "DISABLED"
    BY <1>0 DEF Route
  <2> QED BY <1>3, <2>1, RouteChangeKeepsInv DEF Deactivate
<1> QED BY <1>1, <1>2, <1>3

\* A step of one job leaves the rows, the requests and the other jobs alone.
LEMMA JobStepKeepsInv ==
    ASSUME RoutingInv, NEW j \in Jobs, NEW after \in Job, jobs' = [jobs EXCEPT ![j] = after],
           UNCHANGED <<providers, route, environment, admins>>,
           after.phase \in {"queued", "read", "ended"} =>
               /\ after.route \in Snapshot
               /\ after.route.provider = Bedrock => after.route.granted = Role
               /\ after.route.provider # Bedrock =>
                     /\ after.route.granted \in Keys
                     /\ after.route.credential <= providers[after.route.provider].credential
                     /\ Pins(providers[after.route.provider], after.route)
               /\ after.phase = "read" =>
                     /\ after.row \in Provider
                     /\ after.route.provider # Bedrock => Pins(after.row, after.route),
           after.phase # "ended" => after.key = NoKey,
           after.key # NoKey => after.key = after.route.granted
    PROVE  RoutingInv'
<1> USE DEF RoutingInv
<1>0. \A k \in Jobs : jobs'[k] = IF k = j THEN after ELSE jobs[k]
  BY DEF LlmTypeOK
<1>1. LlmTypeOK'
  BY DEF LlmTypeOK
<1>2. StoredKeysAreKnown' /\ TestsUseTheirRow' /\ ActiveRouteIsBacked'
  BY DEF StoredKeysAreKnown, TestsUseTheirRow, Is, KeysAreVerified, ActiveRouteIsBacked
<1>3. SnapshotsPinTheirKey'
  BY <1>0 DEF SnapshotsPinTheirKey, Pins
<1>4. OthersHaveNoKey' /\ JobsKeepTheirKey'
  BY <1>0 DEF OthersHaveNoKey, KeysAreVerified, JobsKeepTheirKey
<1> QED BY <1>1, <1>2, <1>3, <1>4 DEF KeysAreVerified

LEMMA JobStepsKeepInv ==
    ASSUME RoutingInv, NEW j \in Jobs,
           \/ SnapshotLock(j) \/ SnapshotRead(j) \/ ReadProvider(j)
           \/ BuildModel(j) \/ RunAgain(j)
    PROVE  RoutingInv'
<1> DEFINE old == jobs[j]
           s == old.route
<1>0. old \in Job /\ jobs \in [Jobs -> Job] /\ providers \in [Providers -> Provider]
  BY DEF RoutingInv, LlmTypeOK
<1>1. old.phase # "ended" => old.key = NoKey
  BY DEF RoutingInv, OthersHaveNoKey
<1>2. old.phase \in {"queued", "read", "ended"} =>
         /\ s \in Snapshot
         /\ s.provider = Bedrock => s.granted = Role
         /\ s.provider # Bedrock => /\ s.granted \in Keys
                                    /\ s.credential <= providers[s.provider].credential
                                    /\ Pins(providers[s.provider], s)
         /\ old.phase = "read" =>
               /\ old.row \in Provider
               /\ s.provider # Bedrock => Pins(old.row, s)
  BY DEF RoutingInv, SnapshotsPinTheirKey
<1>3. CASE SnapshotLock(j)
  <2> DEFINE new == [old EXCEPT !.phase = "locking"]
  <2>1. new \in Job /\ new.phase = "locking" /\ new.key = NoKey
    BY <1>0, <1>1, <1>3 DEF Job, SnapshotLock
  <2>2. jobs' = [jobs EXCEPT ![j] = new] /\ UNCHANGED <<providers, route, environment, admins>>
    BY <1>3 DEF SnapshotLock
  <2> HIDE DEF new
  <2> QED BY <2>1, <2>2, JobStepKeepsInv
<1>4. CASE SnapshotRead(j)
  <2> DEFINE p == route.provider
             row == providers[p]
             granted == KeyOf(row, p)
             snapshot == [provider |-> p, source |-> row.source, credential |-> row.credential,
                          granted |-> granted]
             queued == [old EXCEPT !.phase = "queued", !.route = snapshot]
             refused == [old EXCEPT !.phase = "none"]
  <2>1. p \in Providers /\ row \in Provider /\ row.credential \in Nat
    BY <1>0 DEF RoutingInv, LlmTypeOK, Route, Provider, Revision
  <2>2. old.key = NoKey /\ UNCHANGED <<providers, route, environment, admins>>
    BY <1>1, <1>4 DEF SnapshotRead
  <2>3. CASE Ready(route, row)
    <3>1. /\ p = Bedrock => granted = Role
          /\ p # Bedrock => granted \in Keys /\ granted = row.fingerprint
      BY <2>1, <2>3 DEF Ready, KeyOf, Provider, MaybeKey
    <3>2. snapshot \in Snapshot
      BY <2>1, <3>1 DEF Snapshot, Provider
    <3>3. queued \in Job /\ queued.phase = "queued" /\ queued.key = NoKey /\ queued.route = snapshot
      <4>1. \A r \in Job : /\ [r EXCEPT !.phase = "queued"] \in Job
                           /\ [r EXCEPT !.route = snapshot] \in Job
        BY <3>2 DEF Job
      <4>2. queued = [[old EXCEPT !.phase = "queued"] EXCEPT !.route = snapshot]
        OBVIOUS
      <4>3. queued.phase = "queued" /\ queued.key = NoKey /\ queued.route = snapshot
        BY <1>0, <2>2 DEF Job
      <4> HIDE DEF queued, snapshot
      <4> QED BY <1>0, <4>1, <4>2, <4>3
    <3>4. jobs' = [jobs EXCEPT ![j] = queued]
      BY <1>4, <2>3 DEF SnapshotRead
    <3>5. /\ snapshot.provider = p /\ snapshot.granted = granted
          /\ snapshot.credential = row.credential
      OBVIOUS
    <3>6. p # Bedrock => Pins(row, snapshot) /\ snapshot.credential <= row.credential
      BY <2>1, <3>1, <3>5 DEF Pins
    <3> HIDE DEF queued, snapshot
    <3> QED BY <2>2, <3>1, <3>2, <3>3, <3>4, <3>5, <3>6, JobStepKeepsInv
  <2>4. CASE ~ Ready(route, row)
    <3>1. refused \in Job /\ refused.phase = "none" /\ refused.key = NoKey
      BY <1>0, <2>2 DEF Job
    <3>2. jobs' = [jobs EXCEPT ![j] = refused]
      BY <1>4, <2>4 DEF SnapshotRead
    <3> HIDE DEF refused
    <3> QED BY <2>2, <3>1, <3>2, JobStepKeepsInv
  <2> QED BY <2>3, <2>4
<1>5. CASE ReadProvider(j)
  <2> DEFINE row == providers[s.provider]
             new == [old EXCEPT !.phase = "read", !.row = row]
  <2>1. s \in Snapshot /\ row \in Provider /\ old.key = NoKey
    BY <1>0, <1>1, <1>2, <1>5 DEF ReadProvider, Snapshot
  <2>2. /\ jobs' = [jobs EXCEPT ![j] = new] /\ UNCHANGED <<providers, route, environment, admins>>
    BY <1>5 DEF ReadProvider
  <2>3. new.phase = "read" /\ new.row = row /\ new.route = s /\ new.key = NoKey
    BY <1>0, <2>1 DEF Job
  <2>4. new \in Job
    <3>1. \A r \in Job : [r EXCEPT !.phase = "read"] \in Job /\ [r EXCEPT !.row = row] \in Job
      BY <2>1 DEF Job
    <3>2. new = [[old EXCEPT !.phase = "read"] EXCEPT !.row = row]
      OBVIOUS
    <3> HIDE DEF new
    <3> QED BY <1>0, <3>1, <3>2
  <2>5. /\ s.provider = Bedrock => s.granted = Role
        /\ s.provider # Bedrock => /\ s.granted \in Keys
                                   /\ s.credential <= row.credential /\ Pins(row, s)
    BY <1>2, <1>5 DEF ReadProvider
  <2> HIDE DEF new
  <2> QED BY <2>1, <2>2, <2>3, <2>4, <2>5, JobStepKeepsInv
<1>6. CASE BuildModel(j)
  <2> DEFINE used == KeyOf(old.row, s.provider)
             key == IF Usable(s, old.row, used) THEN used ELSE NoKey
             new == [old EXCEPT !.phase = "ended", !.row = NoRoute, !.key = key]
  <2>1. /\ jobs' = [jobs EXCEPT ![j] = new] /\ UNCHANGED <<providers, route, environment, admins>>
    BY <1>6 DEF BuildModel
  <2>2. key # NoKey => key = s.granted
    <3>1. SUFFICES ASSUME Usable(s, old.row, used), used # NoKey
                   PROVE  used = s.granted
      OBVIOUS
    <3>2. CASE s.provider = Bedrock
      BY <1>2, <1>6, <3>2 DEF BuildModel, KeyOf
    <3>3. CASE s.provider # Bedrock
      BY <1>2, <1>6, <3>1, <3>3 DEF BuildModel, Usable, Pins
    <3> QED BY <3>2, <3>3
  <2>3. s \in Snapshot
    BY <1>2, <1>6 DEF BuildModel
  <2>4. key \in MaybeKey \union {Role}
    BY <2>2, <2>3 DEF Snapshot, MaybeKey
  <2> HIDE DEF key
  <2>5. new.phase = "ended" /\ new.route = s /\ new.key = key
    BY <1>0 DEF Job
  <2>6. new \in Job
    <3>1. \A r \in Job : /\ [r EXCEPT !.phase = "ended"] \in Job
                         /\ [r EXCEPT !.row = NoRoute] \in Job
                         /\ [r EXCEPT !.key = key] \in Job
      BY <2>4 DEF Job
    <3>2. new = [[[old EXCEPT !.phase = "ended"] EXCEPT !.row = NoRoute] EXCEPT !.key = key]
      OBVIOUS
    <3> HIDE DEF new
    <3> QED BY <1>0, <3>1, <3>2
  <2>7. /\ s.provider = Bedrock => s.granted = Role
        /\ s.provider # Bedrock => /\ s.granted \in Keys
                                   /\ s.credential <= providers[s.provider].credential
                                   /\ Pins(providers[s.provider], s)
    BY <1>2, <1>6 DEF BuildModel
  <2> HIDE DEF new
  <2> QED BY <2>1, <2>2, <2>3, <2>5, <2>6, <2>7, JobStepKeepsInv
<1>7. CASE RunAgain(j)
  <2> DEFINE new == [old EXCEPT !.phase = "queued", !.key = NoKey]
  <2>1. /\ jobs' = [jobs EXCEPT ![j] = new] /\ UNCHANGED <<providers, route, environment, admins>>
    BY <1>7 DEF RunAgain
  <2>2. new.phase = "queued" /\ new.route = s /\ new.key = NoKey
    BY <1>0 DEF Job
  <2>3. new \in Job
    <3>1. \A r \in Job : [r EXCEPT !.phase = "queued"] \in Job /\ [r EXCEPT !.key = NoKey] \in Job
      BY DEF Job, MaybeKey
    <3>2. new = [[old EXCEPT !.phase = "queued"] EXCEPT !.key = NoKey]
      OBVIOUS
    <3> HIDE DEF new
    <3> QED BY <1>0, <3>1, <3>2
  <2>4. /\ s \in Snapshot
        /\ s.provider = Bedrock => s.granted = Role
        /\ s.provider # Bedrock => /\ s.granted \in Keys
                                   /\ s.credential <= providers[s.provider].credential
                                   /\ Pins(providers[s.provider], s)
    BY <1>2, <1>7 DEF RunAgain
  <2> HIDE DEF new
  <2> QED BY <2>1, <2>2, <2>3, <2>4, JobStepKeepsInv
<1> QED BY <1>3, <1>4, <1>5, <1>6, <1>7

-------------------------------------------------------------------------------
(* The theorem.                                                            *)

LEMMA NextRouting == RoutingInv /\ [LlmNext]_llmVars => RoutingInv'
<1> SUFFICES ASSUME RoutingInv, [LlmNext]_llmVars PROVE RoutingInv'
  OBVIOUS
<1>1. ASSUME NEW a \in Admins, \/ Abandon(a) \/ ProviderLock(a) \/ TestBegin(a) \/ RouteLock(a)
      PROVE  RoutingInv'
  BY <1>1, RequestsKeepInv
<1>2. ASSUME NEW a \in Admins, SaveRoute(a) \/ Activate(a) \/ Deactivate(a) PROVE RoutingInv'
  BY <1>2, RouteStepsKeepInv
<1>3. CASE UNCHANGED llmVars
  BY <1>3 DEF llmVars, RoutingInv, LlmTypeOK, StoredKeysAreKnown, TestsUseTheirRow, Is,
              SnapshotsPinTheirKey, OthersHaveNoKey, KeysAreVerified, ActiveRouteIsBacked,
              JobsKeepTheirKey
<1> QED
  BY <1>1, <1>2, <1>3, UpdateProviderKeepsInv, DeleteCredentialKeepsInv, TestApplyKeepsInv,
     EnvironmentKeepsInv, JobStepsKeepInv DEF LlmNext

\* From a route's activation to the last call of a job, the key in use is the one
\* that was verified for it, for any number of providers, keys, jobs and changes,
\* and however administrators, tests and restarts overlap (llm_providers.py:756,
\* semantic_citation.py:1952).
THEOREM KeysStayVerified == LlmSpec => []KeysAreVerified
<1>1. LlmSpec => []RoutingInv
  BY InitRouting, NextRouting, PTL DEF LlmSpec
<1>2. RoutingInv => KeysAreVerified
  BY DEF RoutingInv
<1> QED BY <1>1, <1>2, PTL
===============================================================================
