---------------------------- MODULE CitationProofs ----------------------------
(***************************************************************************)
(* Theorems about BibliographyParsing and CitationFindings, for any        *)
(* documents, answers of the providers and limits.                         *)
(*                                                                         *)
(* That an orphan is certain is a fact about the whole parser: unless a    *)
(* report is uncertain, every number printed in front of an entry has      *)
(* become the number of a group and of a reference, so a marker with such  *)
(* a number has a match. The groups, numbers and markers are recursive     *)
(* functions of a place in the document; what holds at every place is      *)
(* proved with the set of the places it holds at (UpTheLine).              *)
(*                                                                         *)
(* That a report is complete is a matter of counting: the rows of problems *)
(* are a list of a set, each of them once (Lists), a row is told by its id *)
(* and status, so none is lost when rows are made one, and the findings of *)
(* a criterion are as many as the rows, up to the limit. The invariant     *)
(* (CitationInv) says that what a job that is done has is what one attempt *)
(* writes, whole, and that all there ever is is deleted by the next one.   *)
(***************************************************************************)
EXTENDS CitationFindings, TLAPS, FiniteSetTheorems, WellFoundedInduction

-------------------------------------------------------------------------------
(* What the folds and lists of the model are.                              *)

\* What holds of 0 and is handed on holds up to the end: induction, with the set of
\* numbers that the claim holds of for the claim.
LEMMA UpTheLine ==
    ASSUME NEW N \in Nat, NEW P, 0 \in P, \A n \in 0..N : n > 0 /\ n - 1 \in P => n \in P
    PROVE  0..N \subseteq P
<1> DEFINE T == {n \in Nat : n \in 0..N /\ n \notin P}
<1> SUFFICES ASSUME T # {} PROVE FALSE
  OBVIOUS
<1>1. PICK m \in T : \A l \in T : ~(<<l, m>> \in OpToRel(<, Nat))
  <2>1. T \subseteq Nat /\ T # {}
    OBVIOUS
  <2> HIDE DEF T
  <2> QED BY <2>1, WFMin, NatLessThanWellFounded
<1>2. m \in Nat /\ m \in 0..N /\ m \notin P /\ m > 0
  <2>1. m \in T
    OBVIOUS
  <2>2. m \in Nat /\ m \in 0..N /\ m \notin P
    BY <2>1
  <2>3. m # 0
    BY <2>2
  <2> QED BY <2>2, <2>3
<1>3. m - 1 \in Nat /\ m - 1 \in 0..N /\ <<m - 1, m>> \in OpToRel(<, Nat)
  BY <1>2 DEF OpToRel
<1>4. m - 1 \notin T
  BY <1>1, <1>3
<1> QED BY <1>2, <1>3, <1>4

\* What the concatenation of two lists is.
LEMMA Joined ==
    ASSUME NEW S, NEW s \in Seq(S), NEW t \in Seq(S)
    PROVE  /\ s \o t \in Seq(S) /\ Len(s \o t) = Len(s) + Len(t)
           /\ \A i \in 1..Len(s) : (s \o t)[i] = s[i]
           /\ \A i \in 1..Len(t) : (s \o t)[Len(s) + i] = t[i]
  OBVIOUS

\* A function of 1 to n is a list.
LEMMA FunctionIsList ==
    ASSUME NEW S, NEW n \in Nat, NEW f \in [1..n -> S]
    PROVE  f \in Seq(S) /\ Len(f) = n /\ DOMAIN f = 1..n
  OBVIOUS

\* A function that begins with a value and goes on by a step, and that there is one.
IsFold(f, N, S, first, Step) ==
    f \in [0..N -> S] /\ f[0] = first /\ \A n \in 1..N : f[n] = Step[n][f[n - 1]]

\* There is one for every step, so a recursive definition has what it asks for.
LEMMA FoldExists ==
    ASSUME NEW N \in Nat, NEW S, NEW first \in S, NEW Step \in [1..N -> [S -> S]]
    PROVE  \E f : IsFold(f, N, S, first, Step)
<1> DEFINE Good(m, f) == /\ f \in [0..m -> S] /\ f[0] = first
                         /\ \A n \in 1..m : f[n] = Step[n][f[n - 1]]
           P == {m \in Nat : m <= N => \E f : Good(m, f)}
<1> HIDE DEF Good, P
<1>1. 0 \in P
  <2>1. Good(0, [n \in 0..0 |-> first])
    BY DEF Good
  <2> QED BY <2>1 DEF P
<1>2. ASSUME NEW n \in 0..N, n > 0, n - 1 \in P PROVE n \in P
  <2>1. n \in Nat /\ n - 1 \in Nat /\ n - 1 <= N
    BY <1>2
  <2>2. PICK f : Good(n - 1, f)
    BY <1>2, <2>1 DEF P
  <2> DEFINE g == [i \in 0..n |-> IF i = n THEN Step[n][f[n - 1]] ELSE f[i]]
  <2>3. f \in [0..n - 1 -> S] /\ f[0] = first
    BY <2>2 DEF Good
  <2>4. f[n - 1] \in S /\ Step[n][f[n - 1]] \in S
    BY <1>2, <2>1, <2>3
  <2>5. g \in [0..n -> S] /\ g[0] = first
    BY <1>2, <2>1, <2>3, <2>4
  <2>6. ASSUME NEW i \in 1..n PROVE g[i] = Step[i][g[i - 1]]
    <3>1. CASE i = n
      <4>1. g[i] = Step[n][f[n - 1]] /\ g[i - 1] = f[n - 1]
        BY <3>1, <1>2, <2>1
      <4> QED BY <3>1, <4>1
    <3>2. CASE i # n
      <4>1. i \in 1..n - 1 /\ i \in 0..n /\ i - 1 \in 0..n /\ i - 1 # n
        BY <3>2, <2>1
      <4>2. g[i] = f[i] /\ g[i - 1] = f[i - 1]
        BY <3>2, <4>1
      <4>3. f[i] = Step[i][f[i - 1]]
        BY <2>2, <4>1 DEF Good
      <4> QED BY <4>2, <4>3
    <3> QED BY <3>1, <3>2
  <2> HIDE DEF g
  <2>7. Good(n, g)
    BY <2>5, <2>6 DEF Good
  <2> QED BY <2>1, <2>7 DEF P
<1>3. N \in P
  <2>1. 0..N \subseteq P
    BY <1>1, <1>2, UpTheLine
  <2> QED BY <2>1
<1>4. PICK f : Good(N, f)
  BY <1>3 DEF P
<1>5. f \in [0..N -> S] /\ f[0] = first /\ \A n \in 1..N : f[n] = Step[n][f[n - 1]]
  BY <1>4 DEF Good
<1> QED BY <1>5 DEF IsFold

\* Of some numbers there is a k-th, for every k up to how many they are.
LEMMA Ranked ==
    ASSUME NEW n \in Nat, NEW P \in SUBSET (1..n), NEW k \in 1..Cardinality(P)
    PROVE  \E i \in P : Cardinality({j \in P : j <= i}) = k
<1> DEFINE Upto(m) == {j \in P : j <= m}
           T == {m \in Nat : k <= Cardinality(Upto(m))}
<1>0. \A j \in P : j \in Nat /\ 1 <= j /\ j <= n
  OBVIOUS
<1>1. IsFiniteSet(P)
  <2>1. IsFiniteSet(1..n)
    BY FS_Interval
  <2> QED BY <2>1, FS_Subset
<1>2. \A m \in Nat : IsFiniteSet(Upto(m)) /\ Cardinality(Upto(m)) \in Nat
  BY <1>1, FS_Subset, FS_CardinalityType
<1>3. Upto(n) = P
  BY <1>0
<1>4. Cardinality(P) \in Nat /\ k \in Nat /\ k >= 1
  BY <1>1, FS_CardinalityType
<1>5. n \in T
  <2> HIDE DEF Upto
  <2> QED BY <1>3, <1>4
<1>6. PICK m \in T : \A l \in T : ~(<<l, m>> \in OpToRel(<, Nat))
  <2>1. T \subseteq Nat /\ T # {}
    BY <1>5
  <2> HIDE DEF T
  <2> QED BY <2>1, WFMin, NatLessThanWellFounded
<1>7. m \in Nat /\ k <= Cardinality(Upto(m))
  BY <1>6
<1>8. m # 0
  <2>0. \A j \in P : ~(j <= 0)
    BY <1>0
  <2>1. Upto(0) = {}
    BY <2>0
  <2>2. Cardinality(Upto(0)) = 0
    BY <2>1, FS_EmptySet
  <2> HIDE DEF Upto
  <2> QED BY <1>4, <1>7, <2>2
<1>9. m - 1 \in Nat /\ m - 1 \notin T
  <2>1. m - 1 \in Nat /\ m - 1 < m
    BY <1>7, <1>8
  <2>2. <<m - 1, m>> \in OpToRel(<, Nat)
    BY <1>7, <2>1 DEF OpToRel
  <2> QED BY <1>6, <2>1, <2>2
<1>10. Cardinality(Upto(m - 1)) < k
  <2>1. ~(k <= Cardinality(Upto(m - 1)))
    BY <1>9
  <2> HIDE DEF Upto
  <2> QED BY <1>2, <1>4, <1>9, <2>1
<1>11. Upto(m) = Upto(m - 1) \union (IF m \in P THEN {m} ELSE {})
  <2>1. \A j \in P : j <= m <=> j <= m - 1 \/ j = m
    BY <1>0, <1>7
  <2>2. m \in P => m \in Upto(m)
    BY <1>7
  <2> QED BY <1>0, <1>7, <2>1, <2>2
<1>12. m \notin Upto(m - 1)
  BY <1>7
<1> HIDE DEF Upto, T
<1>13. m \in P
  <2> SUFFICES ASSUME m \notin P PROVE FALSE
    OBVIOUS
  <2>1. Upto(m) = Upto(m - 1)
    BY <1>11
  <2> QED BY <1>2, <1>4, <1>7, <1>9, <1>10, <2>1
<1>14. Cardinality(Upto(m)) = Cardinality(Upto(m - 1)) + 1
  <2>1. Upto(m) = Upto(m - 1) \union {m}
    BY <1>11, <1>13
  <2>2. IsFiniteSet(Upto(m - 1))
    BY <1>2, <1>9
  <2> QED BY <1>12, <2>1, <2>2, FS_AddElement
<1>15. Cardinality(Upto(m)) = k
  BY <1>2, <1>4, <1>7, <1>9, <1>10, <1>14
<1> QED BY <1>13, <1>15 DEF Upto

\* Two sets have the same size if one is counted off by the other.
LEMMA SameSize ==
    ASSUME NEW S, IsFiniteSet(S), NEW T, NEW f \in [S -> T],
           \A x \in S : \A y \in S : f[x] = f[y] => x = y,
           \A z \in T : \E x \in S : f[x] = z
    PROVE  IsFiniteSet(T) /\ Cardinality(T) = Cardinality(S)
<1>1. f \in Bijection(S, T)
  BY DEF Bijection, Injection, Surjection, IsInjective
<1> QED BY <1>1, FS_Bijection DEF ExistsBijection

\* InOrder lists each place once, and nothing else.
EachOnce(order, P) ==
    /\ IsFiniteSet(P) /\ Cardinality(P) \in Nat
    /\ order \in [1..Cardinality(P) -> P]
    /\ \A k \in 1..Cardinality(P) : \A l \in 1..Cardinality(P) : order[k] = order[l] => k = l
    /\ \A i \in P : \E k \in 1..Cardinality(P) : order[k] = i

\* InOrder lists the places of a set of numbers.
LEMMA Listed ==
    ASSUME NEW n \in Nat, NEW P \in SUBSET (1..n)
    PROVE  EachOnce(InOrder(P), P)
<1> DEFINE Upto(m) == {j \in P : j <= m}
           s == InOrder(P)
           c == Cardinality(P)
<1>1. IsFiniteSet(P) /\ c \in Nat
  <2>1. IsFiniteSet(1..n)
    BY FS_Interval
  <2> QED BY <2>1, FS_Subset, FS_CardinalityType
<1>2. s = [k \in 1..c |-> CHOOSE i \in P : Cardinality(Upto(i)) = k]
  BY DEF InOrder
<1>3. \A k \in 1..c : \E i \in P : Cardinality(Upto(i)) = k
  BY Ranked
<1>4. \A i \in P : i \in Nat /\ IsFiniteSet(Upto(i)) /\ Cardinality(Upto(i)) \in 1..c
  <2> TAKE i \in P
  <2>1. i \in Nat /\ i \in Upto(i) /\ Upto(i) \in SUBSET P
    OBVIOUS
  <2>2. IsFiniteSet(Upto(i)) /\ Cardinality(Upto(i)) <= c
    BY <1>1, <2>1, FS_Subset
  <2>3. Cardinality(Upto(i)) \in Nat /\ Cardinality(Upto(i)) # 0
    BY <2>1, <2>2, FS_CardinalityType, FS_EmptySet
  <2> QED BY <1>1, <2>1, <2>2, <2>3
<1>5. \A i \in P : \A j \in P : Cardinality(Upto(i)) = Cardinality(Upto(j)) => i = j
  <2>1. ASSUME NEW i \in P, NEW j \in P, i < j PROVE Cardinality(Upto(i)) # Cardinality(Upto(j))
    <3>0. i \in Int /\ j \in Int /\ \A l \in P : l \in Int
      OBVIOUS
    <3>a. \A l \in P : l <= i => l <= j
      BY <2>1, <3>0
    <3>b. j <= j /\ ~(j <= i)
      BY <2>1, <3>0
    <3>1. Upto(i) \in SUBSET Upto(j) /\ j \in Upto(j) /\ j \notin Upto(i)
      BY <3>a, <3>b
    <3>2. Upto(i) # Upto(j)
      BY <3>1
    <3> QED BY <1>4, <3>1, <3>2, FS_Subset
  <2>2. \A i \in P : \A j \in P : i = j \/ i < j \/ j < i
    OBVIOUS
  <2> HIDE DEF Upto
  <2> QED BY <2>1, <2>2
<1> HIDE DEF Upto, s, c
<1>6. \A k \in 1..c : s[k] \in P /\ Cardinality(Upto(s[k])) = k
  BY <1>2, <1>3
<1>7. DOMAIN s = 1..c /\ s \in [1..c -> P]
  BY <1>2, <1>6
<1>8. \A k \in 1..c : \A l \in 1..c : s[k] = s[l] => k = l
  BY <1>6
<1>9. \A i \in P : \E k \in 1..c : s[k] = i
  <2> TAKE i \in P
  <2>1. Cardinality(Upto(i)) \in 1..c
    BY <1>4
  <2>2. s[Cardinality(Upto(i))] = i
    BY <1>5, <1>6, <2>1
  <2> QED BY <2>1, <2>2
<1> QED BY <1>1, <1>7, <1>8, <1>9 DEF s, c, EachOnce

\* What an ordered list is made of.
LEMMA OrderedTyped ==
    ASSUME NEW n \in Nat, NEW at, DOMAIN at \in SUBSET (1..n), NEW S,
           \A i \in DOMAIN at : at[i] \in S
    PROVE  /\ Ordered(at) \in Seq(S) /\ Len(Ordered(at)) = Cardinality(DOMAIN at)
           /\ \A i \in DOMAIN at : \E k \in 1..Len(Ordered(at)) : Ordered(at)[k] = at[i]
           /\ (\A i \in DOMAIN at : \A j \in DOMAIN at : at[i] = at[j] => i = j) =>
                 \A k \in 1..Len(Ordered(at)) : \A l \in 1..Len(Ordered(at)) :
                    Ordered(at)[k] = Ordered(at)[l] => k = l
<1> DEFINE P == DOMAIN at
           order == InOrder(P)
           c == Cardinality(P)
           s == Ordered(at)
<1>1. /\ c \in Nat /\ DOMAIN order = 1..c /\ order \in [1..c -> P] /\ IsFiniteSet(P)
      /\ \A k \in 1..c : \A l \in 1..c : order[k] = order[l] => k = l
      /\ \A i \in P : \E k \in 1..c : order[k] = i
  <2> HIDE DEF order, P
  <2>1. P \in SUBSET (1..n)
    BY DEF P
  <2>2. EachOnce(order, P)
    BY <2>1, Listed DEF order
  <2> QED BY <2>2 DEF EachOnce
<1>2. s = [k \in DOMAIN order |-> at[order[k]]]
  BY DEF Ordered
<1> HIDE DEF order, c, s
<1>3. s \in [1..c -> S] /\ \A k \in 1..c : s[k] = at[order[k]] /\ order[k] \in P
  BY <1>1, <1>2
<1>4. s \in Seq(S) /\ Len(s) = c
  BY <1>1, <1>3, FunctionIsList
<1>5. ASSUME NEW i \in P PROVE \E k \in 1..c : s[k] = at[i]
  <2>1. PICK k \in 1..c : order[k] = i
    BY <1>1
  <2> QED BY <1>3, <2>1
<1>6. ASSUME \A i \in P : \A j \in P : at[i] = at[j] => i = j,
             NEW k \in 1..c, NEW l \in 1..c, s[k] = s[l]
      PROVE  k = l
  <2>1. order[k] \in P /\ order[l] \in P /\ at[order[k]] = at[order[l]]
    BY <1>3, <1>6
  <2>2. order[k] = order[l]
    BY <1>6, <2>1
  <2> QED BY <1>1, <2>2
<1> HIDE DEF P
<1>7. P = DOMAIN at
  BY DEF P
<1> QED BY <1>4, <1>5, <1>6, <1>7 DEF s, c

-------------------------------------------------------------------------------
(* The groups of paragraphs.                                               *)

AnchorLists == {a \in Seq(Positions) : a # << >>}
GroupForms == [number : Nat, work : Works, breaks : BOOLEAN, anchors : AnchorLists]
GroupLists == {g \in Seq(GroupForms) : Len(g) <= MaxReferences + 1}
Collections == [taken : SUBSET Positions, groups : GroupLists]

\* Going on with the last group leaves the numbers as they are.
LEMMA ContinuedGroups ==
    ASSUME NEW groups \in Seq(GroupForms), groups # << >>, NEW breaks \in BOOLEAN,
           NEW at \in Positions
    PROVE  /\ Continued(groups, breaks, at) \in Seq(GroupForms)
           /\ Len(Continued(groups, breaks, at)) = Len(groups)
           /\ \A i \in 1..Len(groups) :
                 Continued(groups, breaks, at)[i].number = groups[i].number
<1> DEFINE n == Len(groups)
           last == [groups[n] EXCEPT !.breaks = breaks, !.anchors = Append(@, at)]
<1>1. n \in 1..Len(groups) /\ groups[n] \in GroupForms
  OBVIOUS
<1>2. Append(groups[n].anchors, at) \in AnchorLists
  <2>1. groups[n].anchors \in Seq(Positions)
    BY <1>1 DEF GroupForms, AnchorLists
  <2>2. Append(groups[n].anchors, at) \in Seq(Positions)
        /\ Len(Append(groups[n].anchors, at)) = Len(groups[n].anchors) + 1
    BY <2>1
  <2>3. Append(groups[n].anchors, at) # << >>
    BY <2>1, <2>2
  <2> QED BY <2>2, <2>3 DEF AnchorLists
<1>3. last \in GroupForms /\ last.number = groups[n].number
  BY <1>1, <1>2 DEF GroupForms
<1>4. Continued(groups, breaks, at) = [groups EXCEPT ![n] = last]
  BY <1>1 DEF Continued
<1> HIDE DEF last
<1>5. [groups EXCEPT ![n] = last] \in Seq(GroupForms)
  BY <1>1, <1>3
<1>6. Len([groups EXCEPT ![n] = last]) = Len(groups)
  BY <1>1
<1>7. \A i \in 1..Len(groups) : [groups EXCEPT ![n] = last][i].number = groups[i].number
  BY <1>1, <1>3
<1> QED BY <1>4, <1>5, <1>6, <1>7

\* The entries of a paragraph become groups with their numbers.
LEMMA StartedGroups ==
    ASSUME NEW p \in ParagraphForms, NEW at \in Positions
    PROVE  /\ Started(p, at) \in Seq(GroupForms)
           /\ Len(Started(p, at)) = Len(p.entries)
           /\ \A i \in 1..Len(p.entries) : Started(p, at)[i].number = p.entries[i].number
<1>1. p.entries \in Seq(EntryForms)
  BY DEF ParagraphForms
<1>2. <<at>> \in AnchorLists
  BY DEF AnchorLists
<1>3. \A i \in 1..Len(p.entries) : Group(p.entries[i], at) \in GroupForms
                                  /\ Group(p.entries[i], at).number = p.entries[i].number
  <2> TAKE i \in 1..Len(p.entries)
  <2>1. p.entries[i] \in EntryForms
    BY <1>1
  <2> QED BY <1>2, <2>1 DEF Group, EntryForms, GroupForms
<1> QED BY <1>1, <1>3 DEF Started

\* The ways a paragraph can go, without the conditions but for what the groups are.
Room(groups) == MaxReferences + 1 - Len(groups)

Filled(before, p, at, room) ==
    before \o SubSeq(Started(p, at), 1, IF room < Len(Started(p, at)) THEN room
                                        ELSE Len(Started(p, at)))

EntriesStart(p, at, groups, new) ==
    /\ Room(groups) > 0 /\ p.kind = "entries"
    /\ \E before \in {groups, Continued(groups, FALSE, at)} :
          /\ groups = << >> => before = groups
          /\ new = Filled(before, p, at, Room(groups))

OneStarts(p, at, groups, new) ==
    Room(groups) > 0 /\ p.kind # "entries" /\ new = groups \o Started(p, at)

OneGoesOn(p, at, groups, new) ==
    p.kind # "entries" /\ groups # << >> /\ new = Continued(groups, p.breaks, at)

NothingStarts(p, groups, new) ==
    (Room(groups) = 0 \/ p.kind # "entries") /\ new = groups

\* One paragraph of a bibliography: what happens to the groups, case by case.
LEMMA CollectedGroups ==
    ASSUME NEW p \in ParagraphForms, NEW at \in Positions, NEW acc \in Collections
    PROVE  /\ Collect(p, at, acc) = [taken |-> Collect(p, at, acc).taken,
                                     groups |-> Collect(p, at, acc).groups]
           /\ Collect(p, at, acc).taken \in {acc.taken, acc.taken \union {at}}
           /\ \/ EntriesStart(p, at, acc.groups, Collect(p, at, acc).groups)
              \/ OneStarts(p, at, acc.groups, Collect(p, at, acc).groups)
              \/ OneGoesOn(p, at, acc.groups, Collect(p, at, acc).groups)
              \/ NothingStarts(p, acc.groups, Collect(p, at, acc).groups)
<1> DEFINE groups == acc.groups
           room == MaxReferences + 1 - Len(groups)
           active == groups # << >>
           numbered == active /\ Last(groups).number # 0
           took == acc.taken \union {at}
           started == Started(p, at)
           before == IF p.prefix /\ active THEN Continued(groups, FALSE, at) ELSE groups
           new == Collect(p, at, acc)
<1>0. /\ acc = [taken |-> acc.taken, groups |-> acc.groups]
      /\ groups \in Seq(GroupForms) /\ Len(groups) \in Nat /\ Len(groups) <= MaxReferences + 1
  BY DEF Collections, GroupLists
<1>1. room \in Nat
  BY <1>0, ParsingConstants
<1>2. p.kind \in {"entries", "author", "note", "bibliographic", "prose"}
  BY DEF ParagraphForms
<1>3. new = CASE room = 0 -> [acc EXCEPT !.taken = took]
         [] room > 0 /\ p.kind = "entries" ->
              [taken |-> took,
               groups |-> before \o SubSeq(started, 1, IF room < Len(started) THEN room
                                                       ELSE Len(started))]
         [] room > 0 /\ p.kind = "author" /\ ~numbered ->
              [taken |-> took, groups |-> groups \o started]
         [] room > 0 /\ p.kind = "note" /\ numbered -> acc
         [] room > 0 /\ p.kind \in {"note", "bibliographic"} /\ ~active ->
              [taken |-> took, groups |-> started]
         [] room > 0 /\ p.kind = "prose" /\ ~active -> acc
         [] OTHER -> [taken |-> took, groups |-> Continued(groups, p.breaks, at)]
  BY DEF Collect
<1>4. ~active => groups \o started = started
  BY StartedGroups
<1>a. active \in BOOLEAN /\ numbered \in BOOLEAN /\ (numbered => active)
  OBVIOUS
<1> HIDE DEF room, active, numbered, started, before, took, new
<1> DEFINE Fits == new = [taken |-> new.taken, groups |-> new.groups]
                   /\ new.taken \in {acc.taken, acc.taken \union {at}}
<1>5. CASE room = 0
  <2>1. new = [acc EXCEPT !.taken = took]
    BY <1>3, <1>5
  <2>2. Fits /\ new.groups = groups
    BY <1>0, <2>1 DEF took
  <2> QED BY <1>5, <2>2 DEF new, room, NothingStarts, Room
<1>6. CASE room > 0 /\ p.kind = "entries"
  <2>1. new = [taken |-> took,
               groups |-> before \o SubSeq(started, 1, IF room < Len(started) THEN room
                                                       ELSE Len(started))]
    BY <1>3, <1>6
  <2>2. /\ before \in {groups, Continued(groups, FALSE, at)}
        /\ groups = << >> => before = groups
    BY DEF before, active
  <2>3. new.groups = Filled(before, p, at, room) /\ Fits
    BY <2>1 DEF Filled, started, took
  <2> QED BY <1>6, <2>2, <2>3 DEF new, room, Room, EntriesStart
<1>7. CASE room > 0 /\ p.kind = "author" /\ ~numbered
  <2>1. new = [taken |-> took, groups |-> groups \o started]
    BY <1>3, <1>7
  <2>2. Fits /\ new.groups = groups \o started
    BY <2>1 DEF took
  <2> QED BY <1>7, <2>2 DEF new, room, started, OneStarts, Room
<1>8. CASE room > 0 /\ p.kind = "note" /\ numbered
  <2>1. new = acc
    BY <1>1, <1>3, <1>8, <1>a
  <2>2. Fits /\ new.groups = groups
    BY <1>0, <2>1
  <2> QED BY <1>8, <2>2 DEF new, room, NothingStarts, Room
<1>9. CASE room > 0 /\ p.kind \in {"note", "bibliographic"} /\ ~active
  <2>1. ~numbered
    BY <1>9 DEF numbered
  <2>2. new = [taken |-> took, groups |-> started]
    BY <1>3, <1>9, <2>1
  <2>3. new.groups = groups \o started /\ Fits
    BY <1>4, <1>9, <2>2 DEF took
  <2> QED BY <1>9, <2>3 DEF new, room, started, OneStarts, Room
<1>10. CASE room > 0 /\ p.kind = "prose" /\ ~active
  <2>1. new = acc
    BY <1>3, <1>10
  <2>2. Fits /\ new.groups = groups
    BY <1>0, <2>1
  <2> QED BY <1>10, <2>2 DEF new, room, NothingStarts, Room
<1>11. CASE /\ room > 0 /\ p.kind # "entries"
            /\ ~(p.kind = "author" /\ ~numbered) /\ ~(p.kind = "note" /\ numbered)
            /\ ~(p.kind \in {"note", "bibliographic"} /\ ~active) /\ ~(p.kind = "prose" /\ ~active)
  <2>1. active
    BY <1>2, <1>11 DEF numbered
  <2>2. new = [taken |-> took, groups |-> Continued(groups, p.breaks, at)]
    BY <1>1, <1>3, <1>11, <1>a
  <2>3. new.groups = Continued(groups, p.breaks, at) /\ Fits
    BY <2>2 DEF took
  <2>4. p.kind # "entries" /\ groups # << >>
    BY <1>11, <2>1 DEF active
  <2> QED BY <2>3, <2>4 DEF new, OneGoesOn
<1>12. room > 0 \/ room = 0
  BY <1>1
<1> QED
  BY <1>2, <1>5, <1>6, <1>7, <1>8, <1>9, <1>10, <1>11, <1>12, <1>a

KeptNumbers(groups, new) ==
    /\ Len(groups) <= Len(new)
    /\ \A i \in 1..Len(groups) : new[i].number = groups[i].number

HasNumbers(p, groups) ==
    Len(groups) <= MaxReferences =>
        \A i \in 1..Len(p.entries) :
            \/ p.entries[i].number = 0
            \/ \E k \in 1..Len(groups) : groups[k].number = p.entries[i].number

\* A step keeps the groups well formed, and while there is room keeps every number.
LEMMA CollectStep ==
    ASSUME NEW p \in ParagraphForms, NEW at \in Positions, NEW acc \in Collections
    PROVE  /\ Collect(p, at, acc) \in Collections
           /\ KeptNumbers(acc.groups, Collect(p, at, acc).groups)
           /\ HasNumbers(p, Collect(p, at, acc).groups)
<1> DEFINE groups == acc.groups
           room == Room(groups)
           started == Started(p, at)
           new == Collect(p, at, acc)
           Goal == new.groups \in GroupLists /\ KeptNumbers(groups, new.groups)
                   /\ HasNumbers(p, new.groups)
<1>1. groups \in Seq(GroupForms) /\ Len(groups) <= MaxReferences + 1 /\ acc.taken \subseteq Positions
  BY DEF Collections, GroupLists
<1>2. started \in Seq(GroupForms) /\ Len(started) = Len(p.entries) /\ Len(started) \in Nat
      /\ \A i \in 1..Len(p.entries) : started[i].number = p.entries[i].number
  BY StartedGroups
<1>3. p.breaks \in BOOLEAN
      /\ (p.kind # "entries" => Len(p.entries) <= 1
            /\ \A i \in 1..Len(p.entries) : p.entries[i].number = 0)
  BY DEF ParagraphForms
<1>4. MaxReferences \in Nat /\ room \in Nat /\ room = MaxReferences + 1 - Len(groups)
  BY <1>1, ParsingConstants DEF Room
<1> HIDE DEF new, started, room, groups
<1>5. /\ new = [taken |-> new.taken, groups |-> new.groups]
      /\ new.taken \in {acc.taken, acc.taken \union {at}}
      /\ \/ EntriesStart(p, at, groups, new.groups)
         \/ OneStarts(p, at, groups, new.groups)
         \/ OneGoesOn(p, at, groups, new.groups)
         \/ NothingStarts(p, groups, new.groups)
  BY CollectedGroups DEF new, groups
<1>6. ASSUME NothingStarts(p, groups, new.groups) PROVE Goal
  <2>1. new.groups = groups /\ (room = 0 \/ p.kind # "entries")
    BY <1>6 DEF NothingStarts, room
  <2>2. HasNumbers(p, new.groups)
    BY <1>1, <1>3, <1>4, <2>1 DEF HasNumbers
  <2> QED BY <1>1, <2>1, <2>2 DEF GroupLists, KeptNumbers
<1>7. ASSUME OneGoesOn(p, at, groups, new.groups) PROVE Goal
  <2>1. p.kind # "entries" /\ groups # << >> /\ new.groups = Continued(groups, p.breaks, at)
    BY <1>7 DEF OneGoesOn
  <2>2. HasNumbers(p, new.groups)
    BY <1>3, <2>1 DEF HasNumbers
  <2>3. new.groups \in Seq(GroupForms) /\ Len(new.groups) = Len(groups)
        /\ \A i \in 1..Len(groups) : new.groups[i].number = groups[i].number
    BY <1>1, <1>3, <2>1, ContinuedGroups
  <2> QED BY <1>1, <2>2, <2>3 DEF GroupLists, KeptNumbers
<1>8. ASSUME OneStarts(p, at, groups, new.groups) PROVE Goal
  <2>1. room > 0 /\ p.kind # "entries" /\ new.groups = groups \o started
    BY <1>8 DEF OneStarts, room, started
  <2>2. HasNumbers(p, new.groups)
    BY <1>3, <2>1 DEF HasNumbers
  <2>3. Len(started) <= 1
    BY <1>2, <1>3, <2>1
  <2>4. /\ new.groups \in Seq(GroupForms) /\ Len(new.groups) = Len(groups) + Len(started)
        /\ \A i \in 1..Len(groups) : new.groups[i] = groups[i]
    <3>1. /\ groups \o started \in Seq(GroupForms)
          /\ Len(groups \o started) = Len(groups) + Len(started)
          /\ \A i \in 1..Len(groups) : (groups \o started)[i] = groups[i]
      BY <1>1, <1>2, Joined
    <3> QED BY <2>1, <3>1
  <2> QED BY <1>1, <1>2, <1>4, <2>1, <2>2, <2>3, <2>4 DEF GroupLists, KeptNumbers
<1>9. ASSUME EntriesStart(p, at, groups, new.groups) PROVE Goal
  <2>1. PICK before \in {groups, Continued(groups, FALSE, at)} :
                          /\ groups = << >> => before = groups
                          /\ new.groups = Filled(before, p, at, room)
    BY <1>9 DEF EntriesStart, room
  <2>2. /\ before \in Seq(GroupForms) /\ Len(before) = Len(groups)
        /\ \A i \in 1..Len(groups) : before[i].number = groups[i].number
    <3>1. CASE before = groups
      BY <1>1, <3>1
    <3>2. CASE groups # << >> /\ before = Continued(groups, FALSE, at)
      BY <1>1, <3>2, ContinuedGroups
    <3> QED BY <2>1, <3>1, <3>2
  <2> DEFINE m == IF room < Len(started) THEN room ELSE Len(started)
             more == SubSeq(started, 1, m)
  <2>3. m \in Nat /\ m <= room /\ m <= Len(started)
    BY <1>2, <1>4
  <2>4. more \in Seq(GroupForms) /\ Len(more) = m /\ \A i \in 1..m : more[i] = started[i]
    BY <1>2, <2>3
  <2>5. new.groups = before \o more
    BY <2>1 DEF Filled, started
  <2>6. m < Len(started) => m = room
    BY <1>2, <1>4
  <2> HIDE DEF m, more
  <2>7. new.groups \in Seq(GroupForms) /\ Len(new.groups) = Len(groups) + m
        /\ (\A i \in 1..Len(groups) : new.groups[i] = before[i])
    <3>1. /\ before \o more \in Seq(GroupForms) /\ Len(before \o more) = Len(before) + Len(more)
          /\ \A i \in 1..Len(before) : (before \o more)[i] = before[i]
      BY <2>2, <2>4, Joined
    <3> QED BY <2>2, <2>4, <2>5, <3>1
  <2>8. \A i \in 1..m : new.groups[Len(groups) + i] = more[i]
    BY <2>2, <2>4, <2>5, Joined
  <2>9. new.groups \in GroupLists /\ KeptNumbers(groups, new.groups)
    BY <1>1, <1>4, <2>2, <2>3, <2>7 DEF GroupLists, KeptNumbers
  <2>10. ASSUME Len(new.groups) <= MaxReferences, NEW i \in 1..Len(p.entries)
        PROVE  \E k \in 1..Len(new.groups) : new.groups[k].number = p.entries[i].number
    <3>1. m = Len(started)
      BY <1>1, <1>2, <1>4, <2>3, <2>6, <2>7, <2>10
    <3>2. i \in 1..m
      BY <1>2, <3>1
    <3>3. Len(groups) + i \in 1..Len(new.groups)
      BY <1>1, <2>3, <2>7, <3>2
    <3>4. new.groups[Len(groups) + i].number = p.entries[i].number
      BY <1>2, <2>4, <2>8, <3>2
    <3> QED BY <3>3, <3>4
  <2>11. HasNumbers(p, new.groups)
    BY <2>10 DEF HasNumbers
  <2> QED BY <2>9, <2>11
<1>10. Goal
  <2> HIDE DEF Goal
  <2>1. (new.groups \in GroupLists /\ KeptNumbers(groups, new.groups)
                   /\ HasNumbers(p, new.groups)) => Goal
    BY DEF Goal
  <2> QED BY <1>5, <1>6, <1>7, <1>8, <1>9, <2>1
<1>11. new \in Collections
  <2>1. new.taken \in SUBSET Positions
    BY <1>1, <1>5
  <2> QED BY <1>5, <1>10, <2>1 DEF Collections
<1> QED BY <1>10, <1>11 DEF new, groups

\* It begins with nothing.
LEMMA NoGroupsYet == NoGroups \in Collections /\ NoGroups.groups = << >>
<1>1. << >> \in GroupLists
  BY ParsingConstants DEF GroupLists
<1> QED BY <1>1 DEF NoGroups, Collections

\* The paragraphs of a document are well formed, and so are their places.
LEMMA ParagraphsTyped ==
    ASSUME NEW d \in DocumentForms
    PROVE  /\ Paragraphs(d) \in Seq(ParagraphForms)
           /\ Len(Paragraphs(d)) = Len(d.body) + Len(d.back)
           /\ Len(d.body) \in Nat /\ Len(d.back) \in Nat
<1>1. d.body \in Seq(ParagraphForms) /\ d.back \in Seq(ParagraphForms)
  BY DEF DocumentForms
<1>2. d.body \o d.back \in Seq(ParagraphForms)
      /\ Len(d.body \o d.back) = Len(d.body) + Len(d.back)
  BY <1>1, Joined
<1> QED BY <1>1, <1>2 DEF Paragraphs

\* The groups up to each paragraph are what the paragraph makes of those before.
LEMMA CollectedByStep ==
    ASSUME NEW d \in DocumentForms, NEW positions
    PROVE  LET f == CollectedUpTo(d, positions)
               N == Len(Paragraphs(d))
           IN /\ f[0] = NoGroups
              /\ \A n \in 0..N : f[n] \in Collections
              /\ \A n \in 1..N :
                    f[n] = IF n \in positions THEN Collect(Paragraphs(d)[n], n, f[n - 1])
                           ELSE f[n - 1]
<1> DEFINE N == Len(Paragraphs(d))
           f == CollectedUpTo(d, positions)
           Step == [n \in 1..N |-> [acc \in Collections |->
                      IF n \in positions THEN Collect(Paragraphs(d)[n], n, acc) ELSE acc]]
           Body(g) == [n \in 0..N |->
                         IF n = 0 THEN NoGroups
                         ELSE IF n \in positions THEN Collect(Paragraphs(d)[n], n, g[n - 1])
                         ELSE g[n - 1]]
<1>1. Paragraphs(d) \in Seq(ParagraphForms) /\ N \in Nat
  <2>1. Paragraphs(d) \in Seq(ParagraphForms)
    BY ParagraphsTyped
  <2> QED BY <2>1
<1>2. \A n \in 1..N : \A acc \in Collections : Collect(Paragraphs(d)[n], n, acc) \in Collections
  <2> TAKE n \in 1..N
  <2> TAKE acc \in Collections
  <2>1. Paragraphs(d)[n] \in ParagraphForms /\ n \in Positions
    BY <1>1 DEF Positions
  <2> QED BY <2>1, CollectStep
<1>3. Step \in [1..N -> [Collections -> Collections]]
  BY <1>2
<1> HIDE DEF N
<1>4. PICK g : IsFold(g, N, Collections, NoGroups, Step)
  <2> HIDE DEF Step
  <2>1. N \in Nat /\ NoGroups \in Collections
    BY <1>1, NoGroupsYet
  <2> QED BY <1>3, <2>1, FoldExists
<1>5. g = Body(g)
  <2>1. \A n \in 1..N : n - 1 \in 0..N /\ n \in 0..N
    BY <1>1
  <2>1a. g \in [0..N -> Collections]
    BY <1>4 DEF IsFold
  <2>2. \A n \in 0..N : n = 0 \/ (n \in 1..N /\ n # 0)
    BY <1>1
  <2>3. \A n \in 1..N : Step[n][g[n - 1]] = IF n \in positions
                            THEN Collect(Paragraphs(d)[n], n, g[n - 1]) ELSE g[n - 1]
    BY <2>1, <2>1a
  <2> HIDE DEF Step
  <2>4. \A n \in 0..N : g[n] = IF n = 0 THEN NoGroups
                         ELSE IF n \in positions THEN Collect(Paragraphs(d)[n], n, g[n - 1])
                         ELSE g[n - 1]
    BY <1>4, <2>2, <2>3 DEF IsFold
  <2> QED BY <2>1a, <2>4
<1>6. f = Body(f)
  <2>1. f = CHOOSE h : h = Body(h)
    BY DEF CollectedUpTo, N
  <2> HIDE DEF f, Body
  <2> QED BY <1>5, <2>1
<1>7. f[0] = NoGroups
      /\ \A n \in 1..N :
                    f[n] = IF n \in positions THEN Collect(Paragraphs(d)[n], n, f[n - 1])
                           ELSE f[n - 1]
  <2> HIDE DEF f
  <2> QED BY <1>1, <1>6
<1>8. \A n \in 0..N : f[n] \in Collections
  <2> HIDE DEF f
  <2> DEFINE P == {n \in 0..N : f[n] \in Collections}
  <2>1. 0 \in P
    BY <1>1, <1>7, NoGroupsYet
  <2>2. ASSUME NEW n \in 0..N, n > 0, n - 1 \in P PROVE n \in P
    <3>1. n \in 1..N /\ f[n - 1] \in Collections
      BY <1>1, <2>2
    <3>2. f[n] \in Collections
      BY <1>2, <1>7, <3>1
    <3> QED BY <3>2
  <2> HIDE DEF P
  <2>3. 0..N \subseteq P
    BY <1>1, <2>1, <2>2, UpTheLine
  <2> QED BY <2>3 DEF P
<1> QED BY <1>7, <1>8 DEF N

\* The rows of a table, each as a paragraph.
RowParagraph(d, n) == Paragraph("entries", <<d.table[n]>>, FALSE, FALSE, << >>)

\* A row of a table is a paragraph with one entry.
LEMMA RowsTyped ==
    ASSUME NEW d \in DocumentForms
    PROVE  /\ Len(d.table) \in Nat /\ TablePosition(d) \in Positions
           /\ \A n \in 1..Len(d.table) : RowParagraph(d, n) \in ParagraphForms
<1>1. d.table \in Seq(EntryForms) /\ Len(d.table) \in Nat
  <2>1. d.table \in Seq(EntryForms)
    BY DEF DocumentForms
  <2> QED BY <2>1
<1>2. TablePosition(d) \in Positions
  <2>1. Len(d.body) \in Nat /\ Len(d.back) \in Nat
    BY ParagraphsTyped
  <2>2. \A a \in Nat : \A b \in Nat : a + b + 1 \in Nat \ {0}
    OBVIOUS
  <2> QED BY <2>1, <2>2 DEF TablePosition, Positions
<1>3. ASSUME NEW n \in 1..Len(d.table) PROVE RowParagraph(d, n) \in ParagraphForms
  <2>1. d.table[n] \in EntryForms
    BY <1>1
  <2>2. <<d.table[n]>> \in Seq(EntryForms) /\ <<d.table[n]>> # << >> /\ << >> \in Seq(MarkerForms)
    BY <2>1
  <2> QED BY <2>2 DEF RowParagraph, Paragraph, ParagraphForms
<1> QED BY <1>1, <1>2, <1>3

\* The groups of a table are well formed.
LEMMA RowsCollected ==
    ASSUME NEW d \in DocumentForms
    PROVE  GroupsOfTable(d) \in Collections
<1> DEFINE N == Len(d.table)
           at == TablePosition(d)
           f == RowsCollectedUpTo(d)
           Step == [n \in 1..N |-> [acc \in Collections |-> Collect(RowParagraph(d, n), at, acc)]]
           Body(g) == [n \in 0..N |-> IF n = 0 THEN NoGroups
                                       ELSE Collect(RowParagraph(d, n), at, g[n - 1])]
<1>1. N \in Nat /\ at \in Positions
  BY RowsTyped
<1>2. \A n \in 1..N : \A acc \in Collections : Collect(RowParagraph(d, n), at, acc) \in Collections
  BY <1>1, RowsTyped, CollectStep
<1> HIDE DEF N, at
<1>3. Step \in [1..N -> [Collections -> Collections]]
  BY <1>2
<1>4. PICK g : IsFold(g, N, Collections, NoGroups, Step)
  <2> HIDE DEF Step
  <2>1. N \in Nat /\ NoGroups \in Collections
    BY <1>1, NoGroupsYet
  <2> QED BY <1>3, <2>1, FoldExists
<1>5. g = Body(g)
  <2>1. \A n \in 1..N : n - 1 \in 0..N /\ n \in 0..N
    BY <1>1
  <2>2. g \in [0..N -> Collections]
    BY <1>4 DEF IsFold
  <2>3. \A n \in 0..N : n = 0 \/ (n \in 1..N /\ n # 0)
    BY <1>1
  <2>4. \A n \in 1..N : Step[n][g[n - 1]] = Collect(RowParagraph(d, n), at, g[n - 1])
    BY <2>1, <2>2
  <2> HIDE DEF Step
  <2>5. \A n \in 0..N : g[n] = IF n = 0 THEN NoGroups
                                ELSE Collect(RowParagraph(d, n), at, g[n - 1])
    BY <1>4, <2>3, <2>4 DEF IsFold
  <2> QED BY <2>2, <2>5
<1>6. f = Body(f)
  <2>1. f = CHOOSE h : h = Body(h)
    BY DEF RowsCollectedUpTo, RowParagraph, N, at
  <2> HIDE DEF f, Body
  <2> QED BY <1>5, <2>1
<1> HIDE DEF f
<1>7. f[0] = NoGroups /\ \A n \in 1..N : f[n] = Collect(RowParagraph(d, n), at, f[n - 1])
  BY <1>1, <1>6
<1> DEFINE P == {n \in 0..N : f[n] \in Collections}
<1>8. 0 \in P
  BY <1>1, <1>7, NoGroupsYet
<1>9. ASSUME NEW n \in 0..N, n > 0, n - 1 \in P PROVE n \in P
  <2>1. n \in 1..N /\ f[n - 1] \in Collections
    BY <1>1, <1>9
  <2>2. f[n] \in Collections
    BY <1>2, <1>7, <2>1
  <2> QED BY <2>2
<1>10. f[N] \in Collections
  <2>1. 0..N \subseteq P
    <3> HIDE DEF P
    <3> QED BY <1>1, <1>8, <1>9, UpTheLine
  <2> QED BY <1>1, <2>1
<1> QED BY <1>10 DEF GroupsOfTable, f, N

\* Whatever number is printed in a paragraph, a group has it, if there is room for
\* all the groups.
LEMMA NumbersCollected ==
    ASSUME NEW d \in DocumentForms, NEW positions
    PROVE  /\ GroupsAt(d, positions) \in Collections
           /\ \A at \in 1..Len(Paragraphs(d)) : at \in positions =>
                 HasNumbers(Paragraphs(d)[at], GroupsAt(d, positions).groups)
<1> DEFINE N == Len(Paragraphs(d))
           f == CollectedUpTo(d, positions)
           P == {n \in 0..N : \A at \in 1..N : at <= n /\ at \in positions =>
                                HasNumbers(Paragraphs(d)[at], f[n].groups)}
<1>1. Paragraphs(d) \in Seq(ParagraphForms) /\ N \in Nat
  <2>1. Paragraphs(d) \in Seq(ParagraphForms)
    BY ParagraphsTyped
  <2> QED BY <2>1
<1>2. /\ \A n \in 0..N : f[n] \in Collections
      /\ \A n \in 1..N :
            f[n] = IF n \in positions THEN Collect(Paragraphs(d)[n], n, f[n - 1]) ELSE f[n - 1]
  BY CollectedByStep
<1> HIDE DEF f
<1>3. 0 \in P
  BY <1>1
<1>4. ASSUME NEW n \in 0..N, n > 0, n - 1 \in P PROVE n \in P
  <2>1. n \in 1..N /\ n - 1 \in 0..N /\ n \in Positions /\ Paragraphs(d)[n] \in ParagraphForms
    BY <1>1, <1>4 DEF Positions
  <2>2. f[n - 1] \in Collections
    BY <1>2, <2>1
  <2>3. f[n - 1].groups \in Seq(GroupForms) /\ f[n].groups \in Seq(GroupForms)
    BY <1>2, <2>1 DEF Collections, GroupLists
  <2>4. \A at \in 1..N : at <= n - 1 /\ at \in positions =>
                                HasNumbers(Paragraphs(d)[at], f[n - 1].groups)
    BY <1>4
  <2>5. ASSUME NEW at \in 1..N, at <= n, at \in positions
        PROVE  HasNumbers(Paragraphs(d)[at], f[n].groups)
    <3>1. CASE n \notin positions
      <4>1. f[n] = f[n - 1] /\ at <= n - 1
        BY <1>1, <1>2, <2>1, <2>5, <3>1
      <4> QED BY <2>4, <2>5, <4>1
    <3>2. CASE n \in positions
      <4>1. f[n] = Collect(Paragraphs(d)[n], n, f[n - 1])
        BY <1>2, <2>1, <3>2
      <4>2. KeptNumbers(f[n - 1].groups, f[n].groups) /\ HasNumbers(Paragraphs(d)[n], f[n].groups)
        BY <2>1, <2>2, <4>1, CollectStep
      <4>3. CASE at = n
        BY <4>2, <4>3
      <4>4. CASE at <= n - 1
        <5>1. HasNumbers(Paragraphs(d)[at], f[n - 1].groups)
          BY <2>4, <2>5, <4>4
        <5> DEFINE old == f[n - 1].groups
                   new == f[n].groups
        <5>2. Len(old) \in Nat /\ Len(new) \in Nat /\ MaxReferences \in Nat
          BY <2>3, ParsingConstants
        <5> HIDE DEF old, new
        <5>3. KeptNumbers(old, new) /\ HasNumbers(Paragraphs(d)[at], old)
          BY <4>2, <5>1 DEF old, new
        <5>4. HasNumbers(Paragraphs(d)[at], new)
          BY <5>2, <5>3 DEF KeptNumbers, HasNumbers
        <5> QED BY <5>4 DEF new
      <4> QED BY <1>1, <2>1, <2>5, <4>3, <4>4
    <3> QED BY <3>1, <3>2
  <2> QED BY <2>5
<1>5. N \in P
  <2>1. 0..N \subseteq P
    <3> HIDE DEF P
    <3> QED BY <1>1, <1>3, <1>4, UpTheLine
  <2> QED BY <1>1, <2>1
<1>6. GroupsAt(d, positions) = f[N] /\ f[N] \in Collections
  BY <1>1, <1>2 DEF GroupsAt, f
<1> QED BY <1>1, <1>5, <1>6

Statuses3 == {"PARSED", "UNCERTAIN", "NOT_FOUND"}

\* So are the groups of whatever is taken for the bibliography.
LEMMA BibliographyTyped ==
    ASSUME NEW d \in DocumentForms
    PROVE  /\ Bibliography(d).groups \in GroupLists
           /\ Bibliography(d).status \in Statuses3
<1> DEFINE headed == GroupsAt(d, BackPositions(d))
           guessed == GroupsAt(d, Trailing(d))
           found(status, b) == [status |-> status, groups |-> b.groups, taken |-> b.taken]
           nothing == [status |-> "NOT_FOUND", groups |-> << >>, taken |-> {}]
<1>1. headed.groups \in GroupLists /\ guessed.groups \in GroupLists
      /\ GroupsOfTable(d).groups \in GroupLists /\ << >> \in GroupLists
  BY NumbersCollected, RowsCollected, NoGroupsYet DEF Collections
<1>2. Bibliography(d) \in {found("PARSED", headed), found("PARSED", GroupsOfTable(d)),
                          found("UNCERTAIN", guessed), nothing}
  BY DEF Bibliography
<1> QED BY <1>1, <1>2 DEF Statuses3

\* A bibliography that is certain and not cut short has every number that stands
\* in front of an entry.
LEMMA PrintedNumbers ==
    ASSUME NEW d \in DocumentForms, Bibliography(d).status = "PARSED",
           Len(Bibliography(d).groups) <= MaxReferences
    PROVE  \A at \in BackPositions(d) : \A i \in 1..Len(Paragraphs(d)[at].entries) :
              \/ Paragraphs(d)[at].entries[i].number = 0
              \/ \E k \in 1..Len(Bibliography(d).groups) :
                    Bibliography(d).groups[k].number = Paragraphs(d)[at].entries[i].number
<1> DEFINE headed == GroupsAt(d, BackPositions(d)).groups
           groups == Bibliography(d).groups
<1>1. \/ groups = headed
      \/ headed = << >>
  BY DEF Bibliography
<1>2. \A at \in BackPositions(d) : at \in 1..Len(Paragraphs(d))
  <2>1. Len(d.body) \in Nat /\ Len(d.back) \in Nat
        /\ Len(Paragraphs(d)) = Len(d.body) + Len(d.back)
    BY ParagraphsTyped
  <2>2. \A a \in Nat : \A b \in Nat : \A x \in a + 1..a + b : x \in 1..a + b
    OBVIOUS
  <2> QED BY <2>1, <2>2 DEF BackPositions
<1>3. \A at \in BackPositions(d) : HasNumbers(Paragraphs(d)[at], headed)
  BY <1>2, NumbersCollected
<1>4. Len(headed) <= MaxReferences /\ (headed = << >> => Len(headed) = 0)
  BY <1>1, ParsingConstants
<1> HIDE DEF headed, groups
<1>5. ASSUME NEW at \in BackPositions(d), NEW i \in 1..Len(Paragraphs(d)[at].entries),
             Paragraphs(d)[at].entries[i].number # 0
      PROVE  \E k \in 1..Len(groups) : groups[k].number = Paragraphs(d)[at].entries[i].number
  <2>1. \E k \in 1..Len(headed) : headed[k].number = Paragraphs(d)[at].entries[i].number
    BY <1>3, <1>4, <1>5 DEF HasNumbers
  <2>2. headed # << >>
    BY <1>4, <2>1
  <2> QED BY <1>1, <2>1, <2>2
<1> QED BY <1>5 DEF groups

-------------------------------------------------------------------------------
(* References and mentions.                                                *)

\* The references are the groups, up to the limit, in their order.
LEMMA ReferencesKept ==
    ASSUME NEW d \in DocumentForms
    PROVE  LET b == Bibliography(d)
               refs == References(b)
               kept == IF Len(b.groups) > MaxReferences THEN MaxReferences ELSE Len(b.groups)
           IN /\ kept \in 0..MaxReferences /\ DOMAIN refs = 1..kept
              /\ \A i \in 1..kept :
                    /\ i \in 1..Len(b.groups) /\ b.groups[i] \in GroupForms
                    /\ refs[i] = Reference(b, Numbers(b.groups), i)
<1> DEFINE b == Bibliography(d)
           n == Len(b.groups)
           kept == IF n > MaxReferences THEN MaxReferences ELSE n
<1>1. b.groups \in Seq(GroupForms) /\ n \in Nat /\ MaxReferences \in Nat
  <2>1. b.groups \in Seq(GroupForms)
    BY BibliographyTyped DEF GroupLists
  <2> QED BY <2>1, ParsingConstants
<1> HIDE DEF b
<1>2. kept \in 0..MaxReferences /\ \A i \in 1..kept : i \in 1..n
  BY <1>1
<1>3. \A i \in 1..n : b.groups[i] \in GroupForms
  BY <1>1
<1>4. References(b) = [i \in 1..kept |-> Reference(b, Numbers(b.groups), i)]
  BY DEF References
<1> HIDE DEF n, kept
<1>5. DOMAIN References(b) = 1..kept
      /\ \A i \in 1..kept : References(b)[i] = Reference(b, Numbers(b.groups), i)
  BY <1>4
<1> QED BY <1>2, <1>3, <1>5 DEF b, n, kept

ReferenceStatuses == {"PARSED", "FRAGMENTED", "UNCERTAIN"}

\* What is known of each reference of a report.
LEMMA ReferenceFacts ==
    ASSUME NEW d \in DocumentForms
    PROVE  LET b == Bibliography(d)
               refs == Parse(d).references
           IN /\ \E m \in 0..MaxReferences : DOMAIN refs = 1..m
              /\ \A i \in DOMAIN refs :
                    /\ i \in 1..Len(b.groups)
                    /\ refs[i].status \in ReferenceStatuses
                    /\ refs[i].printed = b.groups[i].number
                    /\ refs[i].anchors \in AnchorLists
                    /\ refs[i].status = "PARSED" => b.status = "PARSED" /\ ~b.groups[i].breaks
              /\ \A i \in DOMAIN refs : \A j \in DOMAIN refs : refs[i].id = refs[j].id => i = j
              /\ (\A i \in DOMAIN refs : refs[i].status = "PARSED") =>
                    /\ Len(b.groups) <= MaxReferences
                    /\ DOMAIN refs = 1..Len(b.groups)
<1> DEFINE b == Bibliography(d)
           refs == Parse(d).references
           n == Len(b.groups)
           kept == IF n > MaxReferences THEN MaxReferences ELSE n
           numbers == Numbers(b.groups)
<1>1. refs = References(b)
  BY DEF Parse
<1>2. kept \in 0..MaxReferences /\ DOMAIN refs = 1..kept
      /\ \A i \in 1..kept : i \in 1..n /\ b.groups[i] \in GroupForms
                           /\ refs[i] = Reference(b, numbers, i)
  BY <1>1, ReferencesKept
<1>3. n \in Nat /\ MaxReferences \in Nat /\ MaxReferences > 0
  <2>1. b.groups \in Seq(GroupForms)
    BY BibliographyTyped DEF GroupLists
  <2> QED BY <2>1, ParsingConstants
<1> HIDE DEF refs, b, n, numbers
<1>4. \A i \in 1..kept : /\ refs[i].id = UniqueId(numbers, i)
                        /\ refs[i].printed = b.groups[i].number
                        /\ refs[i].anchors = b.groups[i].anchors
                        /\ refs[i].status = Legibility(b, i)
  <2> HIDE DEF kept
  <2> TAKE i \in 1..kept
  <2>1. refs[i] = Reference(b, numbers, i)
    BY <1>2
  <2> QED BY <2>1 DEF Reference
<1>5. \A i \in 1..kept : b.groups[i].breaks \in BOOLEAN /\ b.groups[i].anchors \in AnchorLists
  BY <1>2 DEF GroupForms
<1>6. ASSUME NEW i \in 1..kept
      PROVE  /\ Legibility(b, i) \in ReferenceStatuses
             /\ Legibility(b, i) = "PARSED" =>
                   /\ b.status = "PARSED" /\ ~b.groups[i].breaks
                   /\ ~(i = MaxReferences /\ n > MaxReferences)
  BY <1>5 DEF Legibility, ReferenceStatuses, n
<1>7. ASSUME NEW i \in 1..kept, NEW j \in 1..kept, i < j
      PROVE  UniqueId(numbers, i) # UniqueId(numbers, j)
  <2> DEFINE second(x) == IF \E y \in 1..x - 1 : numbers[y] = numbers[x] THEN x ELSE 0
  <2>1. \A x : UniqueId(numbers, x) = <<numbers[x], second(x)>>
    BY DEF UniqueId
  <2>2. CASE numbers[i] # numbers[j]
    <3> HIDE DEF second
    <3> QED BY <2>1, <2>2
  <2>3. CASE numbers[i] = numbers[j]
    <3>1. i \in 1..j - 1 /\ j # 0 /\ i # j
      BY <1>2, <1>7
    <3>2. second(j) = j /\ second(i) \in {0, i}
      BY <2>3, <3>1
    <3>3. second(i) # second(j)
      BY <3>1, <3>2
    <3> HIDE DEF second
    <3> QED BY <2>1, <3>3
  <2> QED BY <2>2, <2>3
<1>8. \A i \in DOMAIN refs : \A j \in DOMAIN refs : refs[i].id = refs[j].id => i = j
  <2>1. ASSUME NEW i \in 1..kept, NEW j \in 1..kept, refs[i].id = refs[j].id, i # j PROVE FALSE
    <3>1. i < j \/ j < i
      BY <1>2, <2>1
    <3> HIDE DEF kept
    <3> QED BY <1>4, <1>7, <2>1, <3>1
  <2> HIDE DEF kept
  <2> QED BY <1>2, <2>1
<1>9. (\A i \in DOMAIN refs : refs[i].status = "PARSED") => n <= MaxReferences /\ DOMAIN refs = 1..n
  <2> SUFFICES ASSUME \A i \in DOMAIN refs : refs[i].status = "PARSED"
               PROVE  n <= MaxReferences /\ DOMAIN refs = 1..n
    OBVIOUS
  <2>1. ~(n > MaxReferences)
    <3> SUFFICES ASSUME n > MaxReferences PROVE FALSE
      OBVIOUS
    <3>1. MaxReferences \in 1..kept
      BY <1>3
    <3>2. Legibility(b, MaxReferences) = "PARSED"
      BY <1>2, <1>4, <3>1
    <3> QED BY <1>6, <3>1, <3>2
  <2> QED BY <1>2, <1>3, <2>1
<1>10. \A i \in DOMAIN refs :
                    /\ i \in 1..n
                    /\ refs[i].status \in ReferenceStatuses
                    /\ refs[i].printed = b.groups[i].number
                    /\ refs[i].anchors \in AnchorLists
                    /\ refs[i].status = "PARSED" => b.status = "PARSED" /\ ~b.groups[i].breaks
  <2> HIDE DEF kept
  <2> QED BY <1>2, <1>4, <1>5, <1>6
<1> HIDE DEF kept
<1>11. \E m \in 0..MaxReferences : DOMAIN refs = 1..m
  BY <1>2
<1> QED BY <1>8, <1>9, <1>10, <1>11 DEF b, refs, n

\* A marker found in a paragraph, and where.
FoundMarkers == [marker : {m \in MarkerForms : 0 \notin m.numbers}, at : Positions,
                 place : Positions]

\* The markers of a paragraph are well formed, and none has a zero.
LEMMA MarkersTyped ==
    ASSUME NEW d \in DocumentForms, NEW at \in 1..Len(Paragraphs(d))
    PROVE  /\ MarkersAt(d, at) \in Seq(FoundMarkers)
           /\ \A i \in 1..Len(MarkersAt(d, at)) :
                 MarkersAt(d, at)[i].at = at /\ MarkersAt(d, at)[i].place = i
<1> DEFINE p == Paragraphs(d)[at]
           numbered == [i \in 1..Len(p.entries) |->
                          Marker({p.entries[i].number}, NoAuthor, TRUE)]
           all == p.markers \o numbered
           some == {i \in DOMAIN all : 0 \notin all[i].numbers}
           chosen == [i \in some |-> all[i]]
           markers == MarkersOf(p)
<1>1. p \in ParagraphForms /\ at \in Positions
  <2>1. Paragraphs(d) \in Seq(ParagraphForms)
    BY ParagraphsTyped
  <2> QED BY <2>1 DEF Positions
<1> HIDE DEF p
<1>2. p.markers \in Seq(MarkerForms) /\ p.entries \in Seq(EntryForms)
  BY <1>1 DEF ParagraphForms
<1>3. numbered \in Seq(MarkerForms)
  <2>1. ASSUME NEW i \in 1..Len(p.entries)
        PROVE  Marker({p.entries[i].number}, NoAuthor, TRUE) \in MarkerForms
    <3>1. p.entries[i] \in EntryForms
      BY <1>2
    <3> QED BY <3>1 DEF EntryForms, MarkerForms, Marker
  <2>2. Len(p.entries) \in Nat
    BY <1>2
  <2>3. numbered \in [1..Len(p.entries) -> MarkerForms]
    BY <2>1
  <2> HIDE DEF numbered
  <2> QED BY <2>2, <2>3, FunctionIsList
<1>4. all \in Seq(MarkerForms) /\ Len(all) \in Nat /\ DOMAIN all = 1..Len(all)
  <2> HIDE DEF numbered
  <2>1. all \in Seq(MarkerForms)
    BY <1>2, <1>3, Joined
  <2> HIDE DEF all
  <2> QED BY <2>1
<1>5. markers = Ordered(chosen)
  BY DEF MarkersOf
<1>6. \A i \in some : all[i] \in {m \in MarkerForms : 0 \notin m.numbers}
  <2> HIDE DEF all
  <2> QED BY <1>4
<1>7. some \in SUBSET (1..Len(all))
  BY <1>4
<1> HIDE DEF all, some
<1>8. DOMAIN chosen = some /\ \A i \in some : chosen[i] \in {m \in MarkerForms : 0 \notin m.numbers}
  BY <1>6
<1> HIDE DEF chosen, markers
<1>9. /\ markers \in Seq({m \in MarkerForms : 0 \notin m.numbers})
      /\ Len(markers) \in Nat /\ DOMAIN markers = 1..Len(markers)
  <2>1. markers \in Seq({m \in MarkerForms : 0 \notin m.numbers})
    BY <1>4, <1>5, <1>7, <1>8, OrderedTyped
  <2> QED BY <2>1
<1>10. MarkersAt(d, at) = [i \in 1..Len(markers) |->
                             [marker |-> markers[i], at |-> at, place |-> i]]
  BY <1>9 DEF MarkersAt, markers, p
<1>11. \A i \in 1..Len(markers) :
         [marker |-> markers[i], at |-> at, place |-> i] \in FoundMarkers
  BY <1>1, <1>9 DEF FoundMarkers, Positions
<1>12. MarkersAt(d, at) \in Seq(FoundMarkers) /\ Len(MarkersAt(d, at)) = Len(markers)
  BY <1>9, <1>10, <1>11
<1>13. \A i \in 1..Len(markers) : MarkersAt(d, at)[i].at = at /\ MarkersAt(d, at)[i].place = i
  BY <1>10
<1> QED BY <1>12, <1>13

\* The markers found are told apart by where they are.
Apart(found) ==
    \A k \in 1..Len(found) : \A l \in 1..Len(found) :
        found[k].at = found[l].at /\ found[k].place = found[l].place => k = l

\* So are the markers of a document, and each has a place of its own.
LEMMA AllMarkersTyped ==
    ASSUME NEW d \in DocumentForms, NEW taken
    PROVE  AllMarkers(d, taken) \in Seq(FoundMarkers) /\ Apart(AllMarkers(d, taken))
<1> DEFINE N == Len(Paragraphs(d))
           f == MarkersUpTo(d, taken)
           New(n) == IF n \in taken THEN << >> ELSE MarkersAt(d, n)
           S == Seq(FoundMarkers)
           Step == [n \in 1..N |-> [acc \in S |-> acc \o New(n)]]
           Body(g) == [n \in 0..N |-> IF n = 0 THEN << >> ELSE g[n - 1] \o New(n)]
<1>1. N \in Nat
  <2>1. Paragraphs(d) \in Seq(ParagraphForms)
    BY ParagraphsTyped
  <2> QED BY <2>1
<1>2. \A n \in 1..N : /\ New(n) \in S
                     /\ \A i \in 1..Len(New(n)) : New(n)[i].at = n /\ New(n)[i].place = i
  BY MarkersTyped
<1>3. << >> \in S
  OBVIOUS
<1> HIDE DEF N, New
<1>4. \A n \in 1..N : \A acc \in S : acc \o New(n) \in S
  BY <1>2, Joined
<1> HIDE DEF S
<1>5. Step \in [1..N -> [S -> S]]
  BY <1>4
<1>6. PICK g : IsFold(g, N, S, << >>, Step)
  <2> HIDE DEF Step
  <2> QED BY <1>1, <1>3, <1>5, FoldExists
<1>7. g = Body(g)
  <2>1. \A n \in 1..N : n - 1 \in 0..N /\ n \in 0..N
    BY <1>1
  <2>2. g \in [0..N -> S]
    BY <1>6 DEF IsFold
  <2>3. \A n \in 0..N : n = 0 \/ (n \in 1..N /\ n # 0)
    BY <1>1
  <2>4. \A n \in 1..N : Step[n][g[n - 1]] = g[n - 1] \o New(n)
    BY <2>1, <2>2
  <2> HIDE DEF Step
  <2>5. \A n \in 0..N : g[n] = IF n = 0 THEN << >> ELSE g[n - 1] \o New(n)
    BY <1>6, <2>3, <2>4 DEF IsFold
  <2> QED BY <2>2, <2>5
<1>8. f = Body(f)
  <2>1. f = CHOOSE h : h = Body(h)
    BY DEF MarkersUpTo, New, N
  <2> HIDE DEF f, Body
  <2> QED BY <1>7, <2>1
<1> HIDE DEF f
<1>9. f[0] = << >> /\ \A n \in 1..N : f[n] = f[n - 1] \o New(n)
  <2>1. \A n \in 0..N : f[n] = IF n = 0 THEN << >> ELSE f[n - 1] \o New(n)
    BY <1>8
  <2>2. 0 \in 0..N /\ \A n \in 1..N : n \in 0..N /\ n # 0
    BY <1>1
  <2> QED BY <2>1, <2>2
<1> DEFINE Below(n) == \A k \in 1..Len(f[n]) : f[n][k].at <= n
           P == {n \in 0..N : f[n] \in S /\ Apart(f[n]) /\ Below(n)}
<1>10. 0 \in P
  BY <1>1, <1>3, <1>9 DEF Apart
<1>11. ASSUME NEW n \in 0..N, n > 0, n - 1 \in P PROVE n \in P
  <2> DEFINE old == f[n - 1]
             more == New(n)
  <2>1. n \in 1..N /\ n - 1 \in 0..N /\ old \in S /\ Apart(old) /\ Below(n - 1)
    BY <1>1, <1>11
  <2>2. f[n] = old \o more /\ more \in S
        /\ \A i \in 1..Len(more) : more[i].at = n /\ more[i].place = i
    BY <1>2, <1>9, <2>1
  <2>3. \A k \in 1..Len(old) : old[k].at <= n - 1
    BY <2>1
  <2> HIDE DEF old, more, Below
  <2>4. /\ old \o more \in S /\ Len(old \o more) = Len(old) + Len(more)
        /\ Len(old) \in Nat /\ Len(more) \in Nat
        /\ \A i \in 1..Len(old) : (old \o more)[i] = old[i]
        /\ \A i \in 1..Len(more) : (old \o more)[Len(old) + i] = more[i]
    BY <2>1, <2>2, Joined DEF S
  <2> DEFINE both == old \o more
  <2>5. ASSUME NEW k \in 1..Len(both)
        PROVE  \/ k \in 1..Len(old) /\ both[k] = old[k]
               \/ /\ k > Len(old) /\ k - Len(old) \in 1..Len(more)
                  /\ both[k] = more[k - Len(old)]
    <3>1. CASE k <= Len(old)
      BY <2>4, <3>1
    <3>2. CASE k > Len(old)
      <4>1. k - Len(old) \in 1..Len(more) /\ Len(old) + (k - Len(old)) = k
        BY <2>4, <3>2
      <4> QED BY <2>4, <3>2, <4>1
    <3> QED BY <2>4, <3>1, <3>2
  <2>6. both \in S /\ Len(both) \in Nat
    BY <2>4
  <2> HIDE DEF both
  <2>7. \A k \in 1..Len(both) : both[k].at <= n
    <3> TAKE k \in 1..Len(both)
    <3>1. CASE k \in 1..Len(old) /\ both[k] = old[k]
      <4>1. old[k] \in FoundMarkers
        BY <2>1, <3>1 DEF S
      <4>2. old[k].at \in Int /\ old[k].at <= n - 1 /\ n \in Int
        BY <2>1, <2>3, <3>1, <4>1 DEF FoundMarkers, Positions
      <4> QED BY <3>1, <4>2
    <3>2. CASE k - Len(old) \in 1..Len(more) /\ both[k] = more[k - Len(old)]
      BY <2>1, <2>2, <3>2
    <3> QED BY <2>5, <3>1, <3>2
  <2>8. ASSUME NEW k \in 1..Len(both), NEW l \in 1..Len(both), both[k].at = both[l].at,
               both[k].place = both[l].place
        PROVE  k = l
    <3>1. CASE k \in 1..Len(old) /\ both[k] = old[k] /\ l \in 1..Len(old) /\ both[l] = old[l]
      BY <2>1, <2>8, <3>1 DEF Apart
    <3>2. CASE /\ k > Len(old) /\ k - Len(old) \in 1..Len(more)
               /\ both[k] = more[k - Len(old)]
               /\ l > Len(old) /\ l - Len(old) \in 1..Len(more)
               /\ both[l] = more[l - Len(old)]
      <4>1. k - Len(old) = l - Len(old)
        BY <2>2, <2>8, <3>2
      <4> QED BY <2>4, <2>6, <4>1
    <3>3. \A x : ~(x <= n - 1 /\ x = n)
      BY <2>1
    <3>4. \A x \in 1..Len(old) : \A y \in 1..Len(more) : old[x].at # more[y].at
      BY <2>2, <2>3, <3>3
    <3> QED BY <2>5, <2>8, <3>1, <3>2, <3>4
  <2>9. Apart(both)
    BY <2>8 DEF Apart
  <2>10. f[n] = both
    BY <2>2 DEF both
  <2>11. Below(n)
    BY <2>7, <2>10 DEF Below
  <2> QED BY <2>6, <2>9, <2>10, <2>11
<1>12. N \in P
  <2>1. 0..N \subseteq P
    <3> HIDE DEF P
    <3> QED BY <1>1, <1>10, <1>11, UpTheLine
  <2> QED BY <1>1, <2>1
<1> QED BY <1>12 DEF AllMarkers, f, N, S

\* What is known of each mention of a report.
LEMMA MentionFacts ==
    ASSUME NEW d \in DocumentForms
    PROVE  LET r == Parse(d) IN
           /\ \E m \in 0..MaxMentions : DOMAIN r.mentions = 1..m
           /\ \A i \in DOMAIN r.mentions :
                 /\ r.mentions[i].at \in Positions
                 /\ r.mentions[i].marker.numbers \subseteq Nat \ {0}
                 /\ r.mentions[i].marker.read \in BOOLEAN
                 /\ r.mentions[i].status =
                       Link(r.references, r.mentions[i].marker, r.uncertain)
           /\ \A i \in DOMAIN r.mentions : \A j \in DOMAIN r.mentions :
                 r.mentions[i].id = r.mentions[j].id => i = j
<1> DEFINE r == Parse(d)
           b == Bibliography(d)
           found == AllMarkers(d, b.taken)
           mentions == Mentions(found)
           n == Len(found)
           kept == IF n > MaxMentions THEN MaxMentions ELSE n
<1>1. r.mentions = [i \in DOMAIN mentions |-> Mention(mentions[i], r.references, r.uncertain)]
  BY DEF Parse
<1>2. found \in Seq(FoundMarkers) /\ Apart(found)
  BY AllMarkersTyped
<1> HIDE DEF found, r
<1>3. n \in Nat /\ kept \in 0..MaxMentions /\ \A i \in 1..kept : i \in 1..n
  BY <1>2, ParsingConstants
<1>4. mentions = [i \in 1..kept |-> [found[i] EXCEPT !.marker.read =
                                      @ /\ ~(i = MaxMentions /\ n > MaxMentions)]]
  BY DEF Mentions
<1> HIDE DEF n, kept, mentions
<1>5. DOMAIN mentions = 1..kept /\ DOMAIN r.mentions = 1..kept
  BY <1>1, <1>4
<1>6. ASSUME NEW i \in 1..kept
      PROVE  /\ mentions[i].at = found[i].at /\ mentions[i].place = found[i].place
             /\ mentions[i].at \in Positions
             /\ mentions[i].marker.numbers \subseteq Nat \ {0}
             /\ mentions[i].marker.read \in BOOLEAN
  <2>1. found[i] \in FoundMarkers
    BY <1>2, <1>3 DEF n
  <2>2. found[i].marker \in MarkerForms /\ 0 \notin found[i].marker.numbers
        /\ found[i].at \in Positions
    BY <2>1 DEF FoundMarkers
  <2>3. found[i].marker.numbers \subseteq Nat \ {0} /\ found[i].marker.read \in BOOLEAN
    BY <2>2 DEF MarkerForms
  <2>4. mentions[i] = [found[i] EXCEPT !.marker.read =
                                      @ /\ ~(i = MaxMentions /\ n > MaxMentions)]
    BY <1>4
  <2>5. mentions[i].at = found[i].at /\ mentions[i].place = found[i].place
        /\ mentions[i].marker.numbers = found[i].marker.numbers
    BY <2>1, <2>2, <2>4 DEF FoundMarkers, MarkerForms
  <2>6. mentions[i].marker.read = (found[i].marker.read /\ ~(i = MaxMentions /\ n > MaxMentions))
    BY <2>1, <2>2, <2>4 DEF FoundMarkers, MarkerForms
  <2> QED BY <2>2, <2>3, <2>5, <2>6
<1>7. \A i \in 1..kept : r.mentions[i] = Mention(mentions[i], r.references, r.uncertain)
  BY <1>1, <1>5
<1>8. ASSUME NEW i \in 1..kept
      PROVE  /\ r.mentions[i].id = <<found[i].at, found[i].place>>
             /\ r.mentions[i].at \in Positions
             /\ r.mentions[i].marker.numbers \subseteq Nat \ {0}
             /\ r.mentions[i].marker.read \in BOOLEAN
             /\ r.mentions[i].status = Link(r.references, r.mentions[i].marker, r.uncertain)
  <2>1. r.mentions[i] = Mention(mentions[i], r.references, r.uncertain)
    BY <1>7
  <2>2. /\ r.mentions[i].id = <<mentions[i].at, mentions[i].place>>
        /\ r.mentions[i].at = mentions[i].at /\ r.mentions[i].marker = mentions[i].marker
        /\ r.mentions[i].status = Link(r.references, mentions[i].marker, r.uncertain)
    BY <2>1 DEF Mention
  <2> QED BY <1>6, <2>2
<1>9. \A i \in 1..kept : \A j \in 1..kept : r.mentions[i].id = r.mentions[j].id => i = j
  BY <1>2, <1>3, <1>8 DEF Apart, n
<1>10. \E m \in 0..MaxMentions : DOMAIN r.mentions = 1..m
  BY <1>3, <1>5
<1>11. \A i \in DOMAIN r.mentions :
                 /\ r.mentions[i].at \in Positions
                 /\ r.mentions[i].marker.numbers \subseteq Nat \ {0}
                 /\ r.mentions[i].marker.read \in BOOLEAN
                 /\ r.mentions[i].status =
                       Link(r.references, r.mentions[i].marker, r.uncertain)
  BY <1>5, <1>8
<1>12. \A i \in DOMAIN r.mentions : \A j \in DOMAIN r.mentions :
                 r.mentions[i].id = r.mentions[j].id => i = j
  BY <1>5, <1>9
<1> QED BY <1>10, <1>11, <1>12 DEF r

\* An orphan was read, in a document read for certain, and matches nothing.
LEMMA LinkStatuses ==
    ASSUME NEW refs, NEW marker, NEW uncertain \in BOOLEAN, marker.read \in BOOLEAN
    PROVE  /\ Link(refs, marker, uncertain) \in MentionProblems \union {"LINKED"}
           /\ Link(refs, marker, uncertain) = "ORPHAN" =>
                 marker.read /\ ~uncertain /\ Matches(refs, marker) = {}
  BY DEF Link, MentionProblems

\* What is read for certain has a bibliography and legible references.
LEMMA UncertainReport ==
    ASSUME NEW d \in DocumentForms
    PROVE  LET r == Parse(d) IN
           /\ r.uncertain \in BOOLEAN
           /\ ~r.uncertain => /\ Bibliography(d).status = "PARSED"
                              /\ \A i \in DOMAIN r.references : r.references[i].status = "PARSED"
           /\ r.bibliography = Bibliography(d).status
           /\ r.duplicates \subseteq DOMAIN r.references
  BY DEF Parse, Uncertain

\* An orphan is a marker none of whose numbers is printed.
LEMMA OrphansAreCertain ==
    ASSUME doc \in DocumentForms, report = Parse(doc), NEW i \in DOMAIN report.mentions,
           report.mentions[i].status = "ORPHAN"
    PROVE  /\ report.mentions[i].marker.read
           /\ report.mentions[i].marker.numbers \intersect EntriesPrinted = {}
<1> DEFINE marker == report.mentions[i].marker
           refs == report.references
           b == Bibliography(doc)
<1>1. /\ marker.read \in BOOLEAN /\ marker.numbers \subseteq Nat \ {0}
      /\ Link(refs, marker, report.uncertain) = "ORPHAN"
  BY MentionFacts
<1>2. report.uncertain \in BOOLEAN
  BY UncertainReport
<1> HIDE DEF marker, refs
<1>3. marker.read /\ ~report.uncertain /\ Matches(refs, marker) = {}
  BY <1>1, <1>2, LinkStatuses
<1>4. b.status = "PARSED" /\ \A k \in DOMAIN refs : refs[k].status = "PARSED"
  BY <1>3, UncertainReport DEF refs
<1>5. /\ Len(b.groups) <= MaxReferences /\ DOMAIN refs = 1..Len(b.groups)
      /\ \A k \in DOMAIN refs : refs[k].printed = b.groups[k].number
  BY <1>4, ReferenceFacts DEF refs
<1>6. ASSUME NEW number \in marker.numbers, number \in EntriesPrinted PROVE FALSE
  <2>1. PICK at \in BackPositions(doc) :
           \E k \in 1..Len(Paragraphs(doc)[at].entries) :
              number = Paragraphs(doc)[at].entries[k].number
    BY <1>6 DEF EntriesPrinted
  <2>2. number # 0
    BY <1>1
  <2>3. PICK k \in 1..Len(b.groups) : b.groups[k].number = number
    <3> HIDE DEF b
    <3> QED BY <1>4, <1>5, <2>1, <2>2, PrintedNumbers DEF b
  <2>4. k \in Candidates(refs, number)
    BY <1>5, <2>3 DEF Candidates
  <2>5. k \in Matches(refs, marker)
    BY <2>4 DEF Matches
  <2> QED BY <1>3, <2>5
<1> QED BY <1>3, <1>6 DEF marker

-------------------------------------------------------------------------------
(* The rows of problems.                                                   *)

\* A list of a set: each of its elements once, and nothing else.
Lists(s, T) ==
    /\ s \in Seq(T)
    /\ \A x \in T : \E k \in 1..Len(s) : s[k] = x
    /\ \A k \in 1..Len(s) : \A l \in 1..Len(s) : s[k] = s[l] => k = l

\* A list of a set is as long as the set is large.
LEMMA ListSize ==
    ASSUME NEW T, NEW s, Lists(s, T)
    PROVE  IsFiniteSet(T) /\ Cardinality(T) = Len(s) /\ Len(s) \in Nat
<1>1. s \in Seq(T) /\ Len(s) \in Nat /\ s \in [1..Len(s) -> T]
  BY DEF Lists
<1>2. IsFiniteSet(1..Len(s)) /\ Cardinality(1..Len(s)) = Len(s)
  BY <1>1, FS_Interval
<1>3. IsFiniteSet(T) /\ Cardinality(T) = Cardinality(1..Len(s))
  BY <1>1, <1>2, SameSize DEF Lists
<1> QED BY <1>1, <1>2, <1>3

\* Lists of sets that have nothing in common make a list of both.
LEMMA ListsJoined ==
    ASSUME NEW S, NEW T, S \intersect T = {}, NEW s, Lists(s, S), NEW t, Lists(t, T)
    PROVE  Lists(s \o t, S \union T)
<1> DEFINE U == S \union T
           both == s \o t
<1>0. s \in Seq(S) /\ t \in Seq(T)
  BY DEF Lists
<1>1. s \in Seq(U) /\ t \in Seq(U) /\ Len(s) \in Nat /\ Len(t) \in Nat
      /\ (\A k \in 1..Len(s) : s[k] \in S) /\ (\A k \in 1..Len(t) : t[k] \in T)
  BY <1>0
<1> HIDE DEF U
<1>2. /\ both \in Seq(U) /\ Len(both) = Len(s) + Len(t)
      /\ \A k \in 1..Len(s) : both[k] = s[k]
      /\ \A k \in 1..Len(t) : both[Len(s) + k] = t[k]
  BY <1>1, Joined
<1> HIDE DEF both
<1>3. ASSUME NEW k \in 1..Len(both)
      PROVE  \/ k \in 1..Len(s) /\ both[k] = s[k]
             \/ k - Len(s) \in 1..Len(t) /\ both[k] = t[k - Len(s)]
  <2>1. CASE k <= Len(s)
    BY <1>1, <1>2, <2>1
  <2>2. CASE k > Len(s)
    <3>1. k - Len(s) \in 1..Len(t) /\ Len(s) + (k - Len(s)) = k
      BY <1>1, <1>2, <2>2
    <3> QED BY <1>2, <3>1
  <2> QED BY <1>1, <2>1, <2>2
<1>4. ASSUME NEW x \in U PROVE \E k \in 1..Len(both) : both[k] = x
  <2>1. CASE x \in S
    <3>1. PICK k \in 1..Len(s) : s[k] = x
      BY <2>1 DEF Lists
    <3>2. k \in 1..Len(both) /\ both[k] = x
      BY <1>1, <1>2, <3>1
    <3> QED BY <3>2
  <2>2. CASE x \in T
    <3>1. PICK k \in 1..Len(t) : t[k] = x
      BY <2>2 DEF Lists
    <3>2. Len(s) + k \in 1..Len(both) /\ both[Len(s) + k] = x
      BY <1>1, <1>2, <3>1
    <3> QED BY <3>2
  <2> QED BY <2>1, <2>2 DEF U
<1>5. ASSUME NEW k \in 1..Len(both), NEW l \in 1..Len(both), both[k] = both[l] PROVE k = l
  <2>1. CASE k \in 1..Len(s) /\ both[k] = s[k] /\ l \in 1..Len(s) /\ both[l] = s[l]
    BY <1>5, <2>1 DEF Lists
  <2>2. CASE /\ k - Len(s) \in 1..Len(t) /\ both[k] = t[k - Len(s)]
             /\ l - Len(s) \in 1..Len(t) /\ both[l] = t[l - Len(s)]
    <3>1. k - Len(s) = l - Len(s)
      BY <1>5, <2>2 DEF Lists
    <3> QED BY <1>1, <1>2, <3>1
  <2>3. \A x \in 1..Len(s) : \A y \in 1..Len(t) : s[x] # t[y]
    BY <1>1
  <2> QED BY <1>3, <1>5, <2>1, <2>2, <2>3
<1> QED BY <1>2, <1>4, <1>5 DEF Lists, both, U

\* Different things at different places, which together are a set.
Tells(at, n, T) ==
    /\ DOMAIN at \in SUBSET (1..n)
    /\ \A i \in DOMAIN at : at[i] \in T
    /\ \A x \in T : \E i \in DOMAIN at : x = at[i]
    /\ \A i \in DOMAIN at : \A j \in DOMAIN at : at[i] = at[j] => i = j

ListsPlaces(at, T) ==
    Lists(Ordered(at), T) /\ Cardinality(T) = Cardinality(DOMAIN at)

\* What different places say, in their order, lists what they say.
LEMMA OrderedListed ==
    ASSUME NEW n \in Nat, NEW at, NEW T, Tells(at, n, T)
    PROVE  ListsPlaces(at, T)
<1>1. /\ DOMAIN at \in SUBSET (1..n)
      /\ \A i \in DOMAIN at : at[i] \in T
      /\ \A x \in T : \E i \in DOMAIN at : x = at[i]
      /\ \A i \in DOMAIN at : \A j \in DOMAIN at : at[i] = at[j] => i = j
  BY DEF Tells
<1>3. Ordered(at) \in Seq(T) /\ Len(Ordered(at)) = Cardinality(DOMAIN at)
  BY <1>1, OrderedTyped
<1>4. \A i \in DOMAIN at : \E k \in 1..Len(Ordered(at)) : Ordered(at)[k] = at[i]
  BY <1>1, OrderedTyped
<1>5. \A k \in 1..Len(Ordered(at)) : \A l \in 1..Len(Ordered(at)) :
         Ordered(at)[k] = Ordered(at)[l] => k = l
  BY <1>1, OrderedTyped
<1>6. Lists(Ordered(at), T)
  BY <1>1, <1>3, <1>4, <1>5 DEF Lists
<1> QED BY <1>3, <1>6, ListSize DEF ListsPlaces

\* What the rows need of a report.
ReportInOrder ==
    /\ \E m \in 0..MaxReferences : DOMAIN report.references = 1..m
    /\ \A i \in DOMAIN report.references :
          report.references[i].status \in ReferenceStatuses
    /\ \A i \in DOMAIN report.references : \A j \in DOMAIN report.references :
          report.references[i].id = report.references[j].id => i = j
    /\ \E m \in 0..MaxMentions : DOMAIN report.mentions = 1..m
    /\ \A i \in DOMAIN report.mentions :
          report.mentions[i].status \in MentionProblems \union {"LINKED"}
    /\ \A i \in DOMAIN report.mentions : \A j \in DOMAIN report.mentions :
          report.mentions[i].id = report.mentions[j].id => i = j
    /\ report.duplicates \subseteq DOMAIN report.references

\* It holds of what the parser makes of a document.
LEMMA ReportIsInOrder ==
    ASSUME doc \in DocumentForms, report = Parse(doc)
    PROVE  ReportInOrder
<1>1. /\ \E m \in 0..MaxReferences : DOMAIN report.references = 1..m
      /\ \A i \in DOMAIN report.references :
            report.references[i].status \in ReferenceStatuses
      /\ \A i \in DOMAIN report.references : \A j \in DOMAIN report.references :
            report.references[i].id = report.references[j].id => i = j
  BY ReferenceFacts
<1>2. /\ \E m \in 0..MaxMentions : DOMAIN report.mentions = 1..m
      /\ \A i \in DOMAIN report.mentions :
            /\ report.mentions[i].marker.read \in BOOLEAN
            /\ report.mentions[i].status =
                  Link(report.references, report.mentions[i].marker, report.uncertain)
      /\ \A i \in DOMAIN report.mentions : \A j \in DOMAIN report.mentions :
            report.mentions[i].id = report.mentions[j].id => i = j
  BY MentionFacts
<1>3. report.uncertain \in BOOLEAN /\ report.duplicates \subseteq DOMAIN report.references
  BY UncertainReport
<1>4. \A i \in DOMAIN report.mentions :
         report.mentions[i].status \in MentionProblems \union {"LINKED"}
  BY <1>2, <1>3, LinkStatuses
<1> QED BY <1>1, <1>2, <1>3, <1>4 DEF ReportInOrder

\* Its references and mentions are lists, as long as they have places.
ReportSized ==
    /\ Len(report.references) = Cardinality(DOMAIN report.references)
    /\ Len(report.mentions) = Cardinality(DOMAIN report.mentions)

\* A function of 1 to n is as long as it has places.
LEMMA ListPlaces ==
    ASSUME NEW n \in Nat, NEW f, f = [i \in 1..n |-> f[i]]
    PROVE  Len(f) = Cardinality(DOMAIN f)
<1>1. f \in [1..n -> {f[i] : i \in 1..n}]
  OBVIOUS
<1>2. Len(f) = n /\ DOMAIN f = 1..n
  BY <1>1, FunctionIsList
<1>3. Cardinality(1..n) = n
  BY FS_Interval
<1> QED BY <1>2, <1>3

\* It holds of what the parser makes of a document.
LEMMA ReportIsSized ==
    ASSUME doc \in DocumentForms, report = Parse(doc)
    PROVE  ReportSized
<1>1. /\ \E m \in 0..MaxReferences : DOMAIN report.references = 1..m
      /\ \E m \in 0..MaxMentions : DOMAIN report.mentions = 1..m
  BY ReferenceFacts, MentionFacts
<1>2. /\ report.references = [i \in DOMAIN report.references |-> report.references[i]]
      /\ report.mentions = [i \in DOMAIN report.mentions |-> report.mentions[i]]
  <2> DEFINE b == Bibliography(doc)
             mentions == Mentions(AllMarkers(doc, b.taken))
             uncertain == Uncertain(b, References(b), mentions)
  <2>1. \A x : References(x) = [i \in DOMAIN References(x) |-> References(x)[i]]
    BY DEF References
  <2>2. report.references = References(b)
    BY DEF Parse
  <2>3. report.mentions =
           [i \in DOMAIN mentions |-> Mention(mentions[i], References(b), uncertain)]
    BY DEF Parse
  <2> HIDE DEF b, mentions, uncertain
  <2> QED BY <2>1, <2>2, <2>3
<1>3. \A n \in 0..MaxReferences : n \in Nat
  BY ParsingConstants
<1>4. \A n \in 0..MaxMentions : n \in Nat
  BY ParsingConstants
<1> QED BY <1>1, <1>2, <1>3, <1>4, ListPlaces DEF ReportSized

\* The rows of each kind.
UnidentifiedRows(answers) ==
    {ReferenceRow(i, Identities(answers)[i]) : i \in Unidentified(answers)}
UnlinkedRows == {MentionRow(i) : i \in Unlinked}
UncitedRows == {ReferenceRow(i, "UNCITED") : i \in Uncited}
DoubledRows == {ReferenceRow(i, "DUPLICATE") : i \in report.duplicates}
Rows(answers) == UnidentifiedRows(answers) \union UnlinkedRows \union UncitedRows \union DoubledRows

UnidentifiedStatuses == {"FRAGMENTED", "UNCERTAIN", "UNRESOLVED", "MISMATCH"}

\* What a row says.
LEMMA RowFields ==
    /\ \A i, status : /\ ReferenceRow(i, status).id = report.references[i].id
                      /\ ReferenceRow(i, status).status = status
    /\ \A i : /\ MentionRow(i).id = <<report.mentions[i].id>>
              /\ MentionRow(i).status = report.mentions[i].status
  BY DEF ReferenceRow, MentionRow, Row

\* An identity is one of four problems or VERIFIED; a legible entry is compared.
LEMMA IdentityKnown ==
    ASSUME ReportInOrder, NEW answers \in Answers, NEW i \in DOMAIN report.references
    PROVE  /\ Identities(answers)[i] \in UnidentifiedStatuses \union {"VERIFIED"}
           /\ Identities(answers)[i] \in {"MISMATCH", "UNRESOLVED", "VERIFIED"}
                 <=> report.references[i].status = "PARSED"
           /\ report.references[i].status # "PARSED" =>
                 Identities(answers)[i] = report.references[i].status
<1>1. answers[i] \in {"none", "agrees", "differs"}
  <2>1. PICK m \in 0..MaxReferences : DOMAIN report.references = 1..m
    BY DEF ReportInOrder
  <2>2. i \in 1..MaxReferences
    BY <2>1, ParsingConstants
  <2>3. answers \in [1..MaxReferences -> Answer]
    BY FindingsConstants
  <2> QED BY <2>2, <2>3 DEF Answer
<1>2. Identities(answers)[i] = Identity(report.references[i], answers[i])
  BY DEF Identities
<1>3. report.references[i].status \in {"PARSED", "FRAGMENTED", "UNCERTAIN"}
  BY DEF ReportInOrder, ReferenceStatuses
<1>4. CASE report.references[i].status # "PARSED"
  <2>1. Identities(answers)[i] = report.references[i].status
    BY <1>2, <1>4 DEF Identity
  <2> QED BY <1>3, <1>4, <2>1 DEF UnidentifiedStatuses
<1>5. CASE report.references[i].status = "PARSED"
  <2>1. Identities(answers)[i] \in {"MISMATCH", "UNRESOLVED", "VERIFIED"}
    BY <1>1, <1>2, <1>5 DEF Identity
  <2> QED BY <1>5, <2>1 DEF UnidentifiedStatuses
<1> QED BY <1>4, <1>5

\* The kinds of rows are told apart by their statuses.
LEMMA RowStatuses ==
    ASSUME ReportInOrder, NEW answers \in Answers
    PROVE  /\ \A r \in UnidentifiedRows(answers) : r.status \in UnidentifiedStatuses
           /\ \A r \in UnlinkedRows : r.status \in MentionProblems
           /\ \A r \in UncitedRows : r.status = "UNCITED"
           /\ \A r \in DoubledRows : r.status = "DUPLICATE"
<1>1. ASSUME NEW r \in UnidentifiedRows(answers) PROVE r.status \in UnidentifiedStatuses
  <2>1. PICK i \in Unidentified(answers) : r = ReferenceRow(i, Identities(answers)[i])
    BY DEF UnidentifiedRows
  <2>2. i \in DOMAIN report.references /\ Identities(answers)[i] # "VERIFIED"
    BY DEF Unidentified
  <2>3. Identities(answers)[i] \in UnidentifiedStatuses
    BY <2>2, IdentityKnown
  <2> QED BY <2>1, <2>3, RowFields
<1>2. \A r \in UnlinkedRows : r.status \in MentionProblems
  BY RowFields DEF UnlinkedRows, Unlinked
<1>3. \A r \in UncitedRows : r.status = "UNCITED"
  BY RowFields DEF UncitedRows
<1>4. \A r \in DoubledRows : r.status = "DUPLICATE"
  BY RowFields DEF DoubledRows
<1> QED BY <1>1, <1>2, <1>3, <1>4

\* The rows about each kind of place.
UnidentifiedAt(answers) ==
    [i \in Unidentified(answers) |-> ReferenceRow(i, Identities(answers)[i])]
UnlinkedAt == [i \in Unlinked |-> MentionRow(i)]
UncitedAt == [i \in Uncited |-> ReferenceRow(i, "UNCITED")]
DoubledAt == [i \in report.duplicates |-> ReferenceRow(i, "DUPLICATE")]

\* The parts of IssueRows are lists of the rows of each kind.
PartsAreListed(answers) ==
    /\ ListsPlaces(UnidentifiedAt(answers), UnidentifiedRows(answers))
    /\ ListsPlaces(UnlinkedAt, UnlinkedRows)
    /\ ListsPlaces(UncitedAt, UncitedRows)
    /\ ListsPlaces(DoubledAt, DoubledRows)

\* Rows on references of one kind are told apart by the references.
LEMMA ReferencesTold ==
    ASSUME ReportInOrder, NEW m \in Nat, DOMAIN report.references = 1..m,
           NEW at, NEW T, DOMAIN at \in SUBSET (1..m),
           \A i \in DOMAIN at : at[i] \in T /\ at[i].id = report.references[i].id,
           \A x \in T : \E i \in DOMAIN at : x = at[i]
    PROVE  ListsPlaces(at, T)
<1>1. ASSUME NEW i \in DOMAIN at, NEW j \in DOMAIN at, at[i] = at[j] PROVE i = j
  <2>1. report.references[i].id = report.references[j].id
    BY <1>1
  <2>2. i \in DOMAIN report.references /\ j \in DOMAIN report.references
    OBVIOUS
  <2> QED BY <2>1, <2>2 DEF ReportInOrder
<1>2. Tells(at, m, T)
  BY <1>1 DEF Tells
<1> QED BY <1>2, OrderedListed

\* Each part of IssueRows lists the rows of its kind.
LEMMA PartsListed ==
    ASSUME ReportInOrder, NEW answers \in Answers
    PROVE  PartsAreListed(answers)
<1>1. PICK m \in 0..MaxReferences : DOMAIN report.references = 1..m
  BY DEF ReportInOrder
<1>2. PICK q \in 0..MaxMentions : DOMAIN report.mentions = 1..q
  BY DEF ReportInOrder
<1>3. m \in Nat /\ q \in Nat
  BY ParsingConstants
<1>4. /\ Unidentified(answers) \in SUBSET (1..m) /\ Uncited \in SUBSET (1..m)
      /\ report.duplicates \in SUBSET (1..m) /\ Unlinked \in SUBSET (1..q)
  BY <1>1, <1>2 DEF ReportInOrder, Unidentified, Uncited, Legible, Unlinked
<1>5. ListsPlaces(UnidentifiedAt(answers), UnidentifiedRows(answers))
  <2> DEFINE at == UnidentifiedAt(answers)
  <2>1. DOMAIN at = Unidentified(answers)
        /\ \A i \in Unidentified(answers) : at[i] = ReferenceRow(i, Identities(answers)[i])
    BY DEF UnidentifiedAt
  <2>2. \A x \in UnidentifiedRows(answers) : \E i \in Unidentified(answers) :
           x = ReferenceRow(i, Identities(answers)[i])
    BY DEF UnidentifiedRows
  <2>3. \A i \in Unidentified(answers) : at[i] \in UnidentifiedRows(answers)
    BY <2>1 DEF UnidentifiedRows
  <2> HIDE DEF at
  <2>4. /\ \A i \in DOMAIN at : at[i] \in UnidentifiedRows(answers)
                                /\ at[i].id = report.references[i].id
        /\ \A x \in UnidentifiedRows(answers) : \E i \in DOMAIN at : x = at[i]
    BY <2>1, <2>2, <2>3, RowFields
  <2>5. DOMAIN at \in SUBSET (1..m)
    BY <1>4, <2>1
  <2>6. ListsPlaces(at, UnidentifiedRows(answers))
    BY <1>1, <1>3, <2>4, <2>5, ReferencesTold
  <2> QED BY <2>6 DEF at
<1>6. ListsPlaces(UnlinkedAt, UnlinkedRows)
  <2> DEFINE at == UnlinkedAt
  <2>1. DOMAIN at = Unlinked /\ \A i \in Unlinked : at[i] = MentionRow(i)
    BY DEF UnlinkedAt
  <2>2. \A x \in UnlinkedRows : \E i \in Unlinked : x = MentionRow(i)
    BY DEF UnlinkedRows
  <2>3. \A i \in Unlinked : at[i] \in UnlinkedRows
    BY <2>1 DEF UnlinkedRows
  <2> HIDE DEF at
  <2>4. ASSUME NEW i \in DOMAIN at, NEW j \in DOMAIN at, at[i] = at[j] PROVE i = j
    <3>1. MentionRow(i).id = MentionRow(j).id
      BY <2>1, <2>4
    <3>2. <<report.mentions[i].id>> = <<report.mentions[j].id>>
      BY <3>1, RowFields
    <3>3. report.mentions[i].id = report.mentions[j].id
      BY <3>2
    <3>4. i \in DOMAIN report.mentions /\ j \in DOMAIN report.mentions
      BY <1>2, <1>4, <2>1
    <3> QED BY <3>3, <3>4 DEF ReportInOrder
  <2>5. Tells(at, q, UnlinkedRows)
    <3>1. /\ DOMAIN at \in SUBSET (1..q)
          /\ \A i \in DOMAIN at : at[i] \in UnlinkedRows
          /\ \A x \in UnlinkedRows : \E i \in DOMAIN at : x = at[i]
      BY <1>4, <2>1, <2>2, <2>3
    <3> QED BY <2>4, <3>1 DEF Tells
  <2>6. ListsPlaces(at, UnlinkedRows)
    BY <1>3, <2>5, OrderedListed
  <2> QED BY <2>6 DEF at
<1>7. ListsPlaces(UncitedAt, UncitedRows)
  <2> DEFINE at == UncitedAt
  <2>1. DOMAIN at = Uncited
        /\ \A i \in Uncited : at[i] = ReferenceRow(i, "UNCITED")
    BY DEF UncitedAt
  <2>2. \A x \in UncitedRows : \E i \in Uncited : x = ReferenceRow(i, "UNCITED")
    BY DEF UncitedRows
  <2>3. \A i \in Uncited : at[i] \in UncitedRows
    BY <2>1 DEF UncitedRows
  <2> HIDE DEF at
  <2>4. /\ \A i \in DOMAIN at : at[i] \in UncitedRows
                                /\ at[i].id = report.references[i].id
        /\ \A x \in UncitedRows : \E i \in DOMAIN at : x = at[i]
    BY <2>1, <2>2, <2>3, RowFields
  <2>5. DOMAIN at \in SUBSET (1..m)
    BY <1>4, <2>1
  <2>6. ListsPlaces(at, UncitedRows)
    BY <1>1, <1>3, <2>4, <2>5, ReferencesTold
  <2> QED BY <2>6 DEF at
<1>8. ListsPlaces(DoubledAt, DoubledRows)
  <2> DEFINE at == DoubledAt
  <2>1. DOMAIN at = report.duplicates
        /\ \A i \in report.duplicates : at[i] = ReferenceRow(i, "DUPLICATE")
    BY DEF DoubledAt
  <2>2. \A x \in DoubledRows : \E i \in report.duplicates : x = ReferenceRow(i, "DUPLICATE")
    BY DEF DoubledRows
  <2>3. \A i \in report.duplicates : at[i] \in DoubledRows
    BY <2>1 DEF DoubledRows
  <2> HIDE DEF at
  <2>4. /\ \A i \in DOMAIN at : at[i] \in DoubledRows
                                /\ at[i].id = report.references[i].id
        /\ \A x \in DoubledRows : \E i \in DOMAIN at : x = at[i]
    BY <2>1, <2>2, <2>3, RowFields
  <2>5. DOMAIN at \in SUBSET (1..m)
    BY <1>4, <2>1
  <2>6. ListsPlaces(at, DoubledRows)
    BY <1>1, <1>3, <2>4, <2>5, ReferencesTold
  <2> QED BY <2>6 DEF at
<1> QED BY <1>5, <1>6, <1>7, <1>8 DEF PartsAreListed

\* IssueRows lists the rows of all problems, each of them once.
LEMMA RowsListed ==
    ASSUME ReportInOrder, NEW answers \in Answers
    PROVE  Lists(IssueRows(answers), Rows(answers))
<1>1. /\ Lists(Ordered(UnidentifiedAt(answers)), UnidentifiedRows(answers))
      /\ Lists(Ordered(UnlinkedAt), UnlinkedRows)
      /\ Lists(Ordered(UncitedAt), UncitedRows)
      /\ Lists(Ordered(DoubledAt), DoubledRows)
  BY PartsListed DEF PartsAreListed, ListsPlaces
<1>2. /\ \A r \in UnidentifiedRows(answers) : r.status \in UnidentifiedStatuses
      /\ \A r \in UnlinkedRows : r.status \in MentionProblems
      /\ \A r \in UncitedRows : r.status = "UNCITED"
      /\ \A r \in DoubledRows : r.status = "DUPLICATE"
  BY RowStatuses
<1>3. /\ UnidentifiedRows(answers) \intersect UnlinkedRows = {}
      /\ (UnidentifiedRows(answers) \union UnlinkedRows) \intersect UncitedRows = {}
      /\ (UnidentifiedRows(answers) \union UnlinkedRows \union UncitedRows)
            \intersect DoubledRows = {}
  BY <1>2 DEF UnidentifiedStatuses, MentionProblems
<1>4. Lists(Ordered(UnidentifiedAt(answers)) \o Ordered(UnlinkedAt),
            UnidentifiedRows(answers) \union UnlinkedRows)
  BY <1>1, <1>3, ListsJoined
<1>5. Lists(Ordered(UnidentifiedAt(answers)) \o Ordered(UnlinkedAt) \o Ordered(UncitedAt),
            UnidentifiedRows(answers) \union UnlinkedRows \union UncitedRows)
  BY <1>1, <1>3, <1>4, ListsJoined
<1>6. Lists(Ordered(UnidentifiedAt(answers)) \o Ordered(UnlinkedAt) \o Ordered(UncitedAt)
               \o Ordered(DoubledAt), Rows(answers))
  BY <1>1, <1>3, <1>5, ListsJoined DEF Rows
<1> QED BY <1>6 DEF IssueRows, UnidentifiedAt, UnlinkedAt, UncitedAt, DoubledAt

\* What is kept of a row: a few of its anchors.
Trimmed(r) == [r EXCEPT !.anchors = UpTo(Distinct(@), MaxAnchors)]
Shown(answers) == {Trimmed(r) : r \in Rows(answers)}

\* A row is about a reference or about a mention.
LEMMA RowOrigin ==
    ASSUME ReportInOrder, NEW answers \in Answers, NEW r \in Rows(answers)
    PROVE  \/ /\ r.status \in UnidentifiedStatuses \union {"UNCITED", "DUPLICATE"}
              /\ \E i \in DOMAIN report.references : r = ReferenceRow(i, r.status)
           \/ /\ r.status \in MentionProblems
              /\ \E i \in DOMAIN report.mentions : r = MentionRow(i)
<1>1. CASE r \in UnidentifiedRows(answers)
  <2>1. PICK i \in Unidentified(answers) : r = ReferenceRow(i, Identities(answers)[i])
    BY <1>1 DEF UnidentifiedRows
  <2>2. r.status = Identities(answers)[i] /\ i \in DOMAIN report.references
    BY <2>1, RowFields DEF Unidentified
  <2>3. r.status \in UnidentifiedStatuses
    BY <1>1, RowStatuses
  <2> QED BY <2>1, <2>2, <2>3
<1>2. CASE r \in UnlinkedRows
  <2>1. PICK i \in Unlinked : r = MentionRow(i)
    BY <1>2 DEF UnlinkedRows
  <2>2. i \in DOMAIN report.mentions
    BY DEF Unlinked
  <2>3. r.status \in MentionProblems
    BY <1>2, RowStatuses
  <2> QED BY <2>1, <2>2, <2>3
<1>3. CASE r \in UncitedRows
  <2>1. PICK i \in Uncited : r = ReferenceRow(i, "UNCITED")
    BY <1>3 DEF UncitedRows
  <2>2. i \in DOMAIN report.references /\ r.status = "UNCITED"
    BY <2>1, RowFields DEF Uncited, Legible
  <2> QED BY <2>1, <2>2
<1>4. CASE r \in DoubledRows
  <2>1. PICK i \in report.duplicates : r = ReferenceRow(i, "DUPLICATE")
    BY <1>4 DEF DoubledRows
  <2>2. i \in DOMAIN report.references /\ r.status = "DUPLICATE"
    BY <2>1, RowFields DEF ReportInOrder
  <2> QED BY <2>1, <2>2
<1> QED BY <1>1, <1>2, <1>3, <1>4 DEF Rows

\* A row is told by its id and its status.
LEMMA RowKeys ==
    ASSUME ReportInOrder, NEW answers \in Answers,
           NEW r \in Rows(answers), NEW t \in Rows(answers), r.id = t.id, r.status = t.status
    PROVE  r = t
<1>1. CASE r.status \in MentionProblems
  <2>1. r.status \notin UnidentifiedStatuses \union {"UNCITED", "DUPLICATE"}
    BY <1>1 DEF UnidentifiedStatuses, MentionProblems
  <2>2. PICK i \in DOMAIN report.mentions : r = MentionRow(i)
    BY <2>1, RowOrigin
  <2>3. PICK j \in DOMAIN report.mentions : t = MentionRow(j)
    BY <2>1, RowOrigin
  <2>4. <<report.mentions[i].id>> = <<report.mentions[j].id>>
    BY <2>2, <2>3, RowFields
  <2>5. report.mentions[i].id = report.mentions[j].id
    BY <2>4
  <2>6. i = j
    BY <2>5 DEF ReportInOrder
  <2> QED BY <2>2, <2>3, <2>6
<1>2. CASE r.status \notin MentionProblems
  <2>1. PICK i \in DOMAIN report.references : r = ReferenceRow(i, r.status)
    BY <1>2, RowOrigin
  <2>2. PICK j \in DOMAIN report.references : t = ReferenceRow(j, t.status)
    BY <1>2, RowOrigin
  <2>3. report.references[i].id = report.references[j].id
    BY <2>1, <2>2, RowFields
  <2>4. i = j
    BY <2>3 DEF ReportInOrder
  <2> QED BY <2>1, <2>2, <2>4
<1> QED BY <1>1, <1>2

\* Only the anchors of a row are cut.
LEMMA TrimmedFields ==
    ASSUME ReportInOrder, NEW answers \in Answers, NEW r \in Rows(answers)
    PROVE  /\ Trimmed(r).id = r.id /\ Trimmed(r).status = r.status
           /\ Trimmed(r).anchors = UpTo(Distinct(r.anchors), MaxAnchors)
<1>1. \E id, status, anchors : r = [id |-> id, status |-> status, anchors |-> anchors]
  BY RowOrigin DEF ReferenceRow, MentionRow, Row
<1>2. PICK id, status, anchors : r = [id |-> id, status |-> status, anchors |-> anchors]
  BY <1>1
<1>3. Trimmed(r) = [id |-> id, status |-> status, anchors |-> UpTo(Distinct(anchors), MaxAnchors)]
  BY <1>2 DEF Trimmed
<1> QED BY <1>2, <1>3

\* No row is lost: the rows kept are those of the problems, with a few anchors each.
LEMMA IssuesListed ==
    ASSUME ReportInOrder, NEW answers \in Answers
    PROVE  /\ Lists(Issues(IssueRows(answers)), Shown(answers))
           /\ Len(Issues(IssueRows(answers))) = Len(IssueRows(answers))
<1> DEFINE rows == IssueRows(answers)
           n == Len(rows)
           firsts == {i \in DOMAIN rows : \A j \in 1..i - 1 :
                        <<rows[j].id, rows[j].status>> # <<rows[i].id, rows[i].status>>}
           at == [i \in firsts |-> [rows[i] EXCEPT !.anchors = UpTo(Distinct(@), MaxAnchors)]]
<1>1. /\ rows \in Seq(Rows(answers)) /\ n \in Nat /\ DOMAIN rows = 1..n
      /\ \A i \in 1..n : rows[i] \in Rows(answers)
      /\ \A x \in Rows(answers) : \E k \in 1..n : rows[k] = x
      /\ \A k \in 1..n : \A l \in 1..n : rows[k] = rows[l] => k = l
  BY RowsListed DEF Lists
<1>2. Issues(rows) = Ordered(at)
  BY DEF Issues
<1> HIDE DEF rows, n
<1>3. ASSUME NEW i \in 1..n, NEW j \in 1..i - 1
      PROVE  <<rows[j].id, rows[j].status>> # <<rows[i].id, rows[i].status>>
  <2>1. j \in 1..n /\ i # j
    BY <1>1, <1>3
  <2>2. rows[i] # rows[j] /\ rows[i] \in Rows(answers) /\ rows[j] \in Rows(answers)
    BY <1>1, <2>1
  <2>3. ~(rows[j].id = rows[i].id /\ rows[j].status = rows[i].status)
    BY <2>2, RowKeys
  <2> QED BY <2>3
<1>4. firsts = 1..n
  BY <1>1, <1>3
<1>5. DOMAIN at = 1..n /\ \A i \in 1..n : at[i] = Trimmed(rows[i])
  <2> HIDE DEF firsts
  <2> QED BY <1>4 DEF Trimmed
<1> HIDE DEF at
<1>6. ASSUME NEW i \in 1..n PROVE at[i] \in Shown(answers)
  BY <1>1, <1>5 DEF Shown
<1>7. ASSUME NEW x \in Shown(answers) PROVE \E i \in 1..n : x = at[i]
  <2>1. PICK r \in Rows(answers) : x = Trimmed(r)
    BY DEF Shown
  <2>2. PICK i \in 1..n : rows[i] = r
    BY <1>1
  <2>3. x = at[i]
    BY <1>5, <2>1, <2>2
  <2> QED BY <2>3
<1>8. ASSUME NEW i \in 1..n, NEW j \in 1..n, at[i] = at[j] PROVE i = j
  <2>1. rows[i] \in Rows(answers) /\ rows[j] \in Rows(answers)
    BY <1>1
  <2>2. Trimmed(rows[i]) = Trimmed(rows[j])
    BY <1>5, <1>8
  <2>3. rows[i].id = rows[j].id /\ rows[i].status = rows[j].status
    BY <2>1, <2>2, TrimmedFields
  <2>4. rows[i] = rows[j]
    BY <2>1, <2>3, RowKeys
  <2> QED BY <1>1, <2>4
<1>9. Tells(at, n, Shown(answers))
  <2>1. DOMAIN at \in SUBSET (1..n)
    BY <1>5
  <2> QED BY <1>5, <1>6, <1>7, <1>8, <2>1 DEF Tells
<1>10. ListsPlaces(at, Shown(answers))
  BY <1>1, <1>9, OrderedListed
<1>11. Lists(Issues(rows), Shown(answers)) /\ Cardinality(Shown(answers)) = Cardinality(1..n)
  BY <1>2, <1>5, <1>10 DEF ListsPlaces
<1>12. Cardinality(1..n) = n
  BY <1>1, FS_Interval
<1>13. Len(Issues(rows)) = n
  BY <1>11, <1>12, ListSize
<1> QED BY <1>11, <1>13 DEF rows, n

\* Two sets with nothing in common are as many as both.
LEMMA DisjointSize ==
    ASSUME NEW S, NEW T, IsFiniteSet(S), IsFiniteSet(T), S \intersect T = {}
    PROVE  /\ IsFiniteSet(S \union T) /\ Cardinality(S) \in Nat /\ Cardinality(T) \in Nat
           /\ Cardinality(S \union T) = Cardinality(S) + Cardinality(T)
<1>1. Cardinality(S) \in Nat /\ Cardinality(T) \in Nat
  BY FS_CardinalityType
<1>2. /\ IsFiniteSet(S \union T)
      /\ Cardinality(S \union T) = Cardinality(S) + Cardinality(T) - Cardinality(S \intersect T)
  BY FS_Union
<1>3. Cardinality(S \intersect T) = 0
  BY FS_EmptySet
<1> QED BY <1>1, <1>2, <1>3

\* The references and mentions of a report are finitely many.
LEMMA ReportFinite ==
    ASSUME ReportInOrder
    PROVE  /\ IsFiniteSet(DOMAIN report.references) /\ IsFiniteSet(DOMAIN report.mentions)
           /\ \A S \in SUBSET DOMAIN report.references : IsFiniteSet(S) /\ Cardinality(S) \in Nat
           /\ \A S \in SUBSET DOMAIN report.mentions : IsFiniteSet(S) /\ Cardinality(S) \in Nat
<1>1. PICK m \in 0..MaxReferences : DOMAIN report.references = 1..m
  BY DEF ReportInOrder
<1>2. PICK q \in 0..MaxMentions : DOMAIN report.mentions = 1..q
  BY DEF ReportInOrder
<1>3. m \in Nat /\ q \in Nat
  BY ParsingConstants
<1>4. IsFiniteSet(1..m) /\ IsFiniteSet(1..q)
  BY <1>3, FS_Interval
<1> QED BY <1>1, <1>2, <1>4, FS_Subset, FS_CardinalityType

\* As many rows as there are problems of each kind.
LEMMA RowCount ==
    ASSUME ReportInOrder, NEW answers \in Answers
    PROVE  /\ Cardinality(Unidentified(answers)) \in Nat /\ Cardinality(Unlinked) \in Nat
           /\ Cardinality(Uncited) \in Nat /\ Cardinality(report.duplicates) \in Nat
           /\ Len(IssueRows(answers)) =
                 Cardinality(Unidentified(answers)) + Cardinality(Unlinked)
                 + Cardinality(Uncited) + Cardinality(report.duplicates)
<1> DEFINE U == UnidentifiedRows(answers)
<1>1. /\ Unidentified(answers) \in SUBSET DOMAIN report.references
      /\ Uncited \in SUBSET DOMAIN report.references
      /\ report.duplicates \in SUBSET DOMAIN report.references
      /\ Unlinked \in SUBSET DOMAIN report.mentions
  BY DEF ReportInOrder, Unidentified, Uncited, Legible, Unlinked
<1>2. /\ Cardinality(Unidentified(answers)) \in Nat /\ Cardinality(Unlinked) \in Nat
      /\ Cardinality(Uncited) \in Nat /\ Cardinality(report.duplicates) \in Nat
  BY <1>1, ReportFinite
<1>3. /\ Cardinality(U) = Cardinality(Unidentified(answers)) /\ IsFiniteSet(U)
      /\ Cardinality(UnlinkedRows) = Cardinality(Unlinked) /\ IsFiniteSet(UnlinkedRows)
      /\ Cardinality(UncitedRows) = Cardinality(Uncited) /\ IsFiniteSet(UncitedRows)
      /\ Cardinality(DoubledRows) = Cardinality(report.duplicates) /\ IsFiniteSet(DoubledRows)
  <2>1. /\ DOMAIN UnidentifiedAt(answers) = Unidentified(answers) /\ DOMAIN UnlinkedAt = Unlinked
        /\ DOMAIN UncitedAt = Uncited /\ DOMAIN DoubledAt = report.duplicates
    BY DEF UnidentifiedAt, UnlinkedAt, UncitedAt, DoubledAt
  <2> QED BY <2>1, PartsListed, ListSize DEF PartsAreListed, ListsPlaces
<1>4. /\ \A r \in U : r.status \in UnidentifiedStatuses
      /\ \A r \in UnlinkedRows : r.status \in MentionProblems
      /\ \A r \in UncitedRows : r.status = "UNCITED"
      /\ \A r \in DoubledRows : r.status = "DUPLICATE"
  BY RowStatuses
<1>5. /\ U \intersect UnlinkedRows = {} /\ (U \union UnlinkedRows) \intersect UncitedRows = {}
      /\ (U \union UnlinkedRows \union UncitedRows) \intersect DoubledRows = {}
  BY <1>4 DEF UnidentifiedStatuses, MentionProblems
<1>6. Rows(answers) = U \union UnlinkedRows \union UncitedRows \union DoubledRows
  BY DEF Rows
<1> HIDE DEF U
<1>7. /\ IsFiniteSet(U \union UnlinkedRows)
      /\ Cardinality(U \union UnlinkedRows) = Cardinality(U) + Cardinality(UnlinkedRows)
  BY <1>3, <1>5, DisjointSize
<1>8. /\ IsFiniteSet(U \union UnlinkedRows \union UncitedRows)
      /\ Cardinality(U \union UnlinkedRows \union UncitedRows) =
            Cardinality(U \union UnlinkedRows) + Cardinality(UncitedRows)
  BY <1>3, <1>5, <1>7, DisjointSize
<1>9. Cardinality(U \union UnlinkedRows \union UncitedRows \union DoubledRows) =
         Cardinality(U \union UnlinkedRows \union UncitedRows) + Cardinality(DoubledRows)
  BY <1>3, <1>5, <1>8, DisjointSize
<1>10. Cardinality(Rows(answers)) =
          Cardinality(Unidentified(answers)) + Cardinality(Unlinked)
          + Cardinality(Uncited) + Cardinality(report.duplicates)
  BY <1>2, <1>3, <1>6, <1>7, <1>8, <1>9
<1>11. Cardinality(Rows(answers)) = Len(IssueRows(answers))
  BY RowsListed, ListSize
<1> QED BY <1>2, <1>10, <1>11

\* An entry that is not identified is illegible, a mismatch or unresolved.
LEMMA UnidentifiedCount ==
    ASSUME ReportInOrder, NEW answers \in Answers
    PROVE  /\ Cardinality(Illegible) \in Nat
           /\ Cardinality(Identified(answers, "MISMATCH")) \in Nat
           /\ Cardinality(Identified(answers, "UNRESOLVED")) \in Nat
           /\ Cardinality(Unidentified(answers)) =
                 Cardinality(Illegible) + Cardinality(Identified(answers, "MISMATCH"))
                 + Cardinality(Identified(answers, "UNRESOLVED"))
<1>0. Illegible = {i \in DOMAIN report.references : report.references[i].status # "PARSED"}
  BY DEF Illegible, Legible
<1> DEFINE A == Illegible
           B == Identified(answers, "MISMATCH")
           C == Identified(answers, "UNRESOLVED")
           refs == DOMAIN report.references
<1>1. A \in SUBSET refs /\ B \in SUBSET refs /\ C \in SUBSET refs
  BY <1>0 DEF Identified
<1>2. /\ IsFiniteSet(A) /\ IsFiniteSet(B) /\ IsFiniteSet(C)
      /\ Cardinality(A) \in Nat /\ Cardinality(B) \in Nat /\ Cardinality(C) \in Nat
  BY <1>1, ReportFinite
<1>3. \A i \in refs :
         /\ Identities(answers)[i] \in UnidentifiedStatuses \union {"VERIFIED"}
         /\ Identities(answers)[i] \in {"MISMATCH", "UNRESOLVED", "VERIFIED"}
               <=> report.references[i].status = "PARSED"
  BY IdentityKnown
<1>4. \A i \in refs : i \in Unidentified(answers) <=> i \in A \/ i \in B \/ i \in C
  BY <1>0, <1>3 DEF Unidentified, Identified, UnidentifiedStatuses
<1>5. Unidentified(answers) = (A \union B) \union C
  BY <1>1, <1>4 DEF Unidentified
<1>6. A \intersect B = {} /\ (A \union B) \intersect C = {}
  BY <1>0, <1>3 DEF Identified
<1> HIDE DEF A, B, C
<1>7. IsFiniteSet(A \union B) /\ Cardinality(A \union B) = Cardinality(A) + Cardinality(B)
  BY <1>2, <1>6, DisjointSize
<1>8. Cardinality((A \union B) \union C) = Cardinality(A \union B) + Cardinality(C)
  BY <1>2, <1>6, <1>7, DisjointSize
<1> QED BY <1>2, <1>5, <1>7, <1>8 DEF A, B, C

-------------------------------------------------------------------------------
(* The findings of an attempt.                                             *)

\* Every finding of a criterion is about a row, or stands for the rows left out.
LEMMA FindingFields ==
    /\ \A n, c, row, o : /\ Finding(n, c, row, o).attempt = n
                          /\ Finding(n, c, row, o).criterion = c
                          /\ Finding(n, c, row, o).id = row.id
                          /\ Finding(n, c, row, o).status = row.status
                          /\ Finding(n, c, row, o).omitted = o
  BY DEF Finding

\* What holds of the findings of one criterion.
ShowsAll(n, c, all, answers) ==
    /\ \A f \in all : f.attempt = n /\ f.criterion = c
    /\ \A f \in all : f.status # "TRUNCATED" =>
          \E r \in Rows(answers) : f = Finding(n, c, Trimmed(r), 0)
    /\ IF Len(IssueRows(answers)) <= MaxFindings
       THEN /\ \A r \in Rows(answers) : Finding(n, c, Trimmed(r), 0) \in all
            /\ \A f \in all : f.status # "TRUNCATED"
            /\ IsFiniteSet(all) /\ Cardinality(all) = Len(IssueRows(answers))
       ELSE \E cut \in all :
              /\ cut.status = "TRUNCATED"
              /\ cut.omitted = Len(IssueRows(answers)) - (MaxFindings - 1)
              /\ \A f \in all : f.status = "TRUNCATED" <=> f = cut
              /\ IsFiniteSet(all \ {cut}) /\ Cardinality(all \ {cut}) = MaxFindings - 1

FirstOf(n, c, answers, k) == {Finding(n, c, Issues(IssueRows(answers))[i], 0) : i \in 1..k}

\* The findings of the first k rows are k, one for each.
LEMMA FirstFindings ==
    ASSUME ReportInOrder, NEW answers \in Answers, NEW n, NEW c,
           NEW k \in 0..Len(IssueRows(answers)), NEW some, some = FirstOf(n, c, answers, k)
    PROVE  /\ IsFiniteSet(some) /\ Cardinality(some) = k
           /\ \A f \in some : \E r \in Rows(answers) : f = Finding(n, c, Trimmed(r), 0)
           /\ \A f \in some : /\ f.attempt = n /\ f.criterion = c
                               /\ f.status # "TRUNCATED"
<1> DEFINE issues == Issues(IssueRows(answers))
           at == [i \in 1..k |-> Finding(n, c, issues[i], 0)]
<1>1. /\ issues \in Seq(Shown(answers)) /\ Len(issues) = Len(IssueRows(answers))
      /\ Len(issues) \in Nat
      /\ \A i \in 1..Len(issues) : \A j \in 1..Len(issues) : issues[i] = issues[j] => i = j
  BY IssuesListed DEF Lists
<1> HIDE DEF issues
<1>2. \A i \in 1..k : i \in 1..Len(issues) /\ issues[i] \in Shown(answers)
  BY <1>1
<1>3. k \in Nat
  BY <1>1
<1>4. ASSUME NEW i \in 1..k
      PROVE  \E r \in Rows(answers) : issues[i] = Trimmed(r)
  BY <1>2 DEF Shown
<1>5. ASSUME NEW r \in Rows(answers)
      PROVE  Trimmed(r).status # "TRUNCATED"
  <2>1. Trimmed(r).status = r.status
    BY TrimmedFields
  <2>2. r.status \in UnidentifiedStatuses \union {"UNCITED", "DUPLICATE"} \union MentionProblems
    BY RowOrigin
  <2> QED BY <2>1, <2>2 DEF UnidentifiedStatuses, MentionProblems
<1>6. \A i \in 1..k : at[i] = Finding(n, c, issues[i], 0)
  OBVIOUS
<1>7. ASSUME NEW f \in some PROVE \E i \in 1..k : at[i] = f
  BY DEF issues, FirstOf
<1>8. \A i \in 1..k : at[i] \in some
  BY DEF issues, FirstOf
<1> HIDE DEF at
<1>9. ASSUME NEW i \in 1..k, NEW j \in 1..k, at[i] = at[j] PROVE i = j
  <2>1. PICK r \in Rows(answers) : issues[i] = Trimmed(r)
    BY <1>4
  <2>2. PICK t \in Rows(answers) : issues[j] = Trimmed(t)
    BY <1>4
  <2>3. Finding(n, c, issues[i], 0) = Finding(n, c, issues[j], 0)
    BY <1>6, <1>9
  <2>4. issues[i].id = issues[j].id /\ issues[i].status = issues[j].status
    BY <2>3, FindingFields
  <2>5. r.id = t.id /\ r.status = t.status
    BY <2>1, <2>2, <2>4, TrimmedFields
  <2>6. issues[i] = issues[j]
    BY <2>1, <2>2, <2>5, RowKeys
  <2> QED BY <1>1, <1>2, <2>6
<1>10. IsFiniteSet(1..k) /\ Cardinality(1..k) = k
  BY <1>3, FS_Interval
<1>11. IsFiniteSet(some) /\ Cardinality(some) = k
  <2>1. DOMAIN at = 1..k
    BY DEF at
  <2>2. at \in [1..k -> some]
    BY <1>8, <2>1 DEF at
  <2>3. IsFiniteSet(some) /\ Cardinality(some) = Cardinality(1..k)
    BY <1>7, <1>9, <1>10, <2>2, SameSize
  <2> QED BY <1>10, <2>3
<1>12. ASSUME NEW f \in some
       PROVE  /\ f.attempt = n /\ f.criterion = c /\ f.status # "TRUNCATED"
              /\ \E r \in Rows(answers) : f = Finding(n, c, Trimmed(r), 0)
  <2>1. PICK i \in 1..k : f = Finding(n, c, issues[i], 0)
    BY <1>6, <1>7
  <2>2. PICK r \in Rows(answers) : issues[i] = Trimmed(r)
    BY <1>4
  <2>3. f = Finding(n, c, Trimmed(r), 0)
    BY <2>1, <2>2
  <2> QED BY <1>5, <2>3, FindingFields
<1> QED BY <1>11, <1>12

\* FindingsOf shows every row, or all but those it counts as omitted.
LEMMA CriterionShowsAll ==
    ASSUME ReportInOrder, NEW answers \in Answers, NEW n, NEW c
    PROVE  ShowsAll(n, c, FindingsOf(n, c, Issues(IssueRows(answers))), answers)
<1> DEFINE issues == Issues(IssueRows(answers))
           total == Len(IssueRows(answers))
           all == FindingsOf(n, c, issues)
<1>1. /\ issues \in Seq(Shown(answers)) /\ Len(issues) = total /\ total \in Nat
      /\ \A x \in Shown(answers) : \E k \in 1..total : issues[k] = x
      /\ DOMAIN issues = 1..total
  BY IssuesListed DEF Lists
<1>2. MaxFindings \in Nat \ {0}
  BY FindingsConstants
<1>3. CASE total <= MaxFindings
  <2>1. all = {Finding(n, c, issues[i], 0) : i \in 1..total}
    BY <1>1, <1>3 DEF FindingsOf
  <2>0. all = FirstOf(n, c, answers, total)
    BY <2>1 DEF FirstOf
  <2>2. total \in 0..total
    BY <1>1
  <2>3. /\ IsFiniteSet(all) /\ Cardinality(all) = total
        /\ \A f \in all : \E r \in Rows(answers) : f = Finding(n, c, Trimmed(r), 0)
        /\ \A f \in all : f.attempt = n /\ f.criterion = c /\ f.status # "TRUNCATED"
    <3> HIDE DEF all
    <3> QED BY <2>0, <2>2, FirstFindings
  <2>4. ASSUME NEW r \in Rows(answers) PROVE Finding(n, c, Trimmed(r), 0) \in all
    <3>1. Trimmed(r) \in Shown(answers)
      BY DEF Shown
    <3>2. PICK k \in 1..total : issues[k] = Trimmed(r)
      BY <1>1, <3>1
    <3> HIDE DEF all, issues
    <3> QED BY <2>1, <3>2
  <2> HIDE DEF all
  <2> QED BY <1>3, <2>3, <2>4 DEF ShowsAll, all
<1>4. CASE ~(total <= MaxFindings)
  <2> DEFINE some == FirstOf(n, c, answers, MaxFindings - 1)
             cut == Finding(n, c, Row(<<>>, "TRUNCATED", UpTo(issues[MaxFindings].anchors, 1)),
                            Omitted(issues))
  <2>1. all = some \union {cut}
    BY <1>1, <1>4 DEF FindingsOf, FirstOf
  <2>2. MaxFindings - 1 \in 0..total
    BY <1>1, <1>2, <1>4
  <2>3. /\ IsFiniteSet(some) /\ Cardinality(some) = MaxFindings - 1
        /\ \A f \in some : \E r \in Rows(answers) : f = Finding(n, c, Trimmed(r), 0)
        /\ \A f \in some : f.attempt = n /\ f.criterion = c /\ f.status # "TRUNCATED"
    <3> HIDE DEF some
    <3>1. some = FirstOf(n, c, answers, MaxFindings - 1)
      BY DEF some
    <3> QED BY <2>2, <3>1, FirstFindings
  <2>4. /\ cut.status = "TRUNCATED" /\ cut.attempt = n /\ cut.criterion = c
        /\ cut.omitted = total - (MaxFindings - 1)
    BY <1>1, FindingFields DEF Omitted, Row
  <2> HIDE DEF some, cut, all
  <2>5. all \ {cut} = some /\ cut \in all /\ \A f \in all : f \in some \/ f = cut
    BY <2>1, <2>3, <2>4
  <2> QED BY <1>4, <2>3, <2>4, <2>5 DEF ShowsAll, all
<1> QED BY <1>3, <1>4

\* What a job that is done has written: all of one attempt.
Settled(answers) ==
    /\ summary = Counted(answers)
    /\ findings = Written(attempt, answers) \union SemanticFindings(attempt)

CitationInv ==
    /\ doc \in Documents /\ report = Parse(doc)
    /\ \A f \in findings : f.criterion \in Criteria \union {Semantic}
    /\ Done => \E answers \in Answers : Settled(answers)

\* A report that the invariant speaks of is in order.
LEMMA InvInOrder ==
    ASSUME CitationInv
    PROVE  ReportInOrder
  BY FindingsConstants, ReportIsInOrder DEF CitationInv

\* What an attempt writes, criterion by criterion.
LEMMA WrittenFacts ==
    ASSUME ReportInOrder, NEW answers \in Answers, NEW n
    PROVE  /\ \A f \in Written(n, answers) : f.attempt = n /\ f.criterion \in Criteria
           /\ \A f \in SemanticFindings(n) :
                 /\ f.attempt = n /\ f.criterion = Semantic /\ f.status = "SEMANTIC"
           /\ \A c \in Criteria :
                 {f \in Written(n, answers) \union SemanticFindings(n) : f.criterion = c}
                    = FindingsOf(n, c, Issues(IssueRows(answers)))
<1> DEFINE Of(c) == FindingsOf(n, c, Issues(IssueRows(answers)))
<1>1. \A c : \A f \in Of(c) : f.attempt = n /\ f.criterion = c
  BY CriterionShowsAll DEF ShowsAll
<1>2. \A f : f \in Written(n, answers) <=> \E c \in Criteria : f \in Of(c)
  BY DEF Written
<1>3. \A f \in SemanticFindings(n) :
         f.attempt = n /\ f.criterion = Semantic /\ f.status = "SEMANTIC"
  <2>1. ASSUME NEW f \in SemanticFindings(n)
        PROVE  \E id, at : f = Finding(n, Semantic, Row(id, "SEMANTIC", at), 0)
    BY DEF SemanticFindings
  <2>2. \A id, at : Row(id, "SEMANTIC", at).status = "SEMANTIC"
    BY DEF Row
  <2>3. ASSUME NEW f \in SemanticFindings(n)
        PROVE  f.attempt = n /\ f.criterion = Semantic /\ f.status = "SEMANTIC"
    <3>1. PICK id, at : f = Finding(n, Semantic, Row(id, "SEMANTIC", at), 0)
      BY <2>1
    <3> QED BY <2>2, <3>1, FindingFields
  <2> QED BY <2>3
<1> HIDE DEF Of
<1>4. \A f \in Written(n, answers) : f.attempt = n /\ f.criterion \in Criteria
  BY <1>1, <1>2
<1>5. ASSUME NEW c \in Criteria
      PROVE  {f \in Written(n, answers) \union SemanticFindings(n) : f.criterion = c} = Of(c)
  <2>1. c # Semantic
    BY FindingsConstants
  <2>2. \A f \in SemanticFindings(n) : f.criterion # c
    BY <1>3, <2>1
  <2>3. \A f \in Written(n, answers) : f.criterion = c => f \in Of(c)
    BY <1>1, <1>2
  <2>4. \A f \in Of(c) : f \in Written(n, answers) /\ f.criterion = c
    BY <1>1, <1>2
  <2> QED BY <2>2, <2>3, <2>4
<1> QED BY <1>3, <1>4, <1>5 DEF Of

\* The invariant holds at first.
LEMMA InvInit == FindingsInit => CitationInv
  BY DEF FindingsInit, CitationInv, Done

\* Every step keeps it: what was there is deleted, what is written is of one attempt.
LEMMA InvStep ==
    ASSUME CitationInv, [FindingsNext]_findingVars
    PROVE  CitationInv'
<1>1. ReportInOrder
  BY InvInOrder
<1>2. Cleared = {}
  BY DEF CitationInv, Cleared
<1>3. ASSUME Evaluate PROVE CitationInv'
  <2>1. doc' = doc /\ report' = report
    BY <1>3 DEF Evaluate, StartAttempt
  <2>2. PICK answers \in Answers : EvaluateAnswered(answers)
    BY <1>3 DEF Evaluate
  <2>3. findings' \in SUBSET (Written(attempt', answers) \union SemanticFindings(attempt'))
    BY <1>2, <2>2 DEF EvaluateAnswered
  <2>4. \A f \in findings' : f.criterion \in Criteria \union {Semantic}
    BY <1>1, <2>3, WrittenFacts
  <2>5. outcome' = "DONE" =>
           /\ summary' = Counted(answers)
           /\ findings' = Written(attempt', answers) \union SemanticFindings(attempt')
    BY <1>2, <2>2 DEF EvaluateAnswered
  <2>6. /\ Counted(answers)' = Counted(answers)
        /\ Written(attempt, answers)' = Written(attempt', answers)
        /\ SemanticFindings(attempt)' = SemanticFindings(attempt')
    BY <2>1 DEF Counted, Written, SemanticFindings, IssueRows, Unidentified, Unlinked, Uncited,
       Legible, Identities, CitedReferences, ReferenceRow, MentionRow, Linkage, Identified,
       Illegible, Doubtful
  <2>7. outcome' = "DONE" => Settled(answers)'
    BY <2>5, <2>6 DEF Settled
  <2> QED BY <2>1, <2>4, <2>7 DEF CitationInv, Done
<1>4. ASSUME FailEarly PROVE CitationInv'
  BY <1>2, <1>4 DEF FailEarly, StartAttempt, CitationInv, Done
<1>5. ASSUME RollBack PROVE CitationInv'
  BY <1>5 DEF RollBack, StartAttempt, CitationInv, Done
<1>6. ASSUME UNCHANGED findingVars PROVE CitationInv'
  <2>1. /\ doc' = doc /\ report' = report /\ attempt' = attempt /\ outcome' = outcome
        /\ findings' = findings /\ summary' = summary
    BY <1>6 DEF findingVars
  <2>2. \A answers \in Answers : Settled(answers)' = Settled(answers)
    BY <2>1 DEF Settled, Counted, Written, SemanticFindings, IssueRows, Unidentified, Unlinked,
       Uncited, Legible, Identities, CitedReferences, ReferenceRow, MentionRow, Linkage,
       Identified, Illegible, Doubtful
  <2> QED BY <2>1, <2>2 DEF CitationInv, Done
<1> QED BY <1>3, <1>4, <1>5, <1>6 DEF FindingsNext

\* The invariant: a job that is done has what one attempt writes, whole (tasks.py:146).
THEOREM CitationInvariant == FindingsSpec => []CitationInv
<1> QED BY InvInit, InvStep, PTL DEF FindingsSpec

-------------------------------------------------------------------------------
(* The properties.                                                         *)

\* The errors of a job that is done are certain.
LEMMA CertainErrors ==
    ASSUME CitationInv
    PROVE  ErrorsAreCertain
<1>1. ReportInOrder /\ doc \in DocumentForms /\ report = Parse(doc)
  BY InvInOrder, FindingsConstants DEF CitationInv
<1>2. ASSUME Done, NEW f \in findings, Severity(f.status) = "error"
      PROVE  \/ \E i \in DOMAIN report.mentions :
                   /\ f.id = <<report.mentions[i].id>>
                   /\ report.mentions[i].marker.read
                   /\ report.mentions[i].marker.numbers \intersect EntriesPrinted = {}
             \/ \E i \in DOMAIN report.references :
                   /\ f.id = report.references[i].id
                   /\ report.bibliography = "PARSED"
                   /\ ~Bibliography(doc).groups[i].breaks
  <2>1. f.status \in {"MISMATCH", "ORPHAN"}
    BY <1>2 DEF Severity
  <2>2. PICK answers \in Answers : Settled(answers)
    BY <1>2 DEF CitationInv
  <2>3. PICK r \in Rows(answers) : f.id = r.id /\ f.status = r.status
    <3>1. f \in Written(attempt, answers)
      <4>1. f \notin SemanticFindings(attempt)
        BY <1>1, <2>1, WrittenFacts
      <4> QED BY <2>2, <4>1 DEF Settled
    <3>2. PICK c \in Criteria : f \in FindingsOf(attempt, c, Issues(IssueRows(answers)))
      BY <3>1 DEF Written
    <3>3. PICK r \in Rows(answers) : f = Finding(attempt, c, Trimmed(r), 0)
      BY <1>1, <2>1, <3>2, CriterionShowsAll DEF ShowsAll
    <3>4. f.id = r.id /\ f.status = r.status
      BY <1>1, <3>3, FindingFields, TrimmedFields
    <3> QED BY <3>4
  <2>4. CASE f.status = "ORPHAN"
    <3>1. r.status \notin UnidentifiedStatuses \union {"UNCITED", "DUPLICATE"}
      BY <2>3, <2>4 DEF UnidentifiedStatuses
    <3>2. PICK i \in DOMAIN report.mentions : r = MentionRow(i)
      BY <1>1, <3>1, RowOrigin
    <3>3. r.id = <<report.mentions[i].id>> /\ report.mentions[i].status = "ORPHAN"
      BY <2>3, <2>4, <3>2, RowFields
    <3>4. /\ report.mentions[i].marker.read
          /\ report.mentions[i].marker.numbers \intersect EntriesPrinted = {}
      BY <1>1, <3>3, OrphansAreCertain
    <3> QED BY <2>3, <3>3, <3>4
  <2>5. CASE f.status = "MISMATCH"
    <3>1. r \in UnidentifiedRows(answers)
      BY <1>1, <2>3, <2>5, RowStatuses DEF Rows, MentionProblems
    <3>2. PICK i \in Unidentified(answers) : r = ReferenceRow(i, Identities(answers)[i])
      BY <3>1 DEF UnidentifiedRows
    <3>3. i \in DOMAIN report.references /\ Identities(answers)[i] = "MISMATCH"
          /\ r.id = report.references[i].id
      BY <2>3, <2>5, <3>2, RowFields DEF Unidentified
    <3>4. report.references[i].status = "PARSED"
      BY <1>1, <3>3, IdentityKnown
    <3>5. Bibliography(doc).status = "PARSED" /\ ~Bibliography(doc).groups[i].breaks
      BY <1>1, <3>3, <3>4, ReferenceFacts
    <3>6. report.bibliography = "PARSED"
      BY <1>1, <3>5, UncertainReport
    <3> QED BY <2>3, <3>3, <3>5, <3>6
  <2> QED BY <2>1, <2>4, <2>5
<1> QED BY <1>2 DEF ErrorsAreCertain

\* The errors that a job that is done reports are certain (citation.py, _identity and
\* _link_status).
THEOREM ErrorsProved == FindingsSpec => []ErrorsAreCertain
<1> QED BY CitationInvariant, CertainErrors, PTL

\* What a criterion shows of a job that is done.
LEMMA ShownOf ==
    ASSUME CitationInv, Done
    PROVE  \E answers \in Answers :
              /\ summary = Counted(answers)
              /\ \A c \in Criteria :
                    ShowsAll(attempt, c, {f \in findings : f.criterion = c}, answers)
<1>1. ReportInOrder
  BY InvInOrder
<1>2. PICK answers \in Answers : Settled(answers)
  BY DEF CitationInv
<1>3. ASSUME NEW c \in Criteria
      PROVE  ShowsAll(attempt, c, {f \in findings : f.criterion = c}, answers)
  <2>1. {f \in findings : f.criterion = c} = FindingsOf(attempt, c, Issues(IssueRows(answers)))
    BY <1>1, <1>2, WrittenFacts DEF Settled
  <2> QED BY <1>1, <2>1, CriterionShowsAll
<1> QED BY <1>2, <1>3 DEF Settled

\* There are as many problems as rows.
LEMMA ProblemCount ==
    ASSUME ReportInOrder, NEW answers \in Answers, summary = Counted(answers), NEW c
    PROVE  Problems(c) = Len(IssueRows(answers))
<1>1. /\ summary.metadata_mismatch = Cardinality(Identified(answers, "MISMATCH"))
      /\ summary.unresolved = Cardinality(Identified(answers, "UNRESOLVED"))
  BY DEF Counted
<1>5. Illegible = {i \in DOMAIN report.references : report.references[i].status # "PARSED"}
  BY DEF Illegible, Legible
<1>2. {i \in DOMAIN report.references :
          report.references[i].status = "PARSED" /\ i \notin CitedReferences} = Uncited
  BY DEF Uncited, Legible
<1>3. {i \in DOMAIN report.mentions : report.mentions[i].status # "LINKED"} = Unlinked
  BY DEF Unlinked, ReportInOrder, MentionProblems
<1>4. Problems(c) =
         Cardinality(Illegible)
         + Cardinality(Identified(answers, "MISMATCH"))
         + Cardinality(Identified(answers, "UNRESOLVED"))
         + Cardinality(Uncited) + Cardinality(report.duplicates) + Cardinality(Unlinked)
  BY <1>1, <1>2, <1>3, <1>5 DEF Problems
<1> QED BY <1>4, RowCount, UnidentifiedCount

\* Every problem is shown or counted as omitted.
LEMMA EveryProblem ==
    ASSUME CitationInv
    PROVE  EveryProblemIsShown
<1>1. ReportInOrder
  BY InvInOrder
<1>2. ASSUME Done, NEW c \in Criteria, NEW shown, shown = {f \in findings : f.criterion = c},
             NEW cut, cut = {f \in shown : f.status = "TRUNCATED"}
      PROVE  /\ Cardinality(shown) <= MaxFindings
             /\ Cardinality(cut) <= 1
             /\ Cardinality(shown \ cut)
                   + (IF cut = {} THEN 0 ELSE (CHOOSE f \in cut : TRUE).omitted) = Problems(c)
  <2>1. PICK answers \in Answers :
           summary = Counted(answers) /\ ShowsAll(attempt, c, shown, answers)
    BY <1>2, ShownOf
  <2> DEFINE total == Len(IssueRows(answers))
  <2>2. Problems(c) = total /\ total \in Nat
    <3>1. total \in Nat
      BY <1>1, RowsListed, ListSize
    <3> QED BY <1>1, <2>1, <3>1, ProblemCount
  <2>3. MaxFindings \in Nat \ {0}
    BY FindingsConstants
  <2>4. CASE total <= MaxFindings
    <3>1. (\A f \in shown : f.status # "TRUNCATED") /\ Cardinality(shown) = total
      BY <2>1, <2>4 DEF ShowsAll
    <3>2. cut = {} /\ shown \ cut = shown
      BY <1>2, <3>1
    <3>3. Cardinality(cut) = 0
      BY <3>2, FS_EmptySet
    <3> HIDE DEF total
    <3> QED BY <2>2, <2>3, <2>4, <3>1, <3>2, <3>3
  <2>5. CASE ~(total <= MaxFindings)
    <3>1. PICK last \in shown :
             /\ last.status = "TRUNCATED" /\ last.omitted = total - (MaxFindings - 1)
             /\ \A f \in shown : f.status = "TRUNCATED" <=> f = last
             /\ IsFiniteSet(shown \ {last}) /\ Cardinality(shown \ {last}) = MaxFindings - 1
      BY <2>1, <2>5 DEF ShowsAll
    <3>2. cut = {last}
      BY <1>2, <3>1
    <3>3. Cardinality(cut) = 1 /\ (CHOOSE f \in cut : TRUE) = last /\ cut # {}
      BY <3>2, FS_Singleton
    <3>4. Cardinality(shown) = MaxFindings
      <4> DEFINE rest == shown \ {last}
      <4>1. shown = rest \union {last} /\ last \notin rest
            /\ IsFiniteSet(rest) /\ Cardinality(rest) = MaxFindings - 1
        BY <3>1
      <4> HIDE DEF rest
      <4>2. Cardinality(rest \union {last}) = Cardinality(rest) + 1
        BY <4>1, FS_AddElement
      <4> QED BY <2>3, <4>1, <4>2
    <3>5. Cardinality(shown \ cut) = MaxFindings - 1
      BY <3>1, <3>2
    <3>6. (IF cut = {} THEN 0 ELSE (CHOOSE f \in cut : TRUE).omitted) = total - (MaxFindings - 1)
      BY <3>1, <3>3
    <3> HIDE DEF total
    <3> QED BY <2>2, <2>3, <3>3, <3>4, <3>5, <3>6
  <2> QED BY <2>4, <2>5
<1> QED BY <1>2 DEF EveryProblemIsShown

\* The places of a report that a status is about, and their rows.
About(answers, s) ==
    CASE s \in MentionProblems -> Linkage(s)
      [] s = "UNCITED" -> Uncited
      [] s = "DUPLICATE" -> report.duplicates
      [] OTHER -> Identified(answers, s)
RowAbout(s, i) == IF s \in MentionProblems THEN MentionRow(i) ELSE ReferenceRow(i, s)

\* The rows with a status are those of the places the summary counts for it.
LEMMA RowsAbout ==
    ASSUME ReportInOrder, NEW answers \in Answers, NEW s \in Statuses
    PROVE  /\ IsFiniteSet(About(answers, s))
           /\ \A i \in About(answers, s) : RowAbout(s, i) \in Rows(answers)
                                           /\ RowAbout(s, i).status = s
           /\ \A i \in About(answers, s) : \A j \in About(answers, s) :
                 RowAbout(s, i).id = RowAbout(s, j).id => i = j
           /\ \A r \in Rows(answers) : r.status = s =>
                 \E i \in About(answers, s) : r = RowAbout(s, i)
<1>1. CASE s \in MentionProblems
  <2>1. About(answers, s) = Linkage(s) /\ \A i : RowAbout(s, i) = MentionRow(i)
    BY <1>1 DEF About, RowAbout, MentionProblems
  <2>2. \A i \in Linkage(s) : i \in DOMAIN report.mentions /\ i \in Unlinked
    BY <1>1 DEF Linkage, Unlinked
  <2>3. IsFiniteSet(Linkage(s))
    BY ReportFinite DEF Linkage
  <2>4. ASSUME NEW i \in Linkage(s)
        PROVE  MentionRow(i) \in Rows(answers) /\ MentionRow(i).status = s
    BY <2>2, RowFields DEF Rows, UnlinkedRows, Linkage
  <2>5. ASSUME NEW i \in Linkage(s), NEW j \in Linkage(s),
               MentionRow(i).id = MentionRow(j).id
        PROVE  i = j
    <3>1. <<report.mentions[i].id>> = <<report.mentions[j].id>>
      BY <2>5, RowFields
    <3>2. report.mentions[i].id = report.mentions[j].id
      BY <3>1
    <3> QED BY <2>2, <3>2 DEF ReportInOrder
  <2>6. ASSUME NEW r \in Rows(answers), r.status = s
        PROVE  \E i \in Linkage(s) : r = MentionRow(i)
    <3>1. r.status \notin UnidentifiedStatuses \union {"UNCITED", "DUPLICATE"}
      BY <1>1, <2>6 DEF UnidentifiedStatuses, MentionProblems
    <3>2. PICK i \in DOMAIN report.mentions : r = MentionRow(i)
      BY <3>1, RowOrigin
    <3>3. i \in Linkage(s)
      BY <2>6, <3>2, RowFields DEF Linkage
    <3> QED BY <3>2, <3>3
  <2> QED BY <2>1, <2>3, <2>4, <2>5, <2>6
<1>2. CASE s \notin MentionProblems
  <2>1. \A i : RowAbout(s, i) = ReferenceRow(i, s)
    BY <1>2 DEF RowAbout
  <2>2. About(answers, s) \in SUBSET DOMAIN report.references
    BY <1>2 DEF About, Uncited, Legible, Identified, ReportInOrder
  <2>3. IsFiniteSet(About(answers, s))
    BY <2>2, ReportFinite
  <2>4. \A i \in About(answers, s) : \A j \in About(answers, s) :
           ReferenceRow(i, s).id = ReferenceRow(j, s).id => i = j
    BY <2>2, RowFields DEF ReportInOrder
  <2>5. \A i : ReferenceRow(i, s).status = s
    BY RowFields
  <2>6. CASE s = "UNCITED"
    <3>1. About(answers, s) = Uncited
      BY <1>2, <2>6 DEF About
    <3>2. \A i \in Uncited : ReferenceRow(i, s) \in Rows(answers)
      BY <2>6 DEF Rows, UncitedRows
    <3>3. \A r \in Rows(answers) : r.status = s => r \in UncitedRows
      BY <2>6, RowStatuses DEF Rows, UnidentifiedStatuses, MentionProblems
    <3>4. \A r \in UncitedRows : \E i \in Uncited : r = ReferenceRow(i, s)
      BY <2>6 DEF UncitedRows
    <3> QED BY <2>1, <2>3, <2>4, <2>5, <3>1, <3>2, <3>3, <3>4
  <2>7. CASE s = "DUPLICATE"
    <3>1. About(answers, s) = report.duplicates
      BY <1>2, <2>7 DEF About
    <3>2. \A i \in report.duplicates : ReferenceRow(i, s) \in Rows(answers)
      BY <2>7 DEF Rows, DoubledRows
    <3>3. \A r \in Rows(answers) : r.status = s => r \in DoubledRows
      BY <2>7, RowStatuses DEF Rows, UnidentifiedStatuses, MentionProblems
    <3>4. \A r \in DoubledRows : \E i \in report.duplicates : r = ReferenceRow(i, s)
      BY <2>7 DEF DoubledRows
    <3> QED BY <2>1, <2>3, <2>4, <2>5, <3>1, <3>2, <3>3, <3>4
  <2>8. CASE s \notin {"UNCITED", "DUPLICATE"}
    <3>1. About(answers, s) = Identified(answers, s) /\ s # "VERIFIED"
      BY <1>2, <2>8 DEF About, Statuses, IdentityProblems, MentionProblems
    <3>2. ASSUME NEW i \in Identified(answers, s) PROVE ReferenceRow(i, s) \in Rows(answers)
      <4>1. i \in Unidentified(answers) /\ Identities(answers)[i] = s
        BY <3>1 DEF Identified, Unidentified
      <4>2. ReferenceRow(i, s) \in UnidentifiedRows(answers)
        BY <4>1 DEF UnidentifiedRows
      <4> QED BY <4>2 DEF Rows
    <3>3. \A r \in Rows(answers) : r.status = s => r \in UnidentifiedRows(answers)
      BY <1>2, <2>8, RowStatuses DEF Rows
    <3>4. ASSUME NEW r \in UnidentifiedRows(answers), r.status = s
          PROVE  \E i \in Identified(answers, s) : r = ReferenceRow(i, s)
      <4>1. PICK i \in Unidentified(answers) : r = ReferenceRow(i, Identities(answers)[i])
        BY DEF UnidentifiedRows
      <4>2. Identities(answers)[i] = s
        BY <3>4, <4>1, RowFields
      <4>3. i \in Identified(answers, s)
        BY <4>2 DEF Identified, Unidentified
      <4> QED BY <4>1, <4>2, <4>3
    <3> QED BY <2>1, <2>3, <2>4, <2>5, <3>1, <3>2, <3>3, <3>4
  <2> QED BY <2>6, <2>7, <2>8
<1> QED BY <1>1, <1>2

\* The findings of a criterion with one of some statuses, and all of them.
ToldSet(c, statuses) == {f \in findings : f.criterion = c /\ f.status \in statuses}
AllOf(c) == {f \in findings : f.criterion = c}

\* What a criterion shows of a job that is done, if it is not cut short.
ShowsEach(c, answers) ==
    /\ IsFiniteSet(AllOf(c))
    /\ \A r \in Rows(answers) : Finding(attempt, c, Trimmed(r), 0) \in AllOf(c)
    /\ \A f \in AllOf(c) : \E r \in Rows(answers) : f = Finding(attempt, c, Trimmed(r), 0)

\* There are as many findings with a status as places it is about.
LEMMA StatusTold ==
    ASSUME ReportInOrder, NEW answers \in Answers, NEW c, ShowsEach(c, answers),
           NEW s \in Statuses
    PROVE  Told(c, {s}) = Cardinality(About(answers, s))
<1> DEFINE P == About(answers, s)
           T == ToldSet(c, {s})
           at == [i \in P |-> Finding(attempt, c, Trimmed(RowAbout(s, i)), 0)]
<1>1. /\ IsFiniteSet(P)
      /\ \A i \in P : RowAbout(s, i) \in Rows(answers) /\ RowAbout(s, i).status = s
      /\ \A i \in P : \A j \in P : RowAbout(s, i).id = RowAbout(s, j).id => i = j
      /\ \A r \in Rows(answers) : r.status = s => \E i \in P : r = RowAbout(s, i)
  BY RowsAbout
<1> HIDE DEF P
<1>2. \A r \in Rows(answers) :
         LET f == Finding(attempt, c, Trimmed(r), 0) IN f.id = r.id /\ f.status = r.status
  BY FindingFields, TrimmedFields
<1>3. \A i \in P : at[i] \in T
  BY <1>1, <1>2 DEF ShowsEach, AllOf, ToldSet
<1>4. ASSUME NEW i \in P, NEW j \in P, at[i] = at[j] PROVE i = j
  <2>1. at[i].id = RowAbout(s, i).id /\ at[j].id = RowAbout(s, j).id
    BY <1>1, <1>2
  <2> HIDE DEF at
  <2>2. RowAbout(s, i).id = RowAbout(s, j).id
    BY <1>4, <2>1
  <2> QED BY <1>1, <2>2
<1>5. ASSUME NEW f \in T PROVE \E i \in P : at[i] = f
  <2>1. f \in AllOf(c) /\ f.status = s
    BY DEF ToldSet, AllOf
  <2>2. PICK r \in Rows(answers) : f = Finding(attempt, c, Trimmed(r), 0)
    BY <2>1 DEF ShowsEach
  <2>3. r.status = s
    BY <1>2, <2>1, <2>2
  <2>4. PICK i \in P : r = RowAbout(s, i)
    BY <1>1, <2>3
  <2>5. at[i] = f
    BY <2>2, <2>4
  <2> QED BY <2>5
<1>6. at \in [P -> T]
  BY <1>3
<1>7. Told(c, {s}) = Cardinality(T)
  BY DEF Told, ToldSet
<1> HIDE DEF at, T
<1>8. Cardinality(T) = Cardinality(P)
  BY <1>1, <1>4, <1>5, <1>6, SameSize
<1> QED BY <1>7, <1>8 DEF P

\* The findings with some statuses and those with others add up.
LEMMA ToldTogether ==
    ASSUME NEW c, IsFiniteSet(AllOf(c)), NEW S, NEW s, s \notin S
    PROVE  /\ Told(c, S \union {s}) = Told(c, S) + Told(c, {s})
           /\ Told(c, S) \in Nat /\ Told(c, {s}) \in Nat
<1>1. /\ ToldSet(c, S \union {s}) = ToldSet(c, S) \union ToldSet(c, {s})
      /\ ToldSet(c, S) \intersect ToldSet(c, {s}) = {}
      /\ ToldSet(c, S) \subseteq AllOf(c) /\ ToldSet(c, {s}) \subseteq AllOf(c)
  BY DEF ToldSet, AllOf
<1>2. IsFiniteSet(ToldSet(c, S)) /\ IsFiniteSet(ToldSet(c, {s}))
  BY <1>1, FS_Subset
<1>3. \A statuses : Told(c, statuses) = Cardinality(ToldSet(c, statuses))
  BY DEF Told, ToldSet
<1> DEFINE A == ToldSet(c, S)
           B == ToldSet(c, {s})
<1>4. IsFiniteSet(A) /\ IsFiniteSet(B) /\ A \intersect B = {}
  BY <1>1, <1>2
<1> HIDE DEF A, B
<1>5. /\ Cardinality(A) \in Nat /\ Cardinality(B) \in Nat
      /\ Cardinality(A \union B) = Cardinality(A) + Cardinality(B)
  BY <1>4, DisjointSize
<1>6. Told(c, S) = Cardinality(A) /\ Told(c, {s}) = Cardinality(B)
      /\ Told(c, S \union {s}) = Cardinality(A \union B)
  BY <1>1, <1>3 DEF A, B
<1> QED BY <1>5, <1>6

\* An entry that is illegible breaks off or is uncertain, and keeps that as its identity.
LEMMA IllegibleCount ==
    ASSUME ReportInOrder, NEW answers \in Answers
    PROVE  /\ {i \in Illegible : report.references[i].status = "FRAGMENTED"}
                 = Identified(answers, "FRAGMENTED")
           /\ Cardinality(Illegible) = Cardinality(Identified(answers, "FRAGMENTED"))
                                       + Cardinality(Identified(answers, "UNCERTAIN"))
<1> DEFINE F == Identified(answers, "FRAGMENTED")
           U == Identified(answers, "UNCERTAIN")
<1>1. \A i \in DOMAIN report.references :
         /\ report.references[i].status \in {"PARSED", "FRAGMENTED", "UNCERTAIN"}
         /\ Identities(answers)[i] \in {"MISMATCH", "UNRESOLVED", "VERIFIED"}
               <=> report.references[i].status = "PARSED"
         /\ report.references[i].status # "PARSED" =>
               Identities(answers)[i] = report.references[i].status
  BY IdentityKnown DEF ReportInOrder, ReferenceStatuses
<1>2. Illegible = {i \in DOMAIN report.references : report.references[i].status # "PARSED"}
  BY DEF Illegible, Legible
<1>3. {i \in Illegible : report.references[i].status = "FRAGMENTED"} = F
  BY <1>1, <1>2 DEF Identified
<1>4. Illegible = F \union U /\ F \intersect U = {}
  BY <1>1, <1>2 DEF Identified
<1>5. F \in SUBSET DOMAIN report.references /\ U \in SUBSET DOMAIN report.references
  BY DEF Identified
<1>6. IsFiniteSet(F) /\ IsFiniteSet(U)
  BY <1>5, ReportFinite
<1>7. Cardinality(Illegible) = Cardinality(F) + Cardinality(U)
  BY <1>4, <1>6, DisjointSize
<1> QED BY <1>3, <1>7

\* Every reference is identified or has a finding.
LEMMA ReferencesCount ==
    ASSUME ReportInOrder, ReportSized, NEW answers \in Answers
    PROVE  Len(report.references) = Cardinality(Identified(answers, "VERIFIED"))
                                    + Cardinality(Unidentified(answers))
<1> DEFINE V == Identified(answers, "VERIFIED")
           U == Unidentified(answers)
<1>1. DOMAIN report.references = V \union U /\ V \intersect U = {}
  BY DEF Identified, Unidentified
<1>2. IsFiniteSet(V) /\ IsFiniteSet(U)
  BY ReportFinite DEF Identified, Unidentified
<1> HIDE DEF V, U
<1>3. Cardinality(V \union U) = Cardinality(V) + Cardinality(U)
  BY <1>1, <1>2, DisjointSize
<1> QED BY <1>1, <1>3 DEF ReportSized, V, U

\* Every mention is linked or has a finding.
LEMMA MentionsCount ==
    ASSUME ReportInOrder, ReportSized
    PROVE  /\ Len(report.mentions) =
                 Cardinality(Linkage("LINKED")) + Cardinality(Linkage("ORPHAN"))
                 + Cardinality(Linkage("AMBIGUOUS")) + Cardinality(Linkage("AMBIGUOUS_MAPPING"))
           /\ \A s : Cardinality(Linkage(s)) \in Nat
<1> DEFINE L == Linkage("LINKED")
           O == Linkage("ORPHAN")
           A == Linkage("AMBIGUOUS")
           M == Linkage("AMBIGUOUS_MAPPING")
<1>1. \A s : IsFiniteSet(Linkage(s)) /\ Cardinality(Linkage(s)) \in Nat
  BY ReportFinite DEF Linkage
<1>2. DOMAIN report.mentions = ((L \union O) \union A) \union M
  BY DEF Linkage, ReportInOrder, MentionProblems
<1>3. /\ L \intersect O = {} /\ (L \union O) \intersect A = {}
      /\ ((L \union O) \union A) \intersect M = {}
  BY DEF Linkage
<1>4. IsFiniteSet(L) /\ IsFiniteSet(O) /\ IsFiniteSet(A) /\ IsFiniteSet(M)
  BY <1>1
<1> HIDE DEF L, O, A, M
<1>5. IsFiniteSet(L \union O) /\ Cardinality(L \union O) = Cardinality(L) + Cardinality(O)
  BY <1>3, <1>4, DisjointSize
<1>6. /\ IsFiniteSet((L \union O) \union A)
      /\ Cardinality((L \union O) \union A) = Cardinality(L \union O) + Cardinality(A)
  BY <1>3, <1>4, <1>5, DisjointSize
<1>7. Cardinality(((L \union O) \union A) \union M) =
         Cardinality((L \union O) \union A) + Cardinality(M)
  BY <1>3, <1>4, <1>6, DisjointSize
<1>8. Len(report.mentions) = Cardinality(L) + Cardinality(O) + Cardinality(A) + Cardinality(M)
  BY <1>2, <1>5, <1>6, <1>7 DEF ReportSized
<1> QED BY <1>1, <1>8 DEF L, O, A, M

\* What a criterion that is not cut short tells agrees with the summary.
LEMMA CountsAgree ==
    ASSUME ReportInOrder, ReportSized, NEW answers \in Answers, summary = Counted(answers),
           NEW c, ShowsEach(c, answers)
    PROVE  AgreeOn(c)
<1> DEFINE told(s) == Told(c, {s})
           identified(s) == Cardinality(Identified(answers, s))
           linkage(s) == Cardinality(Linkage(s))
<1>1. \A s \in Statuses : told(s) = Cardinality(About(answers, s))
  BY StatusTold
<1>2. /\ told("MISMATCH") = identified("MISMATCH")
      /\ told("UNRESOLVED") = identified("UNRESOLVED")
      /\ told("FRAGMENTED") = identified("FRAGMENTED")
      /\ told("UNCERTAIN") = identified("UNCERTAIN")
      /\ told("UNCITED") = Cardinality(Uncited)
      /\ told("DUPLICATE") = Cardinality(report.duplicates)
      /\ told("ORPHAN") = linkage("ORPHAN")
      /\ told("AMBIGUOUS") = linkage("AMBIGUOUS")
      /\ told("AMBIGUOUS_MAPPING") = linkage("AMBIGUOUS_MAPPING")
  <2>1. /\ About(answers, "MISMATCH") = Identified(answers, "MISMATCH")
        /\ About(answers, "UNRESOLVED") = Identified(answers, "UNRESOLVED")
        /\ About(answers, "FRAGMENTED") = Identified(answers, "FRAGMENTED")
        /\ About(answers, "UNCERTAIN") = Identified(answers, "UNCERTAIN")
        /\ About(answers, "UNCITED") = Uncited
        /\ About(answers, "DUPLICATE") = report.duplicates
        /\ About(answers, "ORPHAN") = Linkage("ORPHAN")
        /\ About(answers, "AMBIGUOUS") = Linkage("AMBIGUOUS")
        /\ About(answers, "AMBIGUOUS_MAPPING") = Linkage("AMBIGUOUS_MAPPING")
    BY DEF About, MentionProblems
  <2>2. {"MISMATCH", "UNRESOLVED", "FRAGMENTED", "UNCERTAIN", "UNCITED", "DUPLICATE", "ORPHAN",
         "AMBIGUOUS", "AMBIGUOUS_MAPPING"} \subseteq Statuses
    BY DEF Statuses, IdentityProblems, MentionProblems
  <2> HIDE DEF told
  <2> QED BY <1>1, <2>1, <2>2
<1>3. IsFiniteSet(AllOf(c))
  BY DEF ShowsEach
<1> DEFINE AM == {"AMBIGUOUS", "AMBIGUOUS_MAPPING"}
           FU == {"FRAGMENTED", "UNCERTAIN"}
<1>4. \A S : \A s : s \notin S => Told(c, S \union {s}) = Told(c, S) + told(s)
  BY <1>3, ToldTogether
<1>5. /\ Told(c, AM) = told("AMBIGUOUS") + told("AMBIGUOUS_MAPPING")
      /\ Told(c, FU) = told("FRAGMENTED") + told("UNCERTAIN")
  <2>1. AM = {"AMBIGUOUS"} \union {"AMBIGUOUS_MAPPING"} /\ "AMBIGUOUS_MAPPING" \notin {"AMBIGUOUS"}
    OBVIOUS
  <2>2. FU = {"FRAGMENTED"} \union {"UNCERTAIN"} /\ "UNCERTAIN" \notin {"FRAGMENTED"}
    OBVIOUS
  <2> QED BY <1>4, <2>1, <2>2
<1>6. Told(c, {"ORPHAN", "AMBIGUOUS", "AMBIGUOUS_MAPPING"}) = Told(c, AM) + told("ORPHAN")
  <2>1. {"ORPHAN", "AMBIGUOUS", "AMBIGUOUS_MAPPING"} = AM \union {"ORPHAN"} /\ "ORPHAN" \notin AM
    OBVIOUS
  <2> QED BY <1>4, <2>1
<1>7. Told(c, {"FRAGMENTED", "UNCERTAIN", "AMBIGUOUS_MAPPING"}) =
         Told(c, FU) + told("AMBIGUOUS_MAPPING")
  <2>1. /\ {"FRAGMENTED", "UNCERTAIN", "AMBIGUOUS_MAPPING"} = FU \union {"AMBIGUOUS_MAPPING"}
        /\ "AMBIGUOUS_MAPPING" \notin FU
    OBVIOUS
  <2> QED BY <1>4, <2>1
<1>8. Told(c, {"FRAGMENTED", "UNCERTAIN", "MISMATCH", "UNRESOLVED"}) =
         Told(c, FU) + told("MISMATCH") + told("UNRESOLVED")
  <2>1. /\ {"FRAGMENTED", "UNCERTAIN", "MISMATCH"} = FU \union {"MISMATCH"}
        /\ "MISMATCH" \notin FU
    OBVIOUS
  <2>2. /\ {"FRAGMENTED", "UNCERTAIN", "MISMATCH", "UNRESOLVED"} =
              {"FRAGMENTED", "UNCERTAIN", "MISMATCH"} \union {"UNRESOLVED"}
        /\ "UNRESOLVED" \notin {"FRAGMENTED", "UNCERTAIN", "MISMATCH"}
    OBVIOUS
  <2> HIDE DEF told
  <2>3. Told(c, {"FRAGMENTED", "UNCERTAIN", "MISMATCH"}) = Told(c, FU) + told("MISMATCH")
    BY <1>4, <2>1
  <2>4. Told(c, {"FRAGMENTED", "UNCERTAIN", "MISMATCH", "UNRESOLVED"}) =
           Told(c, {"FRAGMENTED", "UNCERTAIN", "MISMATCH"}) + told("UNRESOLVED")
    BY <1>4, <2>2
  <2> HIDE DEF FU
  <2> QED BY <2>3, <2>4
<1>9. /\ Len(report.references) = identified("VERIFIED") + Cardinality(Unidentified(answers))
      /\ Cardinality(Unidentified(answers)) =
            Cardinality(Illegible) + identified("MISMATCH") + identified("UNRESOLVED")
      /\ Cardinality(Illegible) = identified("FRAGMENTED") + identified("UNCERTAIN")
      /\ {i \in Illegible : report.references[i].status = "FRAGMENTED"}
            = Identified(answers, "FRAGMENTED")
  BY ReferencesCount, UnidentifiedCount, IllegibleCount
<1>10. /\ Len(report.mentions) = linkage("LINKED") + linkage("ORPHAN") + linkage("AMBIGUOUS")
                                 + linkage("AMBIGUOUS_MAPPING")
       /\ \A s : linkage(s) \in Nat
  BY MentionsCount
<1>11. \A s : identified(s) \in Nat
  BY ReportFinite DEF Identified
<1>12. /\ summary.references = Len(report.references)
       /\ summary.mentions = Len(report.mentions)
       /\ summary.linked = linkage("LINKED")
       /\ summary.orphan_mentions = linkage("ORPHAN")
       /\ summary.ambiguous = linkage("AMBIGUOUS") + linkage("AMBIGUOUS_MAPPING")
       /\ summary.ambiguous_mapping = linkage("AMBIGUOUS_MAPPING")
       /\ summary.uncited_references = Cardinality(Uncited)
       /\ summary.verified = identified("VERIFIED")
       /\ summary.metadata_mismatch = identified("MISMATCH")
       /\ summary.unresolved = identified("UNRESOLVED")
       /\ summary.parser_uncertain = Cardinality(Illegible) + linkage("AMBIGUOUS_MAPPING")
       /\ summary.fragmented_references =
             Cardinality({i \in Illegible : report.references[i].status = "FRAGMENTED"})
       /\ summary.duplicates = Cardinality(report.duplicates)
  BY DEF Counted, Doubtful
<1> HIDE DEF identified, linkage
<1>13. summary.references = summary.verified
         + Told(c, {"FRAGMENTED", "UNCERTAIN", "MISMATCH", "UNRESOLVED"})
  BY <1>2, <1>5, <1>8, <1>9, <1>11, <1>12
<1>14. summary.mentions = summary.linked + Told(c, {"ORPHAN", "AMBIGUOUS", "AMBIGUOUS_MAPPING"})
  BY <1>2, <1>5, <1>6, <1>10, <1>12
<1>15. summary.ambiguous = Told(c, {"AMBIGUOUS", "AMBIGUOUS_MAPPING"})
  BY <1>2, <1>5, <1>12
<1>16. summary.parser_uncertain = Told(c, {"FRAGMENTED", "UNCERTAIN", "AMBIGUOUS_MAPPING"})
  BY <1>2, <1>5, <1>7, <1>9, <1>12
<1>17. summary.fragmented_references = Told(c, {"FRAGMENTED"})
  BY <1>2, <1>9, <1>12 DEF identified
<1> QED BY <1>2, <1>12, <1>13, <1>14, <1>15, <1>16, <1>17 DEF AgreeOn

\* The summary and the findings agree.
LEMMA SummaryTells ==
    ASSUME CitationInv
    PROVE  SummaryTellsTheFindings
<1>1. ReportInOrder /\ ReportSized
  BY InvInOrder, ReportIsSized, FindingsConstants DEF CitationInv
<1>2. ASSUME Done, NEW c \in Criteria,
             \A f \in findings : f.criterion = c => f.status # "TRUNCATED"
      PROVE  AgreeOn(c)
  <2>1. PICK answers \in Answers :
           summary = Counted(answers) /\ ShowsAll(attempt, c, AllOf(c), answers)
    BY <1>2, ShownOf DEF AllOf
  <2>2. Len(IssueRows(answers)) <= MaxFindings
    BY <1>2, <2>1 DEF ShowsAll, AllOf
  <2>3. ShowsEach(c, answers)
    BY <1>2, <2>1, <2>2 DEF ShowsAll, ShowsEach, AllOf
  <2> QED BY <1>1, <2>1, <2>3, CountsAgree
<1> QED BY <1>2 DEF SummaryTellsTheFindings

\* Every finding is of the last attempt.
LEMMA OneAttempt ==
    ASSUME CitationInv
    PROVE  OneAttemptSpeaks
<1>1. ReportInOrder
  BY InvInOrder
<1>2. ASSUME Done, NEW f \in findings PROVE f.attempt = attempt
  <2>1. PICK answers \in Answers : Settled(answers)
    BY <1>2 DEF CitationInv
  <2>2. f \in Written(attempt, answers) \/ f \in SemanticFindings(attempt)
    BY <2>1 DEF Settled
  <2> QED BY <1>1, <2>2, WrittenFacts
<1> QED BY <1>2 DEF OneAttemptSpeaks

\* What a job that is done tells is the whole of one attempt (citation.py:2458,
\* tasks.py:146).
THEOREM ReportProved == FindingsSpec => []ReportIsComplete
<1>1. CitationInv => ReportIsComplete
  BY EveryProblem, SummaryTells, OneAttempt DEF ReportIsComplete
<1> QED BY <1>1, CitationInvariant, PTL

-------------------------------------------------------------------------------
(* The evidence of the findings.                                           *)

\* Some places in the document, not too many.
IsEvidence(anchors) ==
    /\ Len(anchors) \in 1..MaxAnchors
    /\ \A i \in DOMAIN anchors : anchors[i] \in Positions

\* Anchors that are told once are not fewer than one.
LEMMA DistinctTyped ==
    ASSUME NEW s \in AnchorLists
    PROVE  Distinct(s) \in AnchorLists
<1> DEFINE firsts == {j \in DOMAIN s : \A k \in 1..j - 1 : s[k] # s[j]}
           at == [i \in firsts |-> s[i]]
           n == Len(s)
<1>1. /\ s \in Seq(Positions) /\ n \in Nat /\ DOMAIN s = 1..n /\ n # 0
      /\ \A i \in 1..n : s[i] \in Positions
  BY DEF AnchorLists
<1>2. 1 \in firsts
  BY <1>1
<1>3. Distinct(s) = Ordered(at)
  BY DEF Distinct
<1>4. DOMAIN at = firsts /\ firsts \in SUBSET (1..n) /\ \A i \in firsts : at[i] \in Positions
  BY <1>1
<1> HIDE DEF firsts, at
<1>5. Ordered(at) \in Seq(Positions) /\ Len(Ordered(at)) = Cardinality(firsts)
      /\ \A i \in firsts : \E k \in 1..Len(Ordered(at)) : Ordered(at)[k] = at[i]
  BY <1>1, <1>4, OrderedTyped
<1>6. PICK k \in 1..Len(Ordered(at)) : TRUE
  BY <1>2, <1>5
<1>7. Ordered(at) # << >>
  BY <1>5, <1>6
<1> QED BY <1>3, <1>5, <1>7 DEF AnchorLists

\* A few of some anchors are evidence.
LEMMA UpToIsEvidence ==
    ASSUME NEW s \in AnchorLists, NEW n \in 1..MaxAnchors
    PROVE  IsEvidence(UpTo(s, n)) /\ UpTo(s, n) \in AnchorLists
<1>0. MaxAnchors \in Nat /\ n \in Nat /\ n >= 1 /\ n <= MaxAnchors
  BY FindingsConstants
<1>1. s \in Seq(Positions) /\ Len(s) \in Nat /\ Len(s) >= 1
      /\ \A i \in 1..Len(s) : s[i] \in Positions
  BY DEF AnchorLists
<1> DEFINE m == IF n < Len(s) THEN n ELSE Len(s)
           t == SubSeq(s, 1, m)
<1>2. m \in 1..Len(s) /\ m <= n
  BY <1>0, <1>1
<1>3. UpTo(s, n) = t
  BY DEF UpTo
<1> HIDE DEF m
<1>4. /\ t \in Seq(Positions) /\ Len(t) = m
      /\ \A i \in 1..m : t[i] = s[i]
  BY <1>0, <1>1, <1>2
<1> HIDE DEF t
<1>5. DOMAIN t = 1..m /\ t # << >> /\ m \in 1..MaxAnchors
  BY <1>0, <1>1, <1>2, <1>4
<1>6. \A i \in 1..m : t[i] \in Positions
  BY <1>1, <1>2, <1>4
<1> QED BY <1>3, <1>4, <1>5, <1>6 DEF IsEvidence, AnchorLists

\* Whatever a finding is about has a place.
ReportAnchored ==
    /\ \A i \in DOMAIN report.references : report.references[i].anchors \in AnchorLists
    /\ \A i \in DOMAIN report.mentions : report.mentions[i].at \in Positions

\* It holds of what the parser makes of a document.
LEMMA ReportIsAnchored ==
    ASSUME doc \in DocumentForms, report = Parse(doc)
    PROVE  ReportAnchored
  BY ReferenceFacts, MentionFacts DEF ReportAnchored

\* One place is evidence.
LEMMA OneAnchor ==
    ASSUME NEW at \in Positions
    PROVE  <<at>> \in AnchorLists /\ IsEvidence(<<at>>)
  BY FindingsConstants DEF AnchorLists, IsEvidence

\* What is kept of a row is evidence.
LEMMA RowAnchors ==
    ASSUME ReportInOrder, ReportAnchored, NEW answers \in Answers, NEW r \in Rows(answers)
    PROVE  /\ IsEvidence(Trimmed(r).anchors) /\ Trimmed(r).anchors \in AnchorLists
           /\ Trimmed(r).status \in Statuses
<1>1. r.anchors \in AnchorLists
  <2>1. CASE \E i \in DOMAIN report.references : r = ReferenceRow(i, r.status)
    <3>1. PICK i \in DOMAIN report.references : r = ReferenceRow(i, r.status)
      BY <2>1
    <3>2. ReferenceRow(i, r.status).anchors = report.references[i].anchors
      BY DEF ReferenceRow, Row
    <3> QED BY <3>1, <3>2 DEF ReportAnchored
  <2>2. CASE \E i \in DOMAIN report.mentions : r = MentionRow(i)
    <3>1. PICK i \in DOMAIN report.mentions : r = MentionRow(i)
      BY <2>2
    <3>2. r.anchors = <<report.mentions[i].at>> /\ report.mentions[i].at \in Positions
      BY <3>1 DEF MentionRow, Row, ReportAnchored
    <3> QED BY <3>2, OneAnchor
  <2> QED BY <2>1, <2>2, RowOrigin
<1>2. Distinct(r.anchors) \in AnchorLists
  BY <1>1, DistinctTyped
<1>3. MaxAnchors \in 1..MaxAnchors
  BY FindingsConstants
<1>4. Trimmed(r).anchors = UpTo(Distinct(r.anchors), MaxAnchors) /\ Trimmed(r).status = r.status
  BY TrimmedFields
<1>5. r.status \in Statuses
  BY RowOrigin DEF UnidentifiedStatuses, MentionProblems, IdentityProblems, Statuses
<1> QED BY <1>2, <1>3, <1>4, <1>5, UpToIsEvidence

\* What a finding looks like.
FindingForm(f, n) ==
    /\ f.attempt = n
    /\ f.criterion \in Criteria \union {Semantic}
    /\ f.status \in Statuses \union {"TRUNCATED", "SEMANTIC"}
    /\ f.omitted \in Nat
    /\ IsEvidence(f.anchors)

\* Every finding that an attempt writes looks like one.
LEMMA FindingForms ==
    ASSUME ReportInOrder, ReportAnchored, NEW answers \in Answers, NEW n,
           NEW f \in Written(n, answers) \union SemanticFindings(n)
    PROVE  FindingForm(f, n)
<1> DEFINE issues == Issues(IssueRows(answers))
<1>1. f.attempt = n /\ f.criterion \in Criteria \union {Semantic}
  BY WrittenFacts
<1>2. \A c, row, o : Finding(n, c, row, o).anchors = row.anchors
  BY DEF Finding
<1>3. \A id, status, anchors : /\ Row(id, status, anchors).status = status
                               /\ Row(id, status, anchors).anchors = anchors
  BY DEF Row
<1>4. CASE f \in Written(n, answers)
  <2>1. PICK c \in Criteria : f \in FindingsOf(n, c, issues)
    BY <1>4 DEF Written
  <2>2. /\ Len(issues) \in Nat /\ DOMAIN issues = 1..Len(issues)
        /\ \A i \in 1..Len(issues) : issues[i] \in Shown(answers)
    BY IssuesListed DEF Lists
  <2>3. \A i \in 1..Len(issues) : /\ IsEvidence(issues[i].anchors)
                                  /\ issues[i].anchors \in AnchorLists
                                  /\ issues[i].status \in Statuses
    BY <2>2, RowAnchors DEF Shown
  <2>4. MaxFindings \in Nat \ {0}
    BY FindingsConstants
  <2> HIDE DEF issues
  <2>5. CASE \E i \in 1..Len(issues) : f = Finding(n, c, issues[i], 0)
    <3>1. PICK i \in 1..Len(issues) : f = Finding(n, c, issues[i], 0)
      BY <2>5
    <3>2. /\ f.status = issues[i].status /\ f.omitted = 0 /\ f.anchors = issues[i].anchors
      BY <3>1, FindingFields, <1>2
    <3> QED BY <1>1, <2>3, <3>2 DEF FindingForm
  <2>6. CASE /\ Len(issues) > MaxFindings
             /\ f = Finding(n, c, Row(<<>>, "TRUNCATED", UpTo(issues[MaxFindings].anchors, 1)),
                            Omitted(issues))
    <3>1. /\ f.status = "TRUNCATED" /\ f.omitted = Len(issues) - (MaxFindings - 1)
          /\ f.anchors = UpTo(issues[MaxFindings].anchors, 1)
      BY <1>2, <1>3, <2>6, FindingFields DEF Omitted
    <3>2. MaxFindings \in 1..Len(issues) /\ f.omitted \in Nat
      BY <2>2, <2>4, <2>6, <3>1
    <3>3. 1 \in 1..MaxAnchors
      BY FindingsConstants
    <3>4. IsEvidence(f.anchors)
      BY <2>3, <3>1, <3>2, <3>3, UpToIsEvidence
    <3> QED BY <1>1, <3>1, <3>2, <3>4 DEF FindingForm
  <2>7. MaxFindings - 1 <= Len(issues) \/ Len(issues) <= MaxFindings
    BY <2>2, <2>4
  <2>8. CASE Len(issues) <= MaxFindings
    BY <2>1, <2>2, <2>5, <2>8 DEF FindingsOf
  <2>9. CASE ~(Len(issues) <= MaxFindings)
    <3>1. \A i \in 1..MaxFindings - 1 : i \in 1..Len(issues)
      BY <2>2, <2>4, <2>9
    <3>2. Len(issues) > MaxFindings
      BY <2>2, <2>4, <2>9
    <3> QED BY <2>1, <2>5, <2>6, <2>9, <3>1, <3>2 DEF FindingsOf
  <2> QED BY <2>8, <2>9
<1>5. CASE f \in SemanticFindings(n)
  <2>1. PICK i \in DOMAIN report.mentions :
           f = Finding(n, Semantic,
                       Row(<<report.mentions[i].id>>, "SEMANTIC", <<report.mentions[i].at>>), 0)
    BY <1>5 DEF SemanticFindings
  <2>2. f.status = "SEMANTIC" /\ f.omitted = 0 /\ f.anchors = <<report.mentions[i].at>>
    BY <1>2, <1>3, <2>1, FindingFields
  <2>3. IsEvidence(f.anchors)
    BY <2>2, OneAnchor DEF ReportAnchored
  <2> QED BY <1>1, <2>2, <2>3 DEF FindingForm
<1> QED BY <1>4, <1>5

\* The summary is numbers.
LEMMA CountedTyped ==
    ASSUME ReportInOrder, ReportSized, NEW answers \in Answers
    PROVE  Counted(answers) \in Counters
<1>1. /\ \A s : Cardinality(Linkage(s)) \in Nat
      /\ \A s : Cardinality(Identified(answers, s)) \in Nat
      /\ Cardinality(Illegible) \in Nat /\ Cardinality(Doubtful) \in Nat
      /\ Cardinality({i \in Illegible : report.references[i].status = "FRAGMENTED"}) \in Nat
  BY ReportFinite DEF Linkage, Identified, Illegible, Doubtful
<1>2. Cardinality(Uncited) \in Nat /\ Cardinality(report.duplicates) \in Nat
  BY RowCount
<1>3. Len(report.references) \in Nat /\ Len(report.mentions) \in Nat
  BY ReportFinite DEF ReportSized
<1>4. Cardinality(Linkage("AMBIGUOUS")) + Cardinality(Linkage("AMBIGUOUS_MAPPING")) \in Nat
      /\ Cardinality(Illegible) + Cardinality(Doubtful) \in Nat
  BY <1>1
<1> QED BY <1>1, <1>2, <1>3, <1>4 DEF Counted, Counters

\* Every finding is of an attempt, of a criterion on citations and of a known kind, and
\* shows at least one place of the document and at most MaxAnchors (citation.py,
\* _bounded_issue_rows).
THEOREM FindingsTyped == FindingsSpec => []FindingsTypeOK
<1>1. FindingsInit => FindingsTypeOK
  BY FindingsConstants DEF FindingsInit, FindingsTypeOK, NoSummary, Counters
<1>2. FindingsTypeOK /\ CitationInv /\ CitationInv' /\ [FindingsNext]_findingVars => FindingsTypeOK'
  <2> SUFFICES ASSUME FindingsTypeOK, CitationInv, [FindingsNext]_findingVars
               PROVE  FindingsTypeOK'
    OBVIOUS
  <2>1. ReportInOrder /\ ReportAnchored /\ ReportSized
    BY InvInOrder, ReportIsAnchored, ReportIsSized, FindingsConstants DEF CitationInv
  <2>2. Cleared = {} /\ MaxAttempts \in Nat
    BY FindingsConstants DEF CitationInv, Cleared
  <2>3. ASSUME StartAttempt
        PROVE  attempt' \in 0..MaxAttempts /\ attempt' = attempt + 1 /\ attempt \in Nat
               /\ attempt' \in 1..attempt'
    BY <2>2, <2>3 DEF StartAttempt, FindingsTypeOK
  <2>4. ASSUME Evaluate PROVE FindingsTypeOK'
    <3>1. PICK answers \in Answers : EvaluateAnswered(answers)
      BY <2>4 DEF Evaluate
    <3>2. /\ summary' = Counted(answers) /\ outcome' \in {"DONE", "ERROR"}
          /\ findings' \in SUBSET (Written(attempt', answers) \union SemanticFindings(attempt'))
      BY <2>2, <3>1 DEF EvaluateAnswered
    <3>3. \A f \in findings' : FindingForm(f, attempt')
      BY <2>1, <3>2, FindingForms
    <3>4. StartAttempt
      BY <2>4 DEF Evaluate
    <3> QED BY <2>1, <2>3, <3>2, <3>3, <3>4, CountedTyped
        DEF FindingsTypeOK, FindingForm, IsEvidence
  <2>5. ASSUME FailEarly PROVE FindingsTypeOK'
    BY <2>2, <2>3, <2>5 DEF FailEarly, FindingsTypeOK
  <2>6. ASSUME RollBack PROVE FindingsTypeOK'
    <3>1. StartAttempt /\ outcome' = "none" /\ findings' = findings /\ summary' = summary
      BY <2>6 DEF RollBack
    <3>2. \A k \in 1..attempt : k \in 1..attempt'
      BY <2>3, <3>1
    <3> QED BY <2>3, <3>1, <3>2 DEF FindingsTypeOK
  <2>7. ASSUME UNCHANGED findingVars PROVE FindingsTypeOK'
    BY <2>7 DEF findingVars, FindingsTypeOK
  <2> QED BY <2>4, <2>5, <2>6, <2>7 DEF FindingsNext
<1> QED BY <1>1, <1>2, CitationInvariant, PTL DEF FindingsSpec
===============================================================================
