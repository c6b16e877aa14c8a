------------------------- MODULE BibliographyParsing -------------------------
(***************************************************************************)
(* How the evaluator reads the citations of a document: the paragraphs of  *)
(* the bibliography become groups, the groups references, the markers in   *)
(* the text mentions, and each mention is linked to its references         *)
(* (services/citation.py, parse_citations). Pure functions of a document.  *)
(*                                                                         *)
(* A paragraph is what the code's patterns see of it. An entry printed in  *)
(* the bibliography is the number in front of it (0: none), the work it    *)
(* describes and whether its text breaks off. A marker in the text is its  *)
(* numbers, or the author and year it names, or a marker that could not be *)
(* read. Page numbers and empty lines, which the code skips everywhere,    *)
(* are left out, and so is the choice between kinds of numbers.            *)
(***************************************************************************)
EXTENDS Naturals, FiniteSets, SequencesExt

CONSTANTS
    Works,          \* what a bibliography may describe: a DOI
    AuthorYear,     \* first author and year of a work
    NoAuthor,       \* of a numeric marker
    MaxReferences,  \* _MAX_REFERENCES
    MaxMentions     \* _MAX_MENTIONS

ASSUME ParsingConstants == MaxReferences \in Nat \ {0} /\ MaxMentions \in Nat \ {0}

\* kind: "entries" start with a marker each, except for a prefix that still
\* belongs to the entry before; "author" looks like an entry by its first words;
\* "note" is a footnote that looks bibliographic, "bibliographic" has only the
\* look of one, "prose" not even that. doi: it has a DOI or an arXiv id.
Paragraph(kind, entries, prefix, breaks, markers) ==
    [kind |-> kind, entries |-> entries, prefix |-> prefix, breaks |-> breaks,
     markers |-> markers, doi |-> FALSE]

Entry(number, work, breaks) == [number |-> number, work |-> work, breaks |-> breaks]

Marker(numbers, author, read) == [numbers |-> numbers, author |-> author, read |-> read]

\* What the patterns can see: a number only where an entry's marker is, which is
\* in a paragraph whose entries start with one each. Any other is one entry or none.
EntryForms == [number : Nat, work : Works, breaks : BOOLEAN]
MarkerForms == [numbers : SUBSET Nat, author : {NoAuthor} \union {AuthorYear[w] : w \in Works},
                read : BOOLEAN]
ParagraphForms ==
    {p \in [kind : {"entries", "author", "note", "bibliographic", "prose"},
            entries : Seq(EntryForms), prefix : BOOLEAN, breaks : BOOLEAN,
            markers : Seq(MarkerForms), doi : BOOLEAN] :
        IF p.kind = "entries" THEN p.entries # << >>
        ELSE /\ Len(p.entries) = (IF p.kind = "prose" THEN 0 ELSE 1)
             /\ \A i \in DOMAIN p.entries : p.entries[i].number = 0}

DocumentForms == [heading : BOOLEAN, body : Seq(ParagraphForms), back : Seq(ParagraphForms),
                  table : Seq(EntryForms)]

\* A document: the paragraphs ahead of the bibliography and those from there on,
\* which have a heading or are the last pages, and the rows of a table there.
Paragraphs(doc) == doc.body \o doc.back
BackPositions(doc) == Len(doc.body) + 1 .. Len(doc.body) + Len(doc.back)
TablePosition(doc) == Len(doc.body) + Len(doc.back) + 1

\* The places of a list, from the first to the last.
InOrder(places) ==
    [k \in 1..Cardinality(places) |->
       CHOOSE i \in places : Cardinality({j \in places : j <= i}) = k]

\* What there is at some places of a list, in their order.
Ordered(at) == LET places == InOrder(DOMAIN at) IN [k \in DOMAIN places |-> at[places[k]]]

-------------------------------------------------------------------------------
(* Groups of paragraphs: one for each entry.                               *)

\* The last group is the active one.
Group(entry, at) == [number |-> entry.number, work |-> entry.work,
                     breaks |-> entry.breaks, anchors |-> <<at>>]

Continued(groups, breaks, at) ==
    [groups EXCEPT ![Len(groups)].breaks = breaks, ![Len(groups)].anchors = Append(@, at)]

\* The entries that start in a paragraph.
Started(p, at) == [i \in 1..Len(p.entries) |-> Group(p.entries[i], at)]

\* One paragraph of _collect_reference_groups. acc.taken are the paragraphs that
\* belong to the bibliography, acc.groups the groups so far.
Collect(p, at, acc) ==
    LET groups == acc.groups
        room == MaxReferences + 1 - Len(groups)
        active == groups # << >>
        numbered == active /\ Last(groups).number # 0
        took == acc.taken \union {at}
        started == Started(p, at)
        before == IF p.prefix /\ active THEN Continued(groups, FALSE, at) ELSE groups
    IN CASE room = 0 -> [acc EXCEPT !.taken = took]
         [] room > 0 /\ p.kind = "entries" ->
              [taken |-> took,
               groups |-> before \o SubSeq(started, 1, IF room < Len(started) THEN room
                                                       ELSE Len(started))]
         [] room > 0 /\ p.kind = "author" /\ ~numbered ->
              [taken |-> took, groups |-> groups \o started]
         [] room > 0 /\ p.kind = "note" /\ numbered -> acc
         [] room > 0 /\ p.kind \in {"note", "bibliographic"} /\ ~active ->
              [taken |-> took, groups |-> started]
         [] room > 0 /\ p.kind = "prose" /\ ~active -> acc
         [] OTHER -> [taken |-> took, groups |-> Continued(groups, p.breaks, at)]

NoGroups == [taken |-> {}, groups |-> << >>]

\* The groups of the paragraphs at the given positions, up to each paragraph.
CollectedUpTo(doc, positions) ==
    LET acc[n \in 0..Len(Paragraphs(doc))] ==
            IF n = 0 THEN NoGroups
            ELSE IF n \in positions THEN Collect(Paragraphs(doc)[n], n, acc[n - 1])
            ELSE acc[n - 1]
    IN acc

GroupsAt(doc, positions) == CollectedUpTo(doc, positions)[Len(Paragraphs(doc))]

\* Each row of a table is a paragraph of its own, all under the table's id.
RowsCollectedUpTo(doc) ==
    LET acc[n \in 0..Len(doc.table)] ==
            IF n = 0 THEN NoGroups
            ELSE Collect(Paragraph("entries", <<doc.table[n]>>, FALSE, FALSE, << >>),
                         TablePosition(doc), acc[n - 1])
    IN acc

GroupsOfTable(doc) == RowsCollectedUpTo(doc)[Len(doc.table)]

-------------------------------------------------------------------------------
(* Which paragraphs are the bibliography.                                  *)

\* Without a heading: what looks like an entry by its beginning or has a DOI, and
\* what follows that and looks bibliographic.
StartsEntry(p) ==
    \/ p.kind = "author"
    \/ p.kind = "entries" /\ ~p.prefix /\ p.entries[1].number # 0
    \/ p.doi

Trailing(doc) ==
    {i \in BackPositions(doc) :
        \/ StartsEntry(Paragraphs(doc)[i])
        \/ /\ Paragraphs(doc)[i].kind # "prose"
           /\ \E j \in BackPositions(doc) : j < i /\ StartsEntry(Paragraphs(doc)[j])}

\* _valid_trailing_reference_cluster.
Coherent(groups) ==
    /\ Len(groups) >= 2
    /\ \/ \A i \in DOMAIN groups : groups[i].number = 0
       \/ \A i \in DOMAIN groups : groups[i].number = i

\* bibliography_status, the groups and the paragraphs they took.
Bibliography(doc) ==
    LET headed == GroupsAt(doc, BackPositions(doc))
        guessed == GroupsAt(doc, Trailing(doc))
        found(status, b) == [status |-> status, groups |-> b.groups, taken |-> b.taken]
        nothing == [status |-> "NOT_FOUND", groups |-> << >>, taken |-> {}]
    IN IF doc.heading
       THEN CASE headed.groups # << >> -> found("PARSED", headed)
              [] headed.groups = << >> /\ doc.table # << >> ->
                   found("PARSED", GroupsOfTable(doc))
              [] OTHER -> nothing
       ELSE IF Cardinality(Trailing(doc)) >= 2 /\ Coherent(guessed.groups)
            THEN found("UNCERTAIN", guessed)
            ELSE nothing

-------------------------------------------------------------------------------
(* References and mentions.                                                *)

\* An entry without a number gets the next one, but is not cited by it.
NextNumber(groups) ==
    LET next[n \in 0..Len(groups)] ==
            IF n = 0 THEN 1 ELSE Max({next[n - 1], groups[n].number}) + 1
    IN next

Numbers(groups) ==
    [i \in DOMAIN groups |-> IF groups[i].number # 0 THEN groups[i].number
                             ELSE NextNumber(groups)[i - 1]]

\* Mutant: the id is the number, although a number may be printed twice.
IdByNumber(numbers, i) == <<numbers[i], 0>>

\* _unique_reference: a number already used is told apart by the entry's place.
UniqueId(numbers, i) ==
    <<numbers[i], IF \E j \in 1..i - 1 : numbers[j] = numbers[i] THEN i ELSE 0>>

\* An entry that breaks off is no reference to judge, and neither is one of a
\* bibliography that was guessed at, nor the last one of a list cut short.
Legibility(b, i) ==
    CASE b.groups[i].breaks -> "FRAGMENTED"
      [] ~b.groups[i].breaks /\ (b.status # "PARSED" \/
                                 (i = MaxReferences /\ Len(b.groups) > MaxReferences)) ->
           "UNCERTAIN"
      [] OTHER -> "PARSED"

\* What is kept of the entry at a place of the bibliography.
Reference(b, numbers, i) ==
    [id |-> UniqueId(numbers, i), printed |-> b.groups[i].number, work |-> b.groups[i].work,
     status |-> Legibility(b, i), anchors |-> b.groups[i].anchors]

References(b) ==
    LET numbers == Numbers(b.groups)
        kept == IF Len(b.groups) > MaxReferences THEN MaxReferences ELSE Len(b.groups)
    IN [i \in 1..kept |-> Reference(b, numbers, i)]

\* Markers in a paragraph outside the bibliography. A number in front of an entry
\* looks like any other; a range with a zero in it is no citation.
MarkersOf(p) ==
    LET all == p.markers \o [i \in 1..Len(p.entries) |->
                                Marker({p.entries[i].number}, NoAuthor, TRUE)]
    IN Ordered([i \in {j \in DOMAIN all : 0 \notin all[j].numbers} |-> all[i]])

MarkersAt(doc, at) ==
    LET markers == MarkersOf(Paragraphs(doc)[at]) IN
    [i \in DOMAIN markers |-> [marker |-> markers[i], at |-> at, place |-> i]]

\* The markers outside the paragraphs of the bibliography, up to each paragraph.
MarkersUpTo(doc, taken) ==
    LET acc[n \in 0..Len(Paragraphs(doc))] ==
            IF n = 0 THEN << >>
            ELSE acc[n - 1] \o (IF n \in taken THEN << >> ELSE MarkersAt(doc, n))
    IN acc

AllMarkers(doc, taken) == MarkersUpTo(doc, taken)[Len(Paragraphs(doc))]

\* The mentions kept; the last one of a list cut short is not relied on.
Mentions(markers) ==
    [i \in 1..IF Len(markers) > MaxMentions THEN MaxMentions ELSE Len(markers) |->
       [markers[i] EXCEPT !.marker.read =
          @ /\ ~(i = MaxMentions /\ Len(markers) > MaxMentions)]]

-------------------------------------------------------------------------------
(* Links.                                                                  *)

\* Mutant: a list cut short is forgotten.
UncertainByText(b, references, mentions) ==
    \/ b.status # "PARSED"
    \/ \E i \in DOMAIN references : references[i].status = "FRAGMENTED"
    \/ \E i \in DOMAIN mentions : ~mentions[i].marker.read

\* parser_uncertain: anything in the document that was not read for certain.
Uncertain(b, references, mentions) ==
    \/ b.status # "PARSED"
    \/ \E i \in DOMAIN references : references[i].status # "PARSED"
    \/ \E i \in DOMAIN mentions : ~mentions[i].marker.read

\* The references a marker may mean: those printed with a number, and those of an
\* author and year.
Candidates(references, n) == {i \in DOMAIN references : references[i].printed = n}
Authored(references, author) ==
    {i \in DOMAIN references : AuthorYear[references[i].work] = author}

Matches(references, marker) ==
    IF marker.numbers # {}
    THEN UNION {Candidates(references, n) : n \in marker.numbers}
    ELSE Authored(references, marker.author)

\* One reference for each number, or for the author, and each of them legible.
Unambiguous(references, marker) ==
    /\ IF marker.numbers # {}
       THEN \A n \in marker.numbers : Cardinality(Candidates(references, n)) = 1
       ELSE Cardinality(Authored(references, marker.author)) = 1
    /\ \A i \in Matches(references, marker) : references[i].status = "PARSED"

\* The status of a mention: what is uncertain is mapped by a person.
Link(references, marker, uncertain) ==
    CASE ~marker.read -> "AMBIGUOUS_MAPPING"
      [] marker.read /\ Unambiguous(references, marker) -> "LINKED"
      [] OTHER -> IF uncertain THEN "AMBIGUOUS_MAPPING"
                  ELSE IF Matches(references, marker) # {} THEN "AMBIGUOUS" ELSE "ORPHAN"

\* What is kept of a marker, and what it is linked to.
Mention(found, references, uncertain) ==
    [id |-> <<found.at, found.place>>, at |-> found.at, marker |-> found.marker,
     status |-> Link(references, found.marker, uncertain),
     references |-> IF found.marker.read THEN Matches(references, found.marker) ELSE {}]

\* The report on a document. The keys of the mentions are their places.
Parse(doc) ==
    LET b == Bibliography(doc)
        references == References(b)
        mentions == Mentions(AllMarkers(doc, b.taken))
        uncertain == Uncertain(b, references, mentions)
    IN [bibliography |-> b.status,
        uncertain |-> uncertain,
        references |-> references,
        mentions |-> [i \in DOMAIN mentions |-> Mention(mentions[i], references, uncertain)],
        duplicates |-> {i \in DOMAIN references :
                          \E j \in 1..i - 1 : references[j].work = references[i].work}]
===============================================================================
