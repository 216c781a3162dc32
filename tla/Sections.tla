------------------------------- MODULE Sections -------------------------------
(***************************************************************************)
(* A parsed document as the clause detector and the extraction stage read  *)
(* it (ai/docpipeline/source.py), and the sections that extraction cuts it *)
(* into (orchestrator/stages/extraction.py, _section_chunks).              *)
(*                                                                         *)
(* A paragraph is its place in the document.  Its size stands for its      *)
(* characters and its tokens alike, and the size of a text is the sum over *)
(* its paragraphs.                                                         *)
(***************************************************************************)
EXTENDS Integers, Sequences, FiniteSets, SequencesExt

CONSTANTS
    PageOf,          \* the page of each paragraph, in reading order
    MaxSection       \* _MAX_SECTION_TOKENS

ASSUME SectionsAssumption ==
    /\ PageOf \in Seq(Nat)
    /\ \A p, q \in DOMAIN PageOf : p < q => PageOf[p] <= PageOf[q]
    /\ MaxSection \in Nat

VARIABLE doc         \* kind, size and (of a heading) title of each paragraph

Paragraph == DOMAIN PageOf

IsDocument == \A p \in Paragraph : doc[p].size \in Nat

Heading   == {p \in Paragraph : doc[p].kind = "heading"}
Furniture == {p \in Paragraph : doc[p].kind = "furniture"}

StopsButHeadings == {p \in Paragraph : doc[p].kind \in {"furniture", "signature"}}

\* ends_clause_extent
Stops == {p \in Paragraph : doc[p].kind \in {"heading", "furniture", "signature"}}

SizeOf(ps) == FoldLeft(LAMBDA sum, p : sum + doc[p].size, 0, ps)

-----------------------------------------------------------------------------
(* A section is the sequence of its paragraphs.                            *)

\* The loop of _section_chunks: running furniture is skipped, a heading closes
\* what is open and opens the next.
SectionsOfDoc ==
    FoldLeft(LAMBDA sections, p :
               IF p \in Furniture THEN sections
               ELSE IF sections = <<>> \/ p \in Heading THEN Append(sections, <<p>>)
               ELSE Append(Front(sections), Append(Last(sections), p)),
             <<>>, [p \in Paragraph |-> p])

TitleOf(section) == IF Head(section) \in Heading THEN <<Head(section)>> ELSE <<>>
BodyOf(section)  == IF Head(section) \in Heading THEN Tail(section) ELSE section

\* The runs of _split_oversized: the heading's own size is not counted, and a
\* paragraph that is too large has a run to itself.
Runs(body) ==
    FoldLeft(LAMBDA runs, p :
               IF runs = <<>> \/ SizeOf(Last(runs)) + doc[p].size > MaxSection
               THEN Append(runs, <<p>>)
               ELSE Append(Front(runs), Append(Last(runs), p)),
             <<>>, body)

SplitWithoutTitle(section) ==
    IF SizeOf(section) <= MaxSection \/ BodyOf(section) = <<>> THEN <<section>>
    ELSE Runs(section)

SplitOversized(section) ==
    IF SizeOf(section) <= MaxSection \/ BodyOf(section) = <<>> THEN <<section>>
    ELSE [i \in DOMAIN Runs(BodyOf(section)) |-> TitleOf(section) \o Runs(BodyOf(section))[i]]

\* The chunks, as a sequence of paragraph sequences.
SectionChunks ==
    FoldLeft(LAMBDA chunks, section : chunks \o SplitOversized(section), <<>>, SectionsOfDoc)

\* chunk_id: the first paragraph, and the number of the part when there are more.
ChunkIds ==
    FoldLeft(LAMBDA ids, section :
               ids \o [i \in DOMAIN SplitOversized(section) |->
                         <<Head(SplitOversized(section)[i]),
                           IF Len(SplitOversized(section)) > 1 THEN i ELSE 0>>],
             <<>>, SectionsOfDoc)

-----------------------------------------------------------------------------

\* What extraction and search read is the document: every paragraph but running
\* furniture is the body of one chunk, in reading order, under the heading that
\* introduces it; a part is too large only when one paragraph is; and no two
\* chunks share the reference their database rows are found by
\* (_section_chunks, _split_oversized, _to_chunk, _prepare_chunks).
ChunksCoverDocument ==
    LET HeadingOver(p) == {h \in Heading : h <= p /\ \A g \in Heading : g <= p => g <= h}
    IN  /\ \A p \in Paragraph \ (Furniture \union Heading) :
              Cardinality({i \in DOMAIN SectionChunks : p \in ToSet(SectionChunks[i])}) = 1
        /\ \A h \in Heading : \E i \in DOMAIN SectionChunks : h \in ToSet(SectionChunks[i])
        /\ \A i \in DOMAIN SectionChunks :
              LET chunk == SectionChunks[i]
              IN  /\ \A j, k \in DOMAIN chunk : j < k => chunk[j] < chunk[k]
                  /\ \A p \in ToSet(chunk) : HeadingOver(p) \subseteq ToSet(TitleOf(chunk))
                  /\ SizeOf(BodyOf(chunk)) <= MaxSection \/ Len(BodyOf(chunk)) = 1
        /\ IsInjective(ChunkIds)
=============================================================================
