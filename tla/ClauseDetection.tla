--------------------------- MODULE ClauseDetection ----------------------------
(***************************************************************************)
(* Where the clauses of a document are (ai/docpipeline/clauses.py): first  *)
(* under the headings that name them, then, for what is left, in windows   *)
(* of pages that are read in waves.  What the model answers, and whether it*)
(* answers, is open.                                                       *)
(***************************************************************************)
EXTENDS Sections, FiniteSetsExt

CONSTANTS
    Target,          \* the clauses the document's profile expects
    PageCount,
    ChunkPages,      \* pages per window
    ChunkOverlap,    \* pages a window reads again
    WaveSize,        \* concurrency
    MinChunk,        \* MIN_CHUNK_CHARS
    MaxRepair,       \* MAX_REPAIR_PARAGRAPHS
    NotFound

ASSUME DetectionAssumption ==
    /\ PageCount \in Nat /\ ChunkPages \in Nat \ {0} /\ ChunkOverlap \in Nat /\ WaveSize \in Nat \ {0}
    /\ \A p \in Paragraph : PageOf[p] \in 1 .. PageCount
    /\ MaxRepair \in Nat
    /\ NotFound \notin Int
    /\ NotFound \notin [text : SUBSET Int, heading : Int \union {NotFound}, window : Int]

VARIABLES
    pass,
    taken,           \* the heading each clause is matched to, or NotFound
    located,         \* the text of each clause and how it was found, or NotFound
    answers,         \* what the calls of the wave in hand have said
    wave,            \* the first window of the next wave
    neverRead,       \* result.pages_never_read
    unsearched,      \* history: windows whose call failed
    reported         \* history: the first window whose answer had the clause, 0 for none

detectionVars == <<doc, pass, taken, located, answers, wave, neverRead, unsearched, reported>>

-----------------------------------------------------------------------------
(* _extent_from_heading: up to the next paragraph that ends an extent.     *)

Extent(h) == {p \in Paragraph : h <= p /\ \A q \in h + 1 .. p : q \notin Stops}

Claimants(h) == {c \in Target : taken[c] = h}
Contested    == {h \in Heading : Cardinality(Claimants(h)) > 1}

(* _windows: the last one is the first that reaches the end.               *)

Step == Max({1, ChunkPages - ChunkOverlap})
WindowCount ==
    IF PageCount = 0 THEN 0
    ELSE 1 + (Max({0, PageCount - ChunkPages}) + Step - 1) \div Step
Window(n) == {g \in 1 .. PageCount : (n - 1) * Step < g /\ g <= (n - 1) * Step + ChunkPages}
Body(n)   == {p \in Paragraph : PageOf[p] \in Window(n)}
Skipped(n) == MapThenSumSet(LAMBDA p : doc[p].size, Body(n)) < MinChunk

Covered == UNION {Window(n) : n \in 1 .. wave - 1}   \* seen_pages

(* _repair_boundary: a text that ends where its window does goes on after  *)
(* it.  A text is what the answer lists, and the paragraph it lists last.  *)

GoesPastHeadings(text, n, p) ==
    /\ text.last = Max(Body(n))
    /\ p > text.last /\ p <= text.last + MaxRepair
    /\ \A q \in text.last + 1 .. p : q \notin Furniture /\ PageOf[q] <= PageOf[text.last] + 1

GoesPastPages(text, n, p) ==
    /\ text.last = Max(Body(n))
    /\ p > text.last /\ p <= text.last + MaxRepair
    /\ \A q \in text.last + 1 .. p : q \notin Stops

Goes(text, n, p) ==
    /\ text.last = Max(Body(n))
    /\ p > text.last /\ p <= text.last + MaxRepair
    /\ \A q \in text.last + 1 .. p : q \notin Stops /\ PageOf[q] <= PageOf[text.last] + 1

Repaired(text, n) == text.refs \union {p \in Paragraph : Goes(text, n, p)}

-----------------------------------------------------------------------------

DetectionInit ==
    /\ IsDocument
    /\ pass = "headings"
    /\ taken = [c \in Target |-> NotFound] /\ located = [c \in Target |-> NotFound]
    /\ answers = <<>> /\ wave = 1 /\ neverRead = {}
    /\ unsearched = {} /\ reported = [c \in Target |-> 0]

Unlocated == {c \in Target : located[c] = NotFound}

\* The first heading that reads like a clause's name takes it.
ExactMatch(c) ==
    LET like == {h \in Heading : doc[h].title = c} IN IF like = {} THEN NotFound ELSE Min(like)

MatchHeadings ==
    /\ pass = "headings"
    /\ taken' = [c \in Target |-> ExactMatch(c)]
    /\ pass' = "mapping"
    /\ UNCHANGED <<doc, located, answers, wave, neverRead, unsearched, reported>>

\* The other headings go to the model, twice, and a clause keeps the first match
\* (_map_headings; a failed call is a sample without matches).
Unmatched == Heading \ {taken[c] : c \in Target}
Samples   == [{c \in Target : taken[c] = NotFound} -> Unmatched \union {NotFound}]

MapHeadings ==
    /\ pass = "mapping"
    /\ \E first, second \in Samples :
          taken' = [c \in Target |-> IF taken[c] # NotFound THEN taken[c]
                                     ELSE IF first[c] # NotFound THEN first[c] ELSE second[c]]
    /\ pass' = "extents"
    /\ UNCHANGED <<doc, located, answers, wave, neverRead, unsearched, reported>>

ByHeading(h, text) == [text |-> text, heading |-> h, window |-> 0]

\* _extents, of the clauses that have a heading to themselves.
TakeExtents ==
    /\ pass = "extents"
    /\ located' = [c \in Target |->
                     IF taken[c] # NotFound /\ taken[c] \notin Contested
                     THEN ByHeading(taken[c], Extent(taken[c])) ELSE NotFound]
    /\ pass' = "splitting"
    /\ UNCHANGED <<doc, taken, answers, wave, neverRead, unsearched, reported>>

\* _split_section: a split that leaves a claimant without text is none, and all
\* keep the whole section, as when the call fails.
SplitSection(h) ==
    /\ pass = "splitting"
    /\ h \in Contested /\ Claimants(h) \subseteq Unlocated
    /\ \E share \in [Claimants(h) -> SUBSET Extent(h)] :
          located' = [c \in Target |->
                        IF c \notin Claimants(h) THEN located[c]
                        ELSE ByHeading(h, IF \E d \in Claimants(h) : share[d] = {}
                                          THEN Extent(h) ELSE share[c])]
    /\ UNCHANGED <<doc, pass, taken, answers, wave, neverRead, unsearched, reported>>

EndHeadingPass ==
    /\ pass = "splitting"
    /\ \A h \in Contested : Claimants(h) \cap Unlocated = {}
    /\ pass' = IF Unlocated = {} THEN "done" ELSE "searching"
    /\ UNCHANGED <<doc, taken, located, answers, wave, neverRead, unsearched, reported>>

-----------------------------------------------------------------------------

Wave == {n \in wave .. wave + WaveSize - 1 : n <= WindowCount}

\* The text an answer may give for a clause once invented references are dropped.
Spans(n) == {[refs |-> a .. b, last |-> b] : a, b \in Body(n)}
CallsOpen == {n \in Wave : ~Skipped(n) /\ n \notin DOMAIN answers}

StopEarlyForgetful ==
    /\ pass = "searching" /\ answers = <<>>
    /\ Unlocated = {} /\ Wave # {}
    /\ neverRead' = UNION {Window(n) : n \in wave .. WindowCount}
    /\ pass' = "done"
    /\ UNCHANGED <<doc, taken, located, answers, wave, unsearched, reported>>

StopEarly ==
    /\ pass = "searching" /\ answers = <<>>
    /\ Unlocated = {} /\ Wave # {}
    /\ neverRead' = (UNION {Window(n) : n \in wave .. WindowCount}) \ Covered
    /\ pass' = "done"
    /\ UNCHANGED <<doc, taken, located, answers, wave, unsearched, reported>>

\* _search_chunk: the calls of a wave are asked for what was outstanding when it
\* began; one that fails finds nothing.
Hear(n, answer) ==
    /\ answers' = [m \in DOMAIN answers \union {n} |-> IF m = n THEN answer ELSE answers[m]]
    /\ UNCHANGED <<doc, pass, taken, located, wave, neverRead>>

Search(n) ==
    /\ pass = "searching" /\ Unlocated # {} /\ n \in CallsOpen
    /\ \E answer \in [Unlocated -> {t \in Spans(n) : t.refs # {}} \union {NotFound}] :
          /\ Hear(n, answer)
          /\ reported' = [c \in Target |->
                            IF c \in Unlocated /\ answer[c] # NotFound
                               /\ (reported[c] = 0 \/ n < reported[c])
                            THEN n ELSE reported[c]]
    /\ UNCHANGED unsearched

SearchFails(n) ==
    /\ pass = "searching" /\ Unlocated # {} /\ n \in CallsOpen
    /\ Hear(n, [c \in Unlocated |-> NotFound])
    /\ unsearched' = unsearched \union {n}
    /\ UNCHANGED reported

\* The windows of the wave whose answers have the clause, and the one that counts.
Finders(c) == {n \in DOMAIN answers : answers[n][c] # NotFound}
FinderLast(c) == Max(Finders(c))
Finder(c)     == Min(Finders(c))

FinishWave ==
    /\ pass = "searching" /\ Unlocated # {} /\ Wave # {} /\ CallsOpen = {}
    /\ located' = [c \in Target |->
                     IF c \in Unlocated /\ Finders(c) # {}
                     THEN [text |-> Repaired(answers[Finder(c)][c], Finder(c)),
                           heading |-> NotFound, window |-> Finder(c)]
                     ELSE located[c]]
    /\ wave' = wave + WaveSize
    /\ answers' = <<>>
    /\ UNCHANGED <<doc, pass, taken, neverRead, unsearched, reported>>

\* The loop ran out of windows.
Exhaust ==
    /\ pass = "searching" /\ Wave = {}
    /\ pass' = "done"
    /\ UNCHANGED <<doc, taken, located, answers, wave, neverRead, unsearched, reported>>

DetectionNext ==
    \/ MatchHeadings \/ MapHeadings \/ TakeExtents
    \/ \E h \in Paragraph : SplitSection(h)
    \/ EndHeadingPass \/ StopEarly
    \/ \E n \in 1 .. WindowCount : Search(n) \/ SearchFails(n)
    \/ FinishWave \/ Exhaust

\* Any document: detection starts when it has been parsed.
DetectionSpec == DetectionInit /\ [][DetectionNext]_detectionVars

-----------------------------------------------------------------------------

\* What extraction and search read of the document is all of it, in order (the
\* sections do not change while clauses are looked for).
ReadInFull == pass = "mapping" => ChunksCoverDocument

\* A clause is reported as absent only when every page was reached, and the pages
\* reported as never read are those that no window has covered (detect raises if
\* the first fails: "the report would be claiming a clause is absent from pages
\* it never opened").
AbsentMeansReached ==
    pass = "done" =>
        /\ Unlocated # {} => neverRead = {} /\ Covered = 1 .. PageCount
        /\ wave > 1 => neverRead = (1 .. PageCount) \ Covered

\* What is found is kept: a clause that an answer has is in the result, with the
\* text of the first window in document order that has it, whatever the calls of
\* a wave answer and in whatever order (_chunk_pass).
FirstFindKept ==
    answers = <<>> => \A c \in Target :
        reported[c] # 0 => located[c] # NotFound /\ located[c].window = reported[c]

\* The text of a clause is not empty and stays in its section: clauses under
\* different headings share no paragraph, and what a window's text is continued
\* with belongs to no other section, is no longer than the repair may be and is
\* at most a page away from the end of the window (_extents, _split_section,
\* _repair_boundary).
SectionsApart ==
    /\ \A c \in Target : located[c] # NotFound =>
          /\ located[c].text # {}
          /\ located[c].window # 0 =>
                LET beyond == {p \in located[c].text : p > Max(Body(located[c].window))}
                IN  /\ beyond \cap Heading = {} /\ Cardinality(beyond) <= MaxRepair
                    /\ \A p \in beyond : PageOf[p] <= PageOf[Max(Body(located[c].window))] + 1
    /\ \A c, d \in Target :
          /\ located[c] # NotFound /\ located[d] # NotFound
          /\ NotFound \notin {located[c].heading, located[d].heading}
          /\ located[c].heading # located[d].heading
          => located[c].text \cap located[d].text = {}

\* runner.py:246-248, "NOT FOUND is only ever reached after the whole document was
\* read": no window's search failed when a clause is reported as absent.
AbsentMeansSearched == pass = "done" /\ Unlocated # {} => unsearched = {}
=============================================================================
