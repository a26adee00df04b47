---------------------------- MODULE ParserRouting ----------------------------
(***************************************************************************)
(* ParserRouter of the parser contracts and the hybrid HWP adapter behind  *)
(* it.  A text is a sequence of letters and blanks; a range of it is the   *)
(* pair of its 0-based start and of its end, as the offsets of the code.   *)
(* A score is in hundredths.                                               *)
(***************************************************************************)
EXTENDS Integers, Sequences, SequencesExt

CONSTANTS
    Inputs,         \* documents: [kind, complex, canonical, structure]
    Adapters,       \* names of the configured adapters
    Ranks,          \* confidence scores another parser may return
    Blank,          \* the whitespace character
    StructureAttempts

VARIABLES
    input,          \* the DocumentInput, with what its sources would return
    pc,             \* "route", "text", "structure", "secondary", "select", "done", "failed"
    tries,          \* structure_attempts used
    attempts,       \* ParserAttempts: [adapter, document]
    selected        \* index of the selected attempt, 0 before

vars == <<input, pc, tries, attempts, selected>>

Init ==
    /\ input \in Inputs /\ pc = "route" /\ tries = 0
    /\ attempts = <<>> /\ selected = 0

-----------------------------------------------------------------------------
(* HwpStructureAligner *)

Stripped(text) == SelectSeq(text, LAMBDA c : c # Blank)
IsBlank(text) == Stripped(text) = <<>>

\* The canonical text of a page: its blocks in the order of their offsets,
\* joined by a line break.
Pages(document) == {document.blocks[i].page : i \in DOMAIN document.blocks}
PageText(document, page) ==
    LET onPage == SelectSeq(document.blocks, LAMBDA b : b.page = page /\ b.text # <<>>)
        ordered == SortSeq(onPage, LAMBDA b, c : b.start < c.start)
    IN FoldLeft(LAMBDA text, b : IF text = <<>> THEN b.text ELSE text \o <<Blank>> \o b.text,
                <<>>, ordered)

Find(text, candidate, cursor) ==
    {i \in cursor..(Len(text) - Len(candidate)) :
        SubSeq(text, i + 1, i + Len(candidate)) = candidate}
First(S) == CHOOSE i \in S : \A j \in S : i <= j

\* Mutant: the candidate is looked for from the beginning of the page.
MatchFromStart(text, candidate, cursor) ==
    LET exact == Find(text, candidate, 0)
    IN {<<i, i + Len(candidate)>> : i \in IF exact = {} THEN {} ELSE {First(exact)}}

\* _match: the first exact occurrence from the cursor on, else the first one
\* when blanks are ignored on both sides.  A set of at most one range.
Match(text, candidate, cursor) ==
    LET exact == Find(text, candidate, cursor)
        kept == SelectSeq([i \in 1..Len(text) |-> i - 1],
                          LAMBDA i : i >= cursor /\ text[i + 1] # Blank)
        compact == Stripped(candidate)
        loose == Find([k \in DOMAIN kept |-> text[kept[k] + 1]], compact, 0)
    IN IF exact # {} THEN {<<First(exact), First(exact) + Len(candidate)>>}
       ELSE IF kept = <<>> \/ compact = <<>> \/ loose = {} THEN {}
       ELSE {<<kept[First(loose) + 1], kept[First(loose) + Len(compact)] + 1>>}

\* Structure blocks that have a text on a page of the canonical document.
Expected(canonical, structure) ==
    {i \in DOMAIN structure.blocks :
        structure.blocks[i].page \in Pages(canonical) /\ ~IsBlank(structure.blocks[i].text)}

\* _aligned_ranges: each structure block in turn takes its match after the
\* one its page took last.
Aligned(canonical, structure) ==
    LET Align(ranges, block, i) ==
            LET page == block.page
                taken == SelectSeq(ranges, LAMBDA r : r.page = page)
                cursor == IF taken = <<>> THEN 0 ELSE taken[Len(taken)].end
                match == Match(PageText(canonical, page), block.text, cursor)
            IN IF i \notin Expected(canonical, structure) THEN ranges
               ELSE ranges \o SetToSeq({[page |-> page, start |-> m[1], end |-> m[2], source |-> i]
                                            : m \in match})
    IN FoldLeft(LAMBDA ranges, i : Align(ranges, structure.blocks[i], i),
                <<>>, [i \in DOMAIN structure.blocks |-> i])

\* _uncovered_ranges of a page: what is left between the aligned ones.
Uncovered(text, aligned, page) ==
    LET Free(i) == \A k \in DOMAIN aligned :
            aligned[k].page = page => ~(aligned[k].start <= i /\ i < aligned[k].end)
    IN {[page |-> page, start |-> s, end |-> e, source |-> 0] :
            <<s, e>> \in {r \in (0..Len(text)) \X (0..Len(text)) :
                /\ r[1] < r[2] /\ \A i \in r[1]..(r[2] - 1) : Free(i)
                /\ r[1] = 0 \/ ~Free(r[1] - 1)
                /\ r[2] = Len(text) \/ ~Free(r[2])}}

\* Ranges without text, and blank ones that no source claims, make no block.
OutputRanges(canonical, structure) ==
    LET aligned == Aligned(canonical, structure)
        TextOf(r) == SubSeq(PageText(canonical, r.page), r.start + 1, r.end)
        all == Range(aligned) \cup
               UNION {Uncovered(PageText(canonical, p), aligned, p) : p \in Pages(canonical)}
    IN {r \in all : TextOf(r) # <<>> /\ (r.source # 0 \/ ~IsBlank(TextOf(r)))}

Lower(a, b) == IF a < b THEN a ELSE b

\* _hybrid_block: the text is always the canonical one.
HybridBlock(canonical, structure, range) ==
    [page |-> range.page, start |-> range.start, source |-> range.source,
     text |-> SubSeq(PageText(canonical, range.page), range.start + 1, range.end),
     score |-> IF range.source = 0 THEN Lower(canonical.score, 79)
               ELSE Lower(canonical.score, structure.blocks[range.source].score)]

\* _unstructured: the canonical blocks as they are.
Unstructured(canonical) ==
    [parser |-> "hwp-hybrid", score |-> Lower(canonical.score, 79),
     warnings |-> <<"HWP_STRUCTURE_SOURCE_UNAVAILABLE">>, layout |-> {},
     blocks |-> [i \in DOMAIN canonical.blocks |->
        [page |-> canonical.blocks[i].page, start |-> canonical.blocks[i].start, source |-> 0,
         text |-> canonical.blocks[i].text, score |-> Lower(canonical.score, 79)]]]

\* Text without a node, or a node without its text.
Incomplete(canonical, structure, sources) ==
    0 \in sources \/ ~(Expected(canonical, structure) \subseteq sources)

Merge(canonical, structure) ==
    LET ranges == OutputRanges(canonical, structure)
        ordered == SetToSortSeq(ranges, LAMBDA r, q : \/ r.page < q.page
                                                      \/ r.page = q.page /\ r.start < q.start)
        blocks == [k \in DOMAIN ordered |-> HybridBlock(canonical, structure, ordered[k])]
        sources == {r.source : r \in ranges}
        incomplete == Incomplete(canonical, structure, sources)
        lowest == First({blocks[k].score : k \in DOMAIN blocks})
    IN IF Aligned(canonical, structure) = <<>> THEN Unstructured(canonical)
       ELSE [parser |-> "hwp-hybrid", blocks |-> blocks,
             score |-> IF incomplete THEN Lower(lowest, 79) ELSE lowest,
             warnings |-> IF incomplete THEN <<"HWP_STRUCTURE_ALIGNMENT_INCOMPLETE">> ELSE <<>>,
             layout |-> structure.layout \cap sources]

-----------------------------------------------------------------------------
(* ParserRouter *)

Hangul == input.kind = "hwp"

\* A scanned PDF is told from others by "scan"; no input of another kind has
\* a second parser unless quality asks for a rerun.
Primary == CASE Hangul -> "hwp-hybrid" [] input.kind = "pdf" -> "opendataloader-pdf"
             [] OTHER -> "paddleocr"
Reruns == input.kind = "pdf" /\ input.complex
Secondaries == IF Reruns THEN {"mineru"} \cap Adapters ELSE {}

\* FILE_NOT_SUPPORTED, or AdapterNotConfigured.
Route ==
    /\ pc = "route"
    /\ pc' = IF input.kind = "other" \/ Primary \notin Adapters THEN "failed"
             ELSE IF Hangul THEN "text" ELSE "primary"
    /\ UNCHANGED <<input, tries, attempts, selected>>

\* The primary of any other kind returns a document of some rank.
ParsePrimary ==
    /\ pc = "primary"
    /\ \E rank \in Ranks :
          attempts' = <<[adapter |-> Primary, document |-> [parser |-> Primary, score |-> rank]]>>
    /\ pc' = IF Secondaries = {} THEN "select" ELSE "secondary"
    /\ UNCHANGED <<input, tries, selected>>

ParseSecondary ==
    /\ pc = "secondary"
    /\ \E rank \in Ranks, name \in Secondaries :
          attempts' = Append(attempts, [adapter |-> name, document |-> [parser |-> name, score |-> rank]])
    /\ pc' = "select"
    /\ UNCHANGED <<input, tries, selected>>

\* The canonical text: HWP_HYBRID_CANONICAL_TEXT_EMPTY when all of it is blank.
ReadText ==
    /\ pc = "text"
    /\ pc' = IF \A i \in DOMAIN input.canonical.blocks : IsBlank(input.canonical.blocks[i].text)
             THEN "failed" ELSE "structure"
    /\ UNCHANGED <<input, tries, attempts, selected>>

Hybrid(document) ==
    /\ attempts' = <<[adapter |-> "hwp-hybrid", document |-> document]>>
    /\ pc' = "select"

\* The structure source fails with a RuntimeError: it is asked again, and the
\* text goes on alone when the attempts are used.
StructureFails ==
    /\ pc = "structure"
    /\ tries' = tries + 1
    /\ IF tries' < StructureAttempts THEN UNCHANGED <<attempts, pc>>
       ELSE Hybrid(Unstructured(input.canonical))
    /\ UNCHANGED <<input, selected>>

\* Its answer must be of the same file and the same review.
StructureAnswers ==
    /\ pc = "structure"
    /\ IF input.structure.file # input.canonical.file
       THEN pc' = "failed" /\ UNCHANGED attempts
       ELSE Hybrid(Merge(input.canonical, input.structure))
    /\ UNCHANGED <<input, tries, selected>>

\* The best score; the earlier attempt of two that are equal.
Select ==
    /\ pc = "select"
    /\ selected' = CHOOSE i \in DOMAIN attempts :
          /\ \A j \in DOMAIN attempts : attempts[j].document.score <= attempts[i].document.score
          /\ \A j \in 1..(i - 1) : attempts[j].document.score < attempts[i].document.score
    /\ pc' = "done"
    /\ UNCHANGED <<input, tries, attempts>>

Next == \/ Route \/ ParsePrimary \/ ParseSecondary \/ ReadText
        \/ StructureFails \/ StructureAnswers \/ Select

Spec == Init /\ [][Next]_vars

-----------------------------------------------------------------------------
Output == attempts[selected].document
Merged == pc = "done" /\ Hangul

\* Structure adds to the text and never replaces it: whatever the structure
\* source said, the blocks of a page hold its canonical characters, once each
\* and in their order (HwpStructureAligner, "without replacing or dropping
\* text").
TextIsPreserved ==
    Merged => \A page \in Pages(input.canonical) :
        LET blocks == SelectSeq(Output.blocks, LAMBDA b : b.page = page)
            ordered == SortSeq(blocks, LAMBDA b, c : b.start < c.start)
        IN Stripped(FlattenSeq([k \in DOMAIN ordered |-> ordered[k].text]))
              = Stripped(PageText(input.canonical, page))

\* Without a warning every canonical letter and every structure node is
\* aligned; with one the document is below the readable score.  A node always
\* shows the letters its own source read, never another node's.
WarnedOrAligned ==
    Merged =>
      LET sources == {Output.blocks[k].source : k \in DOMAIN Output.blocks} IN
      /\ Output.warnings = <<>> =>
            0 \notin sources /\ Expected(input.canonical, input.structure) \subseteq sources
      /\ Output.warnings # <<>> => Output.score < 80
      /\ \A k \in DOMAIN Output.blocks : Output.blocks[k].source # 0 =>
            Stripped(Output.blocks[k].text)
               = Stripped(input.structure.blocks[Output.blocks[k].source].text)
=============================================================================
