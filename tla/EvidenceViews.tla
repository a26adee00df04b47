---------------------------- MODULE EvidenceViews ----------------------------
(***************************************************************************)
(* The projection of one region of an advertisement to the documents the   *)
(* search sees (prepare_inputs.py).  A text is a sequence of characters,   *)
(* of which Break is whitespace, Bullet starts an item and Stop ends a     *)
(* sentence.  A line is [ref, text, row, x, names]: row is the visual row  *)
(* its box lies in (0: no box), x its distance from the label column, and  *)
(* names the template labels of the parser on it.                          *)
(***************************************************************************)
EXTENDS Integers, Sequences, FiniteSets, SequencesExt

CONSTANTS
    Regions,        \* [lines, final, table, selection, spans]
    Break, Bullet, Stop,
    TARGET_FINE_CHARS

VARIABLES
    region,         \* the region of the integrated input
    coarse,         \* its canonical document, none before
    fine            \* its fine views, none before

vars == <<region, coarse, fine>>

None == [status |-> "none"]
Init == region \in Regions /\ coarse = None /\ fine = <<>>

-----------------------------------------------------------------------------
compact(text) == SelectSeq(text, LAMBDA c : c # Break)
Cut(s, from, to) == SubSeq(s, from + 1, to)
Joined(parts) == FlattenSeq([i \in DOMAIN parts |-> parts[i].text])
Refs(r) == {r.lines[i].ref : i \in DOMAIN r.lines}
TextOf(r, refs) == Joined(SelectSeq(r.lines, LAMBDA l : l.ref \in refs))

\* A span names lines of the region, each one after the one before.
Position(r, ref) == CHOOSE i \in DOMAIN r.lines : r.lines[i].ref = ref
ValidSpan(r, span) ==
    /\ span.refs # <<>> /\ ToSet(span.refs) \subseteq Refs(r)
    /\ \A i \in 1..(Len(span.refs) - 1) :
          Position(r, span.refs[i]) < Position(r, span.refs[i + 1])
_validated_labels(r) == {span \in r.spans : ValidSpan(r, span)}

\* What combine leaves of the selection: a rejected span asks for a review.
Selection(r) ==
    IF _validated_labels(r) = r.spans THEN r.selection
    ELSE [r.selection EXCEPT !.needs_review = TRUE]

LabelsOn(r, refs) ==
    {span.name : span \in {s \in _validated_labels(r) : ToSet(s.refs) \cap refs # {}}}

-----------------------------------------------------------------------------
(* Alignment of the selected text to the parser's lines *)

Kept(paths) == IF Len(paths) > 2 THEN SubSeq(paths, 1, 2) ELSE paths

\* _selected_text_line_refs: the lines that make up the text, when exactly
\* one choice of them does; <<>> is the None of the code.  paths[o] are the
\* choices that make up the first o characters, at most two of them.
_selected_text_line_refs(lines, text) ==
    LET target == compact(text)
        whole == Len(target)
        Extend(paths, line) ==
            LET value == compact(line.text)
                Reached(end) ==
                    LET offset == end - Len(value) IN
                    IF offset >= 0 /\ Cut(target, offset, end) = value
                    THEN [i \in DOMAIN paths[offset] |-> Append(paths[offset][i], line.ref)]
                    ELSE <<>>
            IN IF value = <<>> THEN paths
               ELSE [end \in 0..whole |-> Kept(paths[end] \o Reached(end))]
        start == [o \in 0..whole |-> IF o = 0 THEN <<(<<>>)>> ELSE <<>>]
        paths == FoldLeft(Extend, start, lines)
    IN IF whole > 0 /\ Len(paths[whole]) = 1 THEN paths[whole][1] ELSE <<>>

\* A compact text without the stops at its end.
RECURSIVE Unstopped(_)
Unstopped(text) ==
    IF text # <<>> /\ Last(text) = Stop THEN Unstopped(Front(text)) ELSE text

\* _single_line_agreement_refs: the one line that is the text, a final stop
\* apart.
Agreeing(r, text) ==
    {l \in ToSet(r.lines) : Unstopped(compact(l.text)) = Unstopped(compact(text))}
_single_line_agreement_refs(r, text) ==
    IF Unstopped(compact(text)) = <<>> \/ Cardinality(Agreeing(r, text)) # 1 THEN <<>>
    ELSE <<(CHOOSE l \in Agreeing(r, text) : TRUE).ref>>

-----------------------------------------------------------------------------
(* Fine views *)

\* BULLET_START matches at i: a line begins there and its first character
\* that is no whitespace is a bullet.
StartsItem(text, i) ==
    /\ i = 0 \/ text[i] = Break
    /\ \E k \in (i + 1)..Len(text) :
          text[k] = Bullet /\ \A j \in (i + 1)..(k - 1) : text[j] = Break

\* _split_parts: a line is cut at its items and, when it is long, at its
\* breaks; a table row is not cut.
_split_parts(line, cut) ==
    LET text == line.text
        starts == {0} \cup
            (IF cut THEN {i \in 1..(Len(text) - 1) :
                            \/ StartsItem(text, i)
                            \/ Len(text) > TARGET_FINE_CHARS /\ text[i] = Break} ELSE {})
        End(s) == IF \E t \in starts : t > s
                  THEN CHOOSE t \in starts : t > s /\ \A u \in starts : u > s => t <= u
                  ELSE Len(text)
        pieces == {s \in starts : compact(Cut(text, s, End(s))) # <<>>}
        order == SetToSortSeq(pieces, LAMBDA s, t : s < t)
    IN [k \in DOMAIN order |->
          [text |-> Cut(text, order[k], End(order[k])), ref |-> line.ref,
           from |-> order[k], to |-> End(order[k]), row |-> line.row, x |-> line.x]]

\* The elements of a sequence in groups, of which each opens at an index with
\* Opens (the first one does in any case).
Grouped(s, Opens(_)) ==
    LET starts == SetToSortSeq({k \in DOMAIN s : k = 1 \/ Opens(k)}, LAMBDA i, j : i < j)
        EndOf(g) == IF g = Len(starts) THEN Len(s) ELSE starts[g + 1] - 1
    IN [g \in DOMAIN starts |-> SubSeq(s, starts[g], EndOf(g))]

\* _atomic_groups of a table: neighbours on one visual row stay together.
VisualRows(parts) ==
    Grouped(parts, LAMBDA k : parts[k].row = 0 \/ parts[k - 1].row # parts[k].row)

\* _unit_label: the label of a row, when it has just one.
Names(r, row) == LabelsOn(r, {row[i].ref : i \in DOMAIN row})
UnitLabel(r, row) == IF Cardinality(Names(r, row)) = 1 THEN Names(r, row) ELSE {}

\* _label_groups: a row of another label opens an item; an unlabelled row
\* belongs to the item before it.
_label_groups(r, rows) ==
    LET name == [k \in DOMAIN rows |-> UnitLabel(r, rows[k])] IN
    Grouped(rows, LAMBDA k : \E j \in 1..(k - 1) :
                /\ name[k] # {} /\ name[j] # {} /\ name[j] # name[k]
                /\ \A i \in (j + 1)..(k - 1) : name[i] = {})

\* _field_groups: a row that starts at the label column opens an item.
RowStart(row) == {row[i].x : i \in {j \in DOMAIN row : row[j].row # 0}}
_field_groups(rows) ==
    LET known == UNION {RowStart(rows[k]) : k \in DOMAIN rows}
        Least(S) == CHOOSE x \in S : \A y \in S : x <= y
    IN Grouped(rows, LAMBDA k : \/ known = {}
                                \/ RowStart(rows[k]) # {} /\ Least(RowStart(rows[k])) = Least(known))

Size(unit) == Len(Joined(unit))
RECURSIVE SizeOf(_)
SizeOf(units) == IF units = <<>> THEN 0 ELSE Size(Head(units)) + SizeOf(Tail(units))

\* Units packed up to the target; Opens tells which unit opens a view.
Pack(units, Opens(_)) ==
    LET size == [k \in DOMAIN units |-> Size(units[k])]
        fill[k \in DOMAIN units] ==
            LET before == IF k = 1 \/ Opens(units[k]) THEN TARGET_FINE_CHARS ELSE fill[k - 1]
            IN IF before + size[k] > TARGET_FINE_CHARS THEN size[k] ELSE before + size[k]
    IN Grouped(units, LAMBDA k : fill[k] # fill[k - 1] + size[k])

\* Mutant: the items of a table are packed part by part.
SplitParts(items) ==
    FlattenSeq([k \in DOMAIN items |->
        Pack([i \in DOMAIN FlattenSeq(items[k]) |-> <<FlattenSeq(items[k])[i]>>], LAMBDA row : FALSE)])

\* _split_oversized: an item above the target is cut between its rows only.
_split_oversized(items) ==
    FlattenSeq([k \in DOMAIN items |->
        IF SizeOf(items[k]) <= TARGET_FINE_CHARS THEN <<items[k]>>
        ELSE Pack(items[k], LAMBDA row : FALSE)])

TableGroups(r, parts) ==
    LET rows == VisualRows(parts)
        distinct == LabelsOn(r, Refs(r))
    IN _split_oversized(IF Cardinality(distinct) < 2 THEN _field_groups(rows)
                        ELSE _label_groups(r, rows))

TextGroups(parts) ==
    Pack([i \in DOMAIN parts |-> <<parts[i]>>], LAMBDA unit : StartsItem(unit[1].text, 0))

SelectedRefs(r) == ToSet(_selected_text_line_refs(r.lines, r.final))

LineParts(r) ==
    LET refs == SelectedRefs(r)
        lines == IF refs = {} THEN r.lines ELSE SelectSeq(r.lines, LAMBDA l : l.ref \in refs)
    IN FlattenSeq([i \in DOMAIN lines |-> _split_parts(lines[i], ~r.table)])

\* byLines: the text of the lines is the selected text, and spans are true.
View(r, group, byLines) ==
    LET parts == FlattenSeq(group)
        text == Joined(parts)
        exact == compact(Joined(r.lines)) = compact(r.final)
        found == _selected_text_line_refs(r.lines, text)
        agreed == IF found # <<>> THEN found ELSE _single_line_agreement_refs(r, text)
    IN IF byLines
       THEN [text |-> text, refs |-> {parts[i].ref : i \in DOMAIN parts},
             spans |-> {<<parts[i].ref, parts[i].from, parts[i].to>> : i \in DOMAIN parts},
             status |-> IF exact THEN "parser_line_exact" ELSE "selected_text_line_aligned"]
       ELSE [text |-> text, spans |-> {},
             refs |-> IF agreed = <<>> THEN Refs(r) ELSE ToSet(agreed),
             status |-> IF agreed = <<>> THEN "region_level_selected_text"
                        ELSE "selected_text_line_aligned"]

\* The selected text itself is split when its lines are not it: no boxes, no
\* rows.
FinalAsLine(r) == [text |-> r.final, ref |-> "none", row |-> 0, x |-> 0]

_fine_views(r) ==
    LET parts == LineParts(r)
        byLines == compact(Joined(parts)) = compact(r.final)
        groups == IF ~byLines THEN TextGroups(_split_parts(FinalAsLine(r), ~r.table))
                  ELSE IF r.table THEN TableGroups(r, parts)
                  ELSE TextGroups(parts)
    IN [k \in DOMAIN groups |-> View(r, groups[k], byLines)]

\* Mutant: a judge that was sure needs no line to agree.
SureIsEnough(r, view) ==
    \/ view.status = "region_level_selected_text"
    \/ Selection(r).needs_review /\ ~Selection(r).sure

\* _fine_selection: the review flag of the region, unless the view's sentence
\* is one that a judge was sure of and that one line states as well.
NeedsReview(r, view) ==
    LET aligned == view.status # "region_level_selected_text"
        agreed == ToSet(_single_line_agreement_refs(r, view.text))
    IN \/ ~aligned
       \/ /\ Selection(r).needs_review
          /\ ~(Selection(r).sure /\ agreed # {} /\ agreed = view.refs)

-----------------------------------------------------------------------------
\* search_docs: the canonical document of the region, then its fine views.
ProjectRegion ==
    /\ coarse = None /\ compact(region.final) # <<>>
    /\ LET refs == SelectedRefs(region) IN
       coarse' = [status |-> IF refs = {} THEN "region_level_selected_text"
                             ELSE "selected_text_line_aligned",
                  refs |-> IF refs = {} THEN Refs(region) ELSE refs,
                  labels |-> LabelsOn(region, refs),
                  needs_review |-> refs = {} \/ Selection(region).needs_review]
    /\ UNCHANGED <<region, fine>>

ProjectViews ==
    /\ coarse # None /\ fine = <<>>
    /\ LET views == _fine_views(region) IN
       fine' = [k \in DOMAIN views |->
          views[k] @@ [needs_review |-> NeedsReview(region, views[k]),
                       labels |-> IF views[k].status = "region_level_selected_text" THEN {}
                                  ELSE LabelsOn(region, views[k].refs)]]
    /\ UNCHANGED <<region, coarse>>

Next == ProjectRegion \/ ProjectViews
Spec == Init /\ [][Next]_vars

-----------------------------------------------------------------------------
\* No character of the selected text is lost, doubled or moved by the split
\* (the ValueError "fine views lost characters" is never raised), and a label
\* and its value that stand on one visual row of a table are never in two
\* views.
ViewsAreWhole ==
    /\ fine # <<>> =>
          compact(FlattenSeq([k \in DOMAIN fine |-> fine[k].text])) = compact(region.final)
    /\ region.table => \A k, m \in DOMAIN fine : k # m =>
          \A s \in fine[k].spans, t \in fine[m].spans :
              LET i == Position(region, s[1])
                  j == Position(region, t[1])
              IN ~(j = i + 1 /\ region.lines[i].row # 0 /\ region.lines[i].row = region.lines[j].row)

\* The canonical document names single lines exactly when one choice of lines,
\* and no other, makes up its text: a repeated heading or amount is never
\* given to whichever line comes first.
AlignmentIsProved ==
    coarse # None =>
        LET solid == {l \in ToSet(region.lines) : compact(l.text) # <<>>}
            choices == {S \in SUBSET {l.ref : l \in solid} :
                          compact(TextOf(region, S)) = compact(region.final)}
        IN IF Cardinality(choices) = 1 THEN coarse.refs \in choices
           ELSE coarse.status = "region_level_selected_text"

Occurs(part, whole) ==
    \E i \in 0..(Len(whole) - Len(part)) : Cut(whole, i, i + Len(part)) = part

\* A view that claims lines shows what these lines say (a final stop apart),
\* and the review flag of a region is lifted from a view only when exactly one
\* line states the sentence.
ProvenanceIsHonest ==
    \A k \in DOMAIN fine :
        LET view == fine[k]
            claimed == compact(TextOf(region, view.refs)) IN
        /\ view.status # "region_level_selected_text" =>
              Occurs(Unstopped(compact(view.text)), claimed)
        /\ ~view.needs_review /\ Selection(region).needs_review =>
              \E l \in ToSet(region.lines) : view.refs = {l.ref} /\ Agreeing(region, view.text) = {l}

=============================================================================
