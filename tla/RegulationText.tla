---------------------------- MODULE RegulationText ----------------------------
(***************************************************************************)
(* What the tools make of a collected regulation: the text it is rendered  *)
(* to, its sections, the report of what a revision changed, the display of *)
(* the changed lines, and the jump list of the review page with the files  *)
(* of the tables.  A line is its head (what its beginning is read as) with *)
(* the number or the date in it; a line of body text begins like no head.  *)
(* A regulation is [style, articles, addenda, tables]: "statute" as the    *)
(* law service gives it, "kofia" the rules of the association, "plain" a   *)
(* document whose text is taken as it is, with a bare heading of addenda.  *)
(***************************************************************************)
EXTENDS Naturals, Sequences, SequencesExt, FiniteSetsExt, Functions
CONSTANTS Revisions,   \* [old, new]: a regulation before and after an edit
          Blocks,      \* [olds, news, like]: lines and their likeness in quarters
          Alignments,  \* the operations on characters of one changed line
          Folders      \* [tables, files]: a jump list and the files of the page
VARIABLES input, result
vars == <<input, result>>

--------------------------------------------------------------------------------
(* Rendering.                                                              *)

Line(head, no, id, text) == [head |-> head, no |-> no, id |-> id, text |-> text]
Blank == Line("blank", 0, 0, "")
Rule == Line("rule", 0, 0, "")
Banner(head) == <<Blank, Rule, Line(head, 0, 0, ""), Rule, Blank>>
Each(items, Lines(_)) == FlattenSeq([i \in DOMAIN items |-> Lines(items[i])])

\* A part is the second regulation of one document; its title stands above it.
ArticleLines(a) ==
    (IF a.no = 1 /\ a.part # "" THEN <<Line("text", 0, 0, a.part)>> ELSE <<>>)
        \o <<Line("article", a.no, 0, ""), Line("text", 0, 0, a.text), Blank>>
\* A plain document dates an addendum in its first article only.
AddendumLines(style, d) ==
    <<IF style = "kofia" THEN Line("bracketed", 0, d.id, "")
      ELSE Line("addenda", 0, IF style = "plain" THEN 0 ELSE d.id, "")>>
        \o [i \in DOMAIN d.inner |->
                Line("article", i, IF style = "plain" /\ i = 1 THEN d.id ELSE 0, d.inner[i])]
        \o <<Blank>>
TableLines(t) == <<Line(t.kind, t.no, 0, ""), Line("text", 0, 0, t.text), Blank>>

ToText(r) ==
    LET banner(head, items) == IF items = <<>> \/ r.style = "plain" THEN <<>> ELSE Banner(head)
    IN  <<Line("title", 0, 0, ""), Rule, Blank>> \o Each(r.articles, ArticleLines)
            \o banner("addenda", r.addenda) \o Each(r.addenda, LAMBDA d : AddendumLines(r.style, d))
            \o banner("tables", r.tables) \o Each(r.tables, TableLines)

--------------------------------------------------------------------------------
(* split_articles: the key of every line.                                   *)

TableKinds == {"annex", "form"}
Preamble == [part |-> "", tag |-> 0, label |-> "preamble", no |-> 0, n |-> 1]

\* Mutant: only the heading itself is looked at.
TagOfHeading(lines, i) == lines[i].id
\* The number or the date in the heading, or in one of the three lines after it.
Tag(lines, i) ==
    LET dated == {j \in i..(i + 3) : j <= Len(lines) /\ lines[j].id # 0}
    IN  IF dated = {} THEN 0 ELSE lines[Min(dated)].id

\* The nearest line above that can be a title.
PartTitle(lines, i, part) ==
    LET titles == {j \in 1..(i - 1) : j >= i - 6 /\ lines[j].head = "text"}
    IN  IF titles # {} THEN lines[Max(titles)].text ELSE IF part = "" THEN "second" ELSE "third"

\* A key that is taken gets the next free suffix.
Fresh(key, used) ==
    [key EXCEPT !.n = Min({n \in 1..(Cardinality(used) + 1) : [key EXCEPT !.n = n] \notin used})]

Beginning == [key |-> Preamble, tag |-> 0, part |-> "", seen |-> 0]
Sectioned(lines, states, i) ==
    LET last == IF i = 1 THEN Beginning ELSE states[i - 1]
        line == lines[i]
        no == IF line.head = "article" THEN line.no ELSE 0
        again == last.tag = 0 /\ no = 1 /\ last.seen >= 3
        part == IF again THEN PartTitle(lines, i, last.part) ELSE last.part
        bare == line.head \in {"addenda", "bracketed"}
        dated == line.head = "addenda" /\ Tag(lines, i) # 0
        key == [part |-> part, tag |-> IF bare THEN 0 ELSE last.tag,
                label |-> IF bare THEN "addenda" ELSE line.head, no |-> line.no, n |-> 1]
    IN  CASE dated -> [last EXCEPT !.tag = Tag(lines, i), !.seen = 0,
                          !.key = [Preamble EXCEPT !.part = last.part, !.tag = Tag(lines, i), !.label = "addenda"]]
          [] ~dated /\ (bare \/ line.head \in TableKinds \cup {"article"}) ->
                [tag |-> last.tag, part |-> part,
                 seen |-> IF last.tag # 0 THEN last.seen ELSE IF again THEN no ELSE Max({last.seen, no}),
                 key |-> Fresh(key, {states[j].key : j \in 1..(i - 1)})]
          [] OTHER -> last
KeysOf(lines) ==
    LET states == FoldLeftDomain(LAMBDA done, i : Append(done, Sectioned(lines, done, i)), <<>>, lines)
    IN  [i \in DOMAIN lines |-> states[i].key]

\* diff_texts: keys that are new, gone, or whose lines differ; blank lines do not count.
Contents(lines, keys, k) ==
    LET at == SetToSortSeq({i \in DOMAIN lines : keys[i] = k /\ lines[i].head # "blank"}, <)
    IN  [i \in DOMAIN at |-> lines[at[i]]]
Diff(old, new) ==
    LET was == KeysOf(old)
        is == KeysOf(new)
        both == Range(was) \cap Range(is)
    IN  [added |-> Range(is) \ (both \cup {Preamble}), removed |-> Range(was) \ (both \cup {Preamble}),
         changed |-> {k \in both : Contents(old, was, k) # Contents(new, is, k)}]

--------------------------------------------------------------------------------
(* The display of a change.                                                 *)

\* pair_changed_lines: each removed line takes the likest line not taken yet.
Likest(b, o, free) ==
    LET alike == {n \in free : b.like[o][n] > 0}
    IN  IF alike = {} THEN 0
        ELSE Min({n \in alike : \A m \in alike : b.like[o][m] <= b.like[o][n]})
Paired(b) ==
    LET Take(rows, o) ==
            LET best == Likest(b, o, b.news \ {r.new : r \in rows})
            IN  rows \cup {[old |-> o, new |-> IF best # 0 /\ b.like[o][best] >= 2 THEN best ELSE 0]}
        modified == FoldLeft(Take, {}, SetToSortSeq(b.olds, <))
    IN  modified \cup {[old |-> 0, new |-> n] : n \in {m \in b.news : \A r \in modified : r.new # m}}

\* inline_diff: short equal runs between two changes, and equal ends of one character, count as changed.
MergeGap == 6
MinRun == 2
Same(ops, i) ==
    LET op == ops[i]
        between == i # 1 /\ i # Len(ops)
        begun == \E j \in 1..(i - 1) : ops[j].old + ops[j].new > 0
    IN  op.equal /\ ~(between /\ op.old <= MergeGap) /\ ~(op.old < MinRun /\ begun)
Pushed(ops, side) ==
    LET Push(segs, i) ==
            LET n == ops[i][side]
                same == Same(ops, i)
            IN  IF n = 0 THEN segs
                ELSE IF segs # <<>> /\ Last(segs).same = same
                     THEN [segs EXCEPT ![Len(segs)].n = @ + n] ELSE Append(segs, [same |-> same, n |-> n])
    IN  FoldLeftDomain(Push, <<>>, ops)

--------------------------------------------------------------------------------
(* The jump list of the review page and the files behind its tables.        *)

Entry(line) == [head |-> line.head, no |-> line.no, id |-> line.id]
\* A heading of addenda under a rule is the banner.
IsBanner(lines, i) == lines[i].head = "addenda" /\ lines[i].id = 0 /\ i > 1 /\ lines[i - 1].head = "rule"
Listed(state, lines, i) ==
    LET line == lines[i]
        listed == [state EXCEPT !.out = Append(@, Entry(line))]
    IN  CASE IsBanner(lines, i) -> [state EXCEPT !.addenda = TRUE]
          [] line.head \in {"addenda", "bracketed"} /\ ~IsBanner(lines, i) ->
                IF state.tables THEN state ELSE [listed EXCEPT !.addenda = TRUE]
          [] line.head = "tables" -> [state EXCEPT !.addenda = FALSE, !.tables = TRUE]
          [] line.head \in TableKinds -> [listed EXCEPT !.addenda = FALSE, !.tables = TRUE]
          [] line.head = "article" /\ ~state.tables /\ ~state.addenda -> listed
          [] OTHER -> state
ArticleIndex(lines) ==
    FoldLeftDomain(LAMBDA state, i : Listed(state, lines, i), [out |-> <<>>, addenda |-> FALSE, tables |-> FALSE], lines).out

\* link_table_files: by the name in the heading, by kind and number, or by a number only one file has.
\* A file is [kind, no, named, pdf]; the law service names no kind; one name has two extensions.
PdfOf(files, f) == IF [f EXCEPT !.pdf = TRUE] \in files THEN [f EXCEPT !.pdf = TRUE] ELSE f
NoFile == [kind |-> "", no |-> 0, named |-> FALSE, pdf |-> FALSE]
Linked(files, t) ==
    LET named == {f \in files : t.named /\ f.named /\ f.kind = t.kind /\ f.no = t.no /\ ~f.pdf}
        keyed == {f \in files : ~f.named /\ f.kind = t.kind /\ f.no = t.no}
        numbered == {PdfOf(files, f) : f \in {g \in files : ~g.named /\ g.no = t.no}}
    IN  IF named # {} THEN PdfOf(files, CHOOSE f \in named : TRUE)
        ELSE IF keyed # {} THEN PdfOf(files, CHOOSE f \in keyed : TRUE)
        ELSE IF Cardinality(numbered) = 1 THEN CHOOSE f \in numbered : TRUE ELSE NoFile

--------------------------------------------------------------------------------
Nothing == [tool |-> "none"]
Init == input = Nothing /\ result = Nothing
Run(tool, of, answer) == input' = [tool |-> tool, of |-> of] /\ result' = answer
Compare == input = Nothing /\ \E r \in Revisions : Run("report", r, Diff(ToText(r.old), ToText(r.new)))
PairLines == input = Nothing /\ \E b \in Blocks : Run("pairs", b, Paired(b))
Inline == input = Nothing /\ \E ops \in Alignments : Run("inline", ops, [old |-> Pushed(ops, "old"), new |-> Pushed(ops, "new")])
Index == input = Nothing /\ \E r \in UNION {{v.old, v.new} : v \in Revisions} : Run("index", r, ArticleIndex(ToText(r)))
LinkFiles == input = Nothing /\ \E f \in Folders : Run("links", f, [t \in f.tables |-> Linked(f.files, t)])
Next == Compare \/ PairLines \/ Inline \/ Index \/ LinkFiles
Spec == Init /\ [][Next]_vars

--------------------------------------------------------------------------------
(* What a reader of the report knows as one place of the regulation.        *)

Places(r) == {[kind |-> "article", part |-> a.part, no |-> a.no, text |-> <<a.text>>] : a \in Range(r.articles)}
        \cup {[kind |-> "addendum", part |-> "", no |-> d.id, text |-> d.inner] : d \in Range(r.addenda)}
        \cup {[kind |-> t.kind, part |-> "", no |-> t.no, text |-> <<t.text>>] : t \in Range(r.tables)}
Bare(p) == [kind |-> p.kind, part |-> p.part, no |-> p.no]
Touched(old, new) == {Bare(p) : p \in (Places(old) \ Places(new)) \cup (Places(new) \ Places(old))}
PlaceOf(key) ==
    IF key.label \in TableKinds THEN [kind |-> key.label, part |-> "", no |-> key.no]
    ELSE IF key.tag # 0 THEN [kind |-> "addendum", part |-> "", no |-> key.tag]
    ELSE [kind |-> "article", part |-> key.part, no |-> key.no]

\* Where the tools cannot tell the places apart (see the README): the addenda of the
\* association are no addenda to the report; the rule and the heading that open a chapter
\* stand in the section before it and in the first one after it; tables are kept under the
\* last addendum.
Chapters(r) ==
    [article |-> IF r.style = "plain" THEN {} ELSE {<<a.part, a.no>> : a \in {Last(r.articles)}},
     first |-> IF r.style = "plain" \/ r.addenda = <<>> THEN {} ELSE {Head(r.addenda).id},
     last |-> IF r.addenda = <<>> \/ r.tables = <<>> THEN {} ELSE {Last(r.addenda).id},
     tables |-> r.style # "plain" /\ r.tables # <<>>]
AddendaChange(old, new) == old.style = "kofia" /\ old.addenda # new.addenda

\* The report of a revision names every place that was edited, and where the tools can tell
\* the places apart it names no other: neither a later addendum nor a later part is reported
\* because something was inserted before it (split_articles, diff_texts).
ReportIsExact(old, new, d) ==
    LET named == {PlaceOf(k) : k \in d.added \cup d.removed \cup d.changed}
    IN  /\ Touched(old, new) # {} => named # {}
        /\ ~AddendaChange(old, new) => Touched(old, new) \subseteq named
        /\ ~AddendaChange(old, new) /\ Chapters(old) = Chapters(new) => named = Touched(old, new)

\* The display of a change shows each removed and each added line once, and a line as
\* modified only beside a line it is at least half alike.
RowsAreWhole(b, rows) ==
    /\ \A o \in b.olds : Cardinality({r \in rows : r.old = o}) = 1
    /\ \A n \in b.news : Cardinality({r \in rows : r.new = n}) = 1
    /\ \A r \in rows : r.old # 0 /\ r.new # 0 => b.like[r.old][r.new] >= 2

\* The pieces of a changed line are the whole line on both sides, the text marked as the
\* same has one length on both, and no short equal run is left between two changes.
Length(segs) == FoldLeft(LAMBDA n, s : n + s.n, 0, segs)
SegmentsAreWhole(ops, r) ==
    LET total(side) == FoldLeft(LAMBDA n, op : n + op[side], 0, ops)
        unmarked(segs) == Length(SelectSeq(segs, LAMBDA s : s.same))
    IN  /\ Length(r.old) = total("old") /\ Length(r.new) = total("new")
        /\ unmarked(r.old) = unmarked(r.new)
        /\ \A segs \in {r.old, r.new} : \A i \in 2..(Len(segs) - 1) : segs[i].same => segs[i].n > MergeGap

\* The jump list has the articles of the regulation in their order, one entry for each
\* addendum and each table, and none of the articles of an addendum.
IndexIsFaithful(r, out) ==
    LET of(heads) == SelectSeq(out, LAMBDA e : e.head \in heads)
    IN  /\ [i \in DOMAIN of({"article"}) |-> of({"article"})[i].no] = [i \in DOMAIN r.articles |-> r.articles[i].no]
        /\ Len(of({"addenda", "bracketed"})) = Len(r.addenda)
        /\ [i \in DOMAIN of(TableKinds) |-> <<of(TableKinds)[i].head, of(TableKinds)[i].no>>]
               = [i \in DOMAIN r.tables |-> <<r.tables[i].kind, r.tables[i].no>>]

\* A table opens its own file when the page has it, as PDF when there is one, and another
\* file only when no file of its own is there and that one alone has the number.
LinksAreOwn(f, links) ==
    \A t \in f.tables :
        LET own == {x \in f.files : x.kind = t.kind /\ x.no = t.no /\ (x.named => t.named)}
        IN  IF own # {} THEN links[t] \in own /\ ((\E x \in own : x.pdf /\ x.named = links[t].named) => links[t].pdf)
            ELSE links[t] # NoFile => /\ links[t].no = t.no
                                      /\ \A x \in f.files : x.no = t.no /\ ~x.named => x.kind = links[t].kind

\* What the reviewers of a revision are shown is what the revision did: the report, the
\* rows, the marked pieces, the jump list and the file behind a table (diff_report.py,
\* build_review.py).
TextsAreReadRight ==
    CASE input.tool = "report" -> ReportIsExact(input.of.old, input.of.new, result)
      [] input.tool = "pairs" -> RowsAreWhole(input.of, result)
      [] input.tool = "inline" -> SegmentsAreWhole(input.of, result)
      [] input.tool = "index" -> IndexIsFaithful(input.of, result)
      [] input.tool = "links" -> LinksAreOwn(input.of, result)
      [] OTHER -> TRUE
=============================================================================
