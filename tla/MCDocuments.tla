------------------------------ MODULE MCDocuments ------------------------------
(***************************************************************************)
(* The steps from a file to the documents that are searched and judged:    *)
(* the parser runs of the reviews of an advertisement, the parser router   *)
(* with the hybrid merge, the adaptation of parser pairs with the intake   *)
(* of the user, the projection of a region to search documents, and the    *)
(* result engine of the product worker.  A behaviour takes one of the five *)
(* through every step.                                                     *)
(***************************************************************************)
EXTENDS Integers, Sequences, SequencesExt

VARIABLES served,
    input, pcR, tries, attempts, selected,
    ad, pcI, merged, ownership, scoped,
    region, coarse, fine,
    reviews, disk, thread, left,
    review, stage, runs, items, found, stored, overall, suggestions, status

-----------------------------------------------------------------------------
(* Parser routing: texts of up to three characters against every structure *)
(* of up to two nodes, ones of a page the text does not have among them.   *)

Texts == UNION {[1..n -> {"a", "b", "_"}] : n \in 1..3}
Words == {<<"a">>, <<"b">>, <<"a", "b">>, <<"a", "_", "b">>, <<"_", "a">>}
Block(page, start, text) == [page |-> page, start |-> start, text |-> text]
Node(page, text, score) == [page |-> page, text |-> text, score |-> score]

MCCanonicals == {[file |-> "f", score |-> 90, blocks |-> bs] : bs \in UNION {
    {<<Block(1, 4, t)>>, <<Block(1, 4, t), Block(1, 0, <<"b">>)>>,
     <<Block(1, 0, t), Block(2, 0, <<"a">>)>>} : t \in Texts}}
MCStructures ==
    {[file |-> "f", layout |-> {1}, blocks |-> bs] : bs \in {<<>>}
        \cup {<<Node(p, t, 95)>> : p \in {1, 3}, t \in Words}
        \cup {<<Node(1, t, 85), Node(p, u, 95)>> : t \in Words, p \in {1, 2}, u \in Words}}
    \cup {[file |-> "g", layout |-> {}, blocks |-> <<>>]}
MCInputs ==
    {[kind |-> "hwp", complex |-> FALSE, canonical |-> c, structure |-> s] :
        c \in MCCanonicals, s \in MCStructures}
    \cup {[kind |-> k, complex |-> b] : k \in {"pdf", "scan", "image", "other"}, b \in BOOLEAN}

Routing == INSTANCE ParserRouting WITH
    Inputs <- MCInputs, Adapters <- {"hwp-hybrid", "opendataloader-pdf", "mineru"},
    Ranks <- {70, 85, 90}, Blank <- "_", StructureAttempts <- 3, pc <- pcR

-----------------------------------------------------------------------------
(* Intake: two files, of which the first has two pages, every wrong pair   *)
(* of a few, and every division of the pages among two products.           *)

R1(id, refs, box) == [id |-> id, refs |-> refs, box |-> box]
R3(id, refs, text) == [id |-> id, refs |-> refs, text |-> text]
Pg(regions, loose) == [regions |-> regions, loose |-> loose]
Source(loose) ==
    <<Pg(<<R1("r1", <<1, 2>>, TRUE), R1("r2", <<>>, TRUE), R1("r3", <<>>, FALSE)>>, loose),
      Pg(<<R1("r1", <<3>>, TRUE)>>, <<>>)>>
FirstPages == {
    <<R3("r1", <<1, 2>>, TRUE)>>, <<R3("r1", <<1, 2>>, TRUE), R3("r2", <<>>, TRUE)>>,
    <<R3("r1", <<2, 1>>, TRUE)>>, <<R3("r1", <<1>>, TRUE), R3("r2", <<2>>, TRUE)>>,
    <<R3("r2", <<>>, TRUE)>>, <<R3("r1", <<1, 2>>, TRUE), R3("r3", <<>>, TRUE)>>,
    <<R3("r1", <<1, 2>>, FALSE), R3("r9", <<>>, TRUE)>>,
    <<R3("r1", <<1, 2>>, FALSE), R3("r2", <<>>, TRUE)>>}
Selecteds ==
    {<<Pg(f, l), Pg(s, <<>>)>> :
        f \in FirstPages, l \in {<<>>, <<4>>, <<4, 4>>}, s \in {<<R3("r1", <<3>>, TRUE)>>, <<>>}}
    \cup {<<Pg(<<R3("r1", <<1, 2>>, TRUE)>>, <<>>)>>}
MCPairs == {[kind |-> k, p1 |-> Source(l), p3 |-> p] :
    k \in {"canonical", "parser_fin", "mixed"}, l \in {<<>>, <<4>>, <<3>>}, p \in Selecteds}
Good(loose) ==
    [kind |-> "canonical", p1 |-> Source(loose),
     p3 |-> <<Pg(<<R3("r1", <<1, 2>>, TRUE), R3("r2", <<>>, TRUE)>>, loose),
              Pg(<<R3("r1", <<3>>, TRUE)>>, <<>>)>>]
Second ==
    [kind |-> "external", p1 |-> <<Pg(<<R1("r1", <<1>>, TRUE)>>, <<>>)>>,
     p3 |-> <<Pg(<<R3("r1", <<1>>, TRUE)>>, <<>>)>>]
S(asset, pages) == [asset |-> asset, pages |-> pages]
Scopes == {S(1, {}), S(1, {1}), S(1, {2}), S(1, {2, 3}), S(2, {}), S(2, {1})}
Behind == {S(2, {}), S(2, {1}), S(2, {2}), S(2, {2, 3}), S(1, {})}
Lists == {<<>>} \cup {<<s>> : s \in Scopes} \cup {<<s, t>> : s, t \in Scopes}
Few == {<<>>, <<S(1, {})>>, <<S(1, {1})>>, <<S(1, {2})>>, <<S(2, {})>>,
        <<S(2, {1}), S(1, {2, 3})>>, <<S(1, {1}), S(2, {})>>}
Whole == [products |-> << <<S(1, {})>> >>, shared |-> <<S(2, {})>>]
MCAdvertisements ==
    {[pairs |-> <<p, Second>>, intake |-> Whole, candidates |-> FALSE, native |-> {}] : p \in MCPairs}
    \cup {[pairs |-> <<Good(l), Second>>, intake |-> [products |-> ps, shared |-> sh],
           candidates |-> c, native |-> n] :
            l \in {<<>>, <<4>>}, ps \in {<<a>> : a \in Few} \cup {<<a, b>> : a \in Lists, b \in Few},
            sh \in Few, c \in BOOLEAN, n \in {{}, {1}}}
    \* The file with two pages is the second one.
    \cup {[pairs |-> <<Second, Good(<<>>)>>, intake |-> [products |-> <<a, b>>, shared |-> sh],
           candidates |-> FALSE, native |-> {}] :
            a, b \in {<<s>> : s \in Behind} \cup {<<s, t>> : s, t \in Behind},
            sh \in {<<>>, <<S(1, {})>>}}

Intake == INSTANCE EvidenceIntake WITH Advertisements <- MCAdvertisements, pc <- pcI

-----------------------------------------------------------------------------
(* Views: texts of up to three lines, repeated ones among them, against    *)
(* texts that a judge may have selected, and tables of three parts.        *)

Lines(ts) == [i \in DOMAIN ts |-> [ref |-> i, text |-> ts[i], row |-> 0, x |-> 0]]
Phrases == {<<"a">>, <<"a", "b">>, <<"n", "*", "a">>, <<"a", "n", "b", "b">>, <<"a", ".">>, <<>>}
Upto(n) == UNION {[1..k -> Phrases] : k \in 1..n}
Sure == [needs_review |-> FALSE, sure |-> TRUE]
Unsure == {[needs_review |-> TRUE, sure |-> s] : s \in BOOLEAN}
Span(name, refs) == [name |-> name, refs |-> refs]
TextRegions ==
    {[lines |-> Lines(ts), final |-> FlattenSeq(fs), table |-> FALSE, selection |-> s, spans |-> {}] :
        ts \in Upto(3), s \in Unsure,
        fs \in {<<f>> : f \in Phrases} \cup {<<f, <<"n">>, g>> : f, g \in Phrases}}
    \cup {[lines |-> Lines(ts), final |-> FlattenSeq(fs), table |-> FALSE, selection |-> Sure,
           spans |-> {Span("p", <<2, 1>>)}] : ts \in Upto(2), fs \in Upto(2)}
Cells == {[ref |-> 0, text |-> t, row |-> r, x |-> x] :
             t \in {<<"a">>, <<"b", "b">>}, r \in 0..2, x \in 0..1}
Labelings == {{}, {Span("p", <<1>>), Span("q", <<2>>)}, {Span("p", <<1, 2>>), Span("q", <<3>>)},
              {Span("p", <<2>>), Span("q", <<1, 3>>)}}
TableRegions ==
    {[lines |-> [i \in DOMAIN ls |-> [ls[i] EXCEPT !.ref = i]],
      final |-> FlattenSeq([i \in DOMAIN ls |-> ls[i].text]),
      table |-> TRUE, selection |-> Sure, spans |-> sp] : ls \in [1..3 -> Cells], sp \in Labelings}

Views == INSTANCE EvidenceViews WITH
    Regions <- TextRegions \cup TableRegions, Break <- "n", Bullet <- "*", Stop <- ".",
    TARGET_FINE_CHARS <- 3

-----------------------------------------------------------------------------
(* Parser runs: two files; chains of three reviews, and fewer with more    *)
(* faults, cancellations, deletions and restarts.                          *)

Budget(n, faults, events) == [reviews |-> n, faults |-> faults, events |-> events]
Runs == INSTANCE ParserRun WITH
    Files <- {1, 2}, Templates <- {"T", "U"}, Slots <- 1, MaxReviews <- 3,
    Budgets <- {Budget(3, 0, 1), Budget(3, 1, 0), Budget(2, 0, 2), Budget(1, 3, 1)}

-----------------------------------------------------------------------------
(* Results: every location of one block, every text of one or two blocks,  *)
(* and every answer of two searches over three chunks and an expired one.  *)

Place(marks, confidence, coordinate, place) ==
    [marks |-> marks, confidence |-> confidence, coordinate |-> coordinate, place |-> place]
Located == {b \in {Place({"absolute"}, c, k, p) : c \in {"low", "mid", "high"},
                k \in {"none", "low", "mid", "high"}, p \in {"none", "path", "offsets"}} :
            b.coordinate # "none" \/ b.place # "none"}
Written == {Place(m, "high", "high", "none") : m \in SUBSET {"absolute", "percent", "condition"}}
Plain == Place({}, "high", "high", "none")
Result(blocks, hwp, readable, provider, searches, most) ==
    [blocks |-> blocks, hwp |-> hwp, readable |-> readable, provider |-> provider,
     suggest |-> ~hwp, searches |-> searches, most |-> most]
MCResults ==
    {Result(<<b>>, h, TRUE, FALSE, "few", 1) : b \in Located, h \in BOOLEAN}
    \cup {Result(<<Place({"absolute"}, "high", "high", "none")>>, TRUE, TRUE, TRUE, "all", 1)}
    \cup {Result(<<a, b>>, h, r, FALSE, "few", 2) : a, b \in Written, h, r \in BOOLEAN}
    \cup {Result(<<a, Plain>>, FALSE, TRUE, TRUE, "few", 2) : a \in Written}
Hits(keyword, vector) == [failure |-> "none", keyword |-> keyword, vector |-> vector]
Refused(code) == [failure |-> code, keyword |-> <<>>, vector |-> <<>>]
Answers(chunks) == {s \in UNION {[1..n -> chunks] : n \in 0..3} : IsInjective(s)}
MCSearches == [
    few |-> {Hits(<<1, 2>>, <<3>>), Hits(<<>>, <<9>>), Refused("RAG_SEARCH_FAILED")},
    all |-> {Hits(k, v) : k \in Answers({1, 2, 3}), v \in Answers({1, 2, 3, 9})}
            \cup {Refused("RAG_SEARCH_UNAVAILABLE")}]
Results == INSTANCE ReviewEngine WITH
    Reviews <- MCResults, Searches <- MCSearches, Expired <- {9}

-----------------------------------------------------------------------------
varsR == <<input, pcR, tries, attempts, selected>>
varsI == <<ad, pcI, merged, ownership, scoped>>
varsV == <<region, coarse, fine>>
varsP == <<reviews, disk, thread, left>>
varsE == <<review, stage, runs, items, found, stored, overall, suggestions, status>>

\* The variables of the steps a behaviour does not take.
IdleR == input = "none" /\ pcR = "idle" /\ tries = 0 /\ attempts = <<>> /\ selected = 0
IdleI == ad = "none" /\ pcI = "idle" /\ merged = <<>> /\ ownership = <<>> /\ scoped = <<>>
IdleV == region = "none" /\ coarse = "none" /\ fine = <<>>
IdleP == reviews = <<>> /\ disk = <<>> /\ thread = <<>> /\ left = <<>>
IdleE ==
    /\ review = "none" /\ stage = "idle" /\ runs = 0 /\ items = <<>> /\ found = <<>>
    /\ stored = <<>> /\ overall = "none" /\ suggestions = {} /\ status = "none"

Init ==
    \/ served = "runs" /\ Runs!Init /\ IdleR /\ IdleI /\ IdleV /\ IdleE
    \/ served = "routing" /\ Routing!Init /\ IdleP /\ IdleI /\ IdleV /\ IdleE
    \/ served = "intake" /\ Intake!Init /\ IdleP /\ IdleR /\ IdleV /\ IdleE
    \/ served = "views" /\ Views!Init /\ IdleP /\ IdleR /\ IdleI /\ IdleE
    \/ served = "results" /\ Results!Init /\ IdleP /\ IdleR /\ IdleI /\ IdleV
Next ==
    \/ served = "runs" /\ Runs!Next /\ UNCHANGED <<served, varsR, varsI, varsV, varsE>>
    \/ served = "routing" /\ Routing!Next /\ UNCHANGED <<served, varsP, varsI, varsV, varsE>>
    \/ served = "intake" /\ Intake!Next /\ UNCHANGED <<served, varsP, varsR, varsV, varsE>>
    \/ served = "views" /\ Views!Next /\ UNCHANGED <<served, varsP, varsR, varsI, varsE>>
    \/ served = "results" /\ Results!Next /\ UNCHANGED <<served, varsP, varsR, varsI, varsV>>
Spec == Init /\ [][Next]_<<served, varsR, varsI, varsV, varsP, varsE>>

\* What is judged was parsed under the template of the review, and only the files
\* that failed were parsed again, once (ParserRun).
EvidenceIsOwn == served = "runs" => Runs!EvidenceIsOwn /\ Runs!RetriedOnce
\* Evidence, once judged or reused, does not change (ParserRun).
EvidenceIsStable ==
    [][served = "runs" => \A r \in Runs!Ids : Runs!KeepsEvidence(r)]_varsP
\* Structure adds to the text and never replaces it, and a document without a
\* warning is aligned in full (ParserRouting).
TextIsPreserved == served = "routing" => Routing!TextIsPreserved /\ Routing!WarnedOrAligned
\* Lines stay where they were read, and a product is judged on its own evidence
\* (EvidenceIntake).
PagesKeepTheirPlace == served = "intake" => Intake!LinesStayWhereRead /\ Intake!ScopesAreIsolated
\* The split of a region loses and separates nothing, single lines are named
\* exactly when they are the only choice, and a view shows what the lines it
\* claims say (EvidenceViews).
ProvenanceIsHonest == served = "views" =>
    Views!ViewsAreWhole /\ Views!AlignmentIsProved /\ Views!ProvenanceIsHonest
\* The rows of a result fit their tables and keep the best of both searches, and a
\* review that ends as completed shows nothing to act on (ReviewEngine).
ResultsStand == served = "results" => Results!ResultsFit /\ Results!CompletedIsClean
\* What the code does not keep when a worker is replaced: status and suggestions
\* that follow from the stored rows (ReviewEngine, Documents_rerun.cfg).
FollowsStored == served = "results" => Results!FollowsStored
=============================================================================
