----------------------------- MODULE MCStandards -----------------------------
(***************************************************************************)
(* The standards of the product (two of them, one reference file, one API  *)
(* process beside the ingestion), the collection of a regulation, and the  *)
(* tools that read its text.  They share no state: a behaviour is of one.  *)
(***************************************************************************)
EXTENDS Standards
VARIABLES served, kind, site, saved, text, quarantine, disk, body, views, op, runs, crashes, halved, input, result

MCChunks == <<"c1", "c2">>
MCDates == {[from |-> 2, to |-> 0]}

\* A registered name, a longer one beside it, and what a search may list:
\* both, the longer one only, the regulation under a changed title.
Rule == <<"rule">>
Details == <<"rule", "details">>
Collection == INSTANCE RegulationCollection WITH
    Name <- Rule, Siblings <- {Details}, Listings <- {{Rule, Details}, {Details}, {<<"old", "rule">>, Details}},
    TableCounts <- {0, 1, 3}, Floor <- 1, Failures <- {{}, {1}},
    MaxReleases <- 2, MaxRuns <- 4, MaxCrashes <- 1

\* Regulations of three or four articles, or of three and a second part with
\* two; an edit of the articles, of the addenda or of the tables.
Art(part, no, words) == [part |-> part, no |-> no, text |-> words]
Main == <<Art("", 1, "x"), Art("", 2, "x"), Art("", 3, "x")>>
OnePart == {Main, [Main EXCEPT ![2].text = "y"], <<Main[1], Main[3]>>, Append(Main, Art("", 4, "x"))}
Two == Main \o <<Art("rules", 1, "x"), Art("rules", 2, "x")>>
TwoParts == {Two, [Two EXCEPT ![4].text = "y"], <<Two[1]>> \o SubSeq(Two, 3, 5)}
A1(words) == [id |-> 1, inner |-> <<words>>]
A2 == [id |-> 2, inner |-> <<"x", "x">>]
Addenda == {<<>>, <<A1("x")>>, <<A1("y")>>, <<A1("x"), A2>>, <<A2, A1("x")>>, <<A1("x"), [id |-> 3, inner |-> <<"x">>], A2>>}
Table(name, words) == [kind |-> name, no |-> 1, text |-> words]
Tables == {<<>>, <<Table("annex", "x")>>, <<Table("annex", "x"), Table("form", "x")>>, <<Table("annex", "y"), Table("form", "x")>>}
Edited(styles, articles) ==
    LET was == [style : styles, articles : articles, addenda : Addenda, tables : Tables]
    IN  {[old |-> r, new |-> [r EXCEPT !.articles = a]] : r \in was, a \in articles}
        \cup {[old |-> r, new |-> [r EXCEPT !.addenda = a]] : r \in was, a \in Addenda}
        \cup {[old |-> r, new |-> [r EXCEPT !.tables = t]] : r \in was, t \in Tables}
MCRevisions == Edited({"statute", "kofia", "plain"}, OnePart) \cup Edited({"plain"}, TwoParts)

\* Up to two lines against two, of any likeness; runs of the lengths at the two thresholds.
MCBlocks == UNION {{[olds |-> 1..o, news |-> 1..n, like |-> f] : f \in [1..o -> [1..n -> 0..3]]} : o \in 1..2, n \in 1..2}
Run(equal, was, is) == [equal |-> equal, old |-> was, new |-> is]
Equal == {Run(TRUE, n, n) : n \in {1, 2, 6, 7}}
Change == {Run(FALSE, o, n) : o \in {0, 3}, n \in {0, 2}} \ {Run(FALSE, 0, 0)}
MCAlignments == {<<c, e, d>> : c \in Change, e \in Equal, d \in Change}
    \cup {<<e, c, f, d, g>> : e \in Equal, c \in Change, f \in Equal, d \in Change, g \in Equal}

\* Files by the three rules of names; a file that the heading names is there as it was downloaded.
File(of, named, pdf) == [kind |-> of, no |-> 1, named |-> named, pdf |-> pdf]
Names == {File(k, FALSE, p) : k \in {"annex", "form", ""}, p \in BOOLEAN} \cup {File("annex", TRUE, p) : p \in BOOLEAN}
MCFolders == [tables : {{[kind |-> "annex", no |-> 1, named |-> b], [kind |-> "form", no |-> 1, named |-> FALSE]} : b \in BOOLEAN},
              files : {F \in SUBSET Names : \A f \in F : f.named => [f EXCEPT !.pdf = FALSE] \in F}]
Texts == INSTANCE RegulationText WITH
    Revisions <- MCRevisions, Blocks <- MCBlocks, Alignments <- MCAlignments, Folders <- MCFolders

varsC == <<kind, site, saved, text, quarantine, disk, body, views, op, runs, crashes, halved>>
varsT == <<input, result>>
MCInit ==
    /\ served \in {"standards", "collection", "texts"}
    /\ Init /\ Collection!Init /\ Texts!Init
    /\ served # "collection" => kind = "law" /\ site[1].tables = 0
MCNext ==
    \/ served = "standards" /\ Next /\ UNCHANGED <<served, varsC, varsT>>
    \/ served = "collection" /\ Collection!Next /\ UNCHANGED <<served, vars, varsT>>
    \/ served = "texts" /\ Texts!Next /\ UNCHANGED <<served, vars, varsC>>
MCSpec == MCInit /\ [][MCNext]_<<served, vars, varsC, varsT>>

\* What is stored of a collected regulation, and what its page shows
\* (RegulationCollection).
CollectionStands == Collection!CollectionStands
\* What reviewers are shown of a revision is what it did (RegulationText).
TextsAreReadRight == Texts!TextsAreReadRight
\* A refused collection leaves the files of the regulation; the kept
\* counterexample of the README (RegulationCollection).
FilesSurviveCollapse == [][served = "collection" => Collection!CollapseLeavesFiles]_<<served, vars, varsC, varsT>>
=============================================================================
