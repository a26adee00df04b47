---------------------------- MODULE EvidenceIntake ----------------------------
(***************************************************************************)
(* From the parser's output of each file of an advertisement to the        *)
(* documents that are judged: the pair P1 (source lines) and P3 (selected  *)
(* text) of a file is adapted and combined, the files are merged to one    *)
(* document, the saved intake is applied to it, and one document is cut    *)
(* out for each product.                                                   *)
(*                                                                         *)
(* A pair is [kind, p1, p3].  p1[n] and p3[n] are the n-th pages: P1 has   *)
(* regions [id, refs, box] in order and loose lines; P3 has regions        *)
(* [id, refs, text] and loose lines.  Pages are numbered 1, 2, ...         *)
(***************************************************************************)
EXTENDS Integers, Sequences, FiniteSets, SequencesExt

CONSTANTS
    Advertisements  \* [pairs, intake, candidates, native]

VARIABLES
    ad,             \* the advertisement: its files' pairs and what the user saved
    pc,             \* "intake", "combine", "merge", "apply", "scope", "done", "rejected"
    merged,         \* pages of the merged document: [asset, source, regions, loose]
    ownership,      \* [products, shared]: sets of <<page, region>>
    scoped          \* one record per product, in the order of the intake

vars == <<ad, pc, merged, ownership, scoped>>

Init ==
    /\ ad \in Advertisements /\ pc = "intake"
    /\ merged = <<>> /\ ownership = [products |-> <<>>, shared |-> {}] /\ scoped = <<>>

Assets == DOMAIN ad.pairs       \* files are merged in their order: 1, 2, ...
Reject == pc' = "rejected" /\ UNCHANGED <<merged, ownership, scoped>>
Unique(refs) == \A i, j \in DOMAIN refs : refs[i] = refs[j] => i = j

-----------------------------------------------------------------------------
(* validate_ad_intake *)

Owners(intake) == Append(intake.products, intake.shared)

\* A scope is [asset, pages], where {} stands for the whole file.
Overlap(s, t) == s.asset = t.asset /\ (s.pages = {} \/ t.pages = {} \/ s.pages \cap t.pages # {})

validate_ad_intake(intake) ==
    LET scopes == {<<o, i>> \in (1..Len(Owners(intake))) \X (1..3) : i <= Len(Owners(intake)[o])}
        ScopeAt(p) == Owners(intake)[p[1]][p[2]]
    IN /\ intake.products # <<>>
       /\ \A p, q \in scopes : p # q => ~Overlap(ScopeAt(p), ScopeAt(q))
       /\ Assets = {ScopeAt(p).asset : p \in scopes}

Validate ==
    /\ pc = "intake"
    /\ IF validate_ad_intake(ad.intake) THEN pc' = "combine" /\ UNCHANGED <<merged, ownership, scoped>>
       ELSE Reject
    /\ UNCHANGED ad

-----------------------------------------------------------------------------
(* Adapter and combine *)

RegionIds(page) == {page.regions[i].id : i \in DOMAIN page.regions}
RegionOf(page, id) == page.regions[CHOOSE i \in DOMAIN page.regions : page.regions[i].id = id]
PageRefs(page) == FlattenSeq([i \in DOMAIN page.regions |-> page.regions[i].refs]) \o page.loose
DocumentRefs(pages) == FlattenSeq([n \in DOMAIN pages |-> PageRefs(pages[n])])

\* _adapt_parser_fin_pair: this P3 has no line references; they are copied
\* from the region of the same id, and loose lines from the page.
FinKnown(pair) ==
    DOMAIN pair.p3 \subseteq DOMAIN pair.p1
        /\ \A n \in DOMAIN pair.p3 : RegionIds(pair.p3[n]) \subseteq RegionIds(pair.p1[n])
FinPage(p1, p3) ==
    [regions |-> [i \in DOMAIN p3.regions |->
        [p3.regions[i] EXCEPT !.refs = RegionOf(p1, p3.regions[i].id).refs]],
     loose |-> p1.loose]
Adapted(pair) ==
    IF pair.kind # "parser_fin" THEN pair.p3
    ELSE [n \in DOMAIN pair.p3 |-> FinPage(pair.p1[n], pair.p3[n])]

\* _validate_partition, on one page.
PagePartition(p1, p3) ==
    /\ Unique([i \in DOMAIN p1.regions |-> p1.regions[i].id])
    /\ Unique([i \in DOMAIN p3.regions |-> p3.regions[i].id])
    /\ RegionIds(p3) \subseteq RegionIds(p1)
    /\ \A i \in DOMAIN p1.regions :
          LET region == p1.regions[i] IN
          IF region.refs # <<>>
          THEN region.id \in RegionIds(p3) /\ RegionOf(p3, region.id).refs = region.refs
          ELSE region.id \in RegionIds(p3) =>
                 /\ RegionOf(p3, region.id).refs = <<>>
                 /\ RegionOf(p3, region.id).text => region.box
    /\ Unique(p3.loose) /\ ToSet(p1.loose) = ToSet(p3.loose)

_validate_partition(p1, p3) ==
    /\ DOMAIN p1 = DOMAIN p3
    /\ \A n \in DOMAIN p1 : PagePartition(p1[n], p3[n])
    /\ Unique(DocumentRefs(p1)) /\ Unique(DocumentRefs(p3))

adapt_p1_p3(pair) ==
    /\ pair.kind \in {"canonical", "external", "parser_fin"}
    /\ pair.kind = "parser_fin" => FinKnown(pair)
    /\ _validate_partition(pair.p1, Adapted(pair))

\* combine, a page: regions with neither line nor text are left out.  The
\* lines of a region are P1's (the partition has shown that P3 names the
\* same), its text is P3's.
CombinedRegions(p1, p3, Kept(_)) ==
    LET kept == SelectSeq(p1.regions, Kept) IN
    [i \in DOMAIN kept |->
        [id |-> kept[i].id, refs |-> kept[i].refs, text |-> RegionOf(p3, kept[i].id).text]]
HasText(p3, r) == r.id \in RegionIds(p3) /\ RegionOf(p3, r.id).text
\* Mutant: a region without a selected text is left out with its lines.
PageOfTexts(p1, p3) ==
    [regions |-> CombinedRegions(p1, p3, LAMBDA r : HasText(p3, r)), loose |-> p1.loose]
CombinedPage(p1, p3) ==
    [regions |-> CombinedRegions(p1, p3, LAMBDA r : r.refs # <<>> \/ HasText(p3, r)),
     loose |-> p1.loose]

combine(pair) == [n \in DOMAIN pair.p1 |-> CombinedPage(pair.p1[n], Adapted(pair)[n])]

\* read_parser_asset: a file needs a region with a text.
Reviewable(pages) ==
    \E n \in DOMAIN pages : \E i \in DOMAIN pages[n].regions : pages[n].regions[i].text

Combine ==
    /\ pc = "combine"
    /\ IF \A a \in Assets : adapt_p1_p3(ad.pairs[a]) /\ Reviewable(combine(ad.pairs[a]))
       THEN pc' = "merge" /\ UNCHANGED <<merged, ownership, scoped>>
       ELSE Reject
    /\ UNCHANGED ad

-----------------------------------------------------------------------------
(* Web bridge *)

\* namespace_structure: a line reference of a file carries the file's id.
Namespaced(asset, refs) == [i \in DOMAIN refs |-> <<asset, refs[i]>>]

\* merge_asset_documents: pages are numbered through; each remembers its file
\* and its number there.
AssetPages(a) ==
    LET pages == combine(ad.pairs[a]) IN
    [n \in DOMAIN pages |->
       [asset |-> a, source |-> n, loose |-> Namespaced(a, pages[n].loose),
        regions |-> [i \in DOMAIN pages[n].regions |->
            [pages[n].regions[i] EXCEPT !.refs = Namespaced(a, @)]]]]

Merge ==
    /\ pc = "merge"
    /\ LET pages == FlattenSeq([a \in DOMAIN ad.pairs |-> AssetPages(a)]) IN
       IF Unique(DocumentRefs(pages)) THEN merged' = pages /\ pc' = "apply" /\ UNCHANGED <<ownership, scoped>>
       ELSE Reject
    /\ UNCHANGED ad

Regions(pages) == {<<n, pages[n].regions[i].id>> :
                      <<n, i>> \in {p \in (1..Len(pages)) \X (1..4) : p[2] <= Len(pages[p[1]].regions)}}

\* The first page of a file in the merged document.
First(a) == CHOOSE n \in DOMAIN merged : merged[n].asset = a /\ \A m \in 1..(n - 1) : merged[m].asset # a

\* evidence: the regions of the scopes of one owner.
Evidence(scopes) ==
    UNION {{r \in Regions(merged) :
              /\ merged[r[1]].asset = scopes[i].asset
              /\ scopes[i].pages = {} \/ r[1] - First(scopes[i].asset) + 1 \in scopes[i].pages} :
            i \in DOMAIN scopes}

\* A native HWP has no physical pages that a range could name.
Ranged(scopes) == {i \in DOMAIN scopes : scopes[i].pages # {}}
NativeRanged ==
    \E o \in DOMAIN Owners(ad.intake) : \E i \in Ranged(Owners(ad.intake)[o]) :
        Owners(ad.intake)[o][i].asset \in ad.native

Loose(pages) == UNION {ToSet(pages[n].loose) : n \in DOMAIN pages}

\* validate_integrated_input, of a document with products: every region has
\* one owner, and only a single product owns loose lines.
Assigned(products, shared) ==
    /\ \A p, q \in DOMAIN products : p # q => products[p] \cap products[q] = {}
    /\ \A p \in DOMAIN products : products[p] \cap shared = {}
    /\ UNION ToSet(products) \cup shared = Regions(merged)
    /\ Len(products) > 1 => Loose(merged) = {}

\* apply_intake_scopes
Apply ==
    /\ pc = "apply"
    /\ LET products == [p \in DOMAIN ad.intake.products |-> Evidence(ad.intake.products[p])]
           shared == Evidence(ad.intake.shared)
       IN IF ~NativeRanged /\ Assigned(products, shared)
          THEN /\ ownership' = [products |-> products, shared |-> shared]
               /\ pc' = "scope" /\ UNCHANGED <<merged, scoped>>
          ELSE Reject
    /\ UNCHANGED ad

\* product_scoped_documents: the regions of the product and the shared ones;
\* the loose lines when the product is the only one.
Scope(p) ==
    LET allowed == ownership.products[p] \cup ownership.shared
        single == Len(ownership.products) = 1
        page == [n \in DOMAIN merged |->
            [asset |-> merged[n].asset, source |-> merged[n].source,
             regions |-> SelectSeq(merged[n].regions, LAMBDA r : <<n, r.id>> \in allowed),
             loose |-> IF single THEN merged[n].loose ELSE <<>>]]
    IN SelectSeq(page, LAMBDA g : g.regions # <<>> \/ g.loose # <<>>)

ScopeProducts ==
    /\ pc = "scope"
    /\ LET scopes == [p \in DOMAIN ownership.products |-> Scope(p)] IN
       IF \/ Len(scopes) > 1 /\ ad.candidates
          \/ \E p \in DOMAIN scopes : \A n \in DOMAIN scopes[p] : scopes[p][n].regions = <<>>
       THEN Reject
       ELSE scoped' = scopes /\ pc' = "done" /\ UNCHANGED <<merged, ownership>>
    /\ UNCHANGED ad

Next == Validate \/ Combine \/ Merge \/ Apply \/ ScopeProducts
Spec == Init /\ [][Next]_vars

-----------------------------------------------------------------------------
\* What the user said: an owner's scopes name the page of the file.
SaysOwner(o, a, n) ==
    \E i \in DOMAIN Owners(ad.intake)[o] :
        LET s == Owners(ad.intake)[o][i] IN s.asset = a /\ (s.pages = {} \/ n \in s.pages)

\* No line of a file is lost, doubled or moved to another region on the way
\* to the merged document: each is where P1 has it, and a text without lines
\* only where P1 has a box.
LinesStayWhereRead ==
    \A n \in DOMAIN merged :
        LET page == merged[n]
            source == ad.pairs[page.asset].p1[page.source] IN
        /\ \A i \in DOMAIN page.regions :
              LET region == page.regions[i] IN
              /\ region.id \in RegionIds(source)
              /\ region.refs = Namespaced(page.asset, RegionOf(source, region.id).refs)
              /\ region.refs = <<>> => RegionOf(source, region.id).box
        /\ Namespaced(page.asset, PageRefs(source)) = PageRefs(page)

\* A product is judged on its own regions and the shared ones and on nothing
\* of another product; the products together judge everything that was read.
ScopesAreIsolated ==
    pc = "done" =>
      /\ \A p \in DOMAIN scoped, n \in DOMAIN merged, i \in 1..4 : i \in DOMAIN merged[n].regions =>
            LET asset == merged[n].asset
                source == merged[n].source
                shared == Len(ad.intake.products) + 1
                judged == {g \in ToSet(scoped[p]) : g.asset = asset /\ g.source = source}
            IN (\E g \in judged : merged[n].regions[i] \in ToSet(g.regions))
                  <=> SaysOwner(p, asset, source) \/ SaysOwner(shared, asset, source)
      /\ UNION {ToSet(DocumentRefs(scoped[p])) : p \in DOMAIN scoped} = ToSet(DocumentRefs(merged))
=============================================================================
