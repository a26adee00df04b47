----------------------------- MODULE ReviewEngine -----------------------------
(***************************************************************************)
(* The result engine of the product worker: the rules, the evidence search *)
(* over two indexes, the structured opinion, the rows they become, the     *)
(* suggestions, and the status with which the review ends.  A worker that  *)
(* dies is followed by another that runs every stage again on the same     *)
(* parsed document; a search or an opinion may then answer differently.    *)
(* The claim of the job is in ReviewJobs.                                  *)
(***************************************************************************)
EXTENDS Naturals, Sequences, SequencesExt, FiniteSetsExt
CONSTANTS
    Reviews,     \* reviews: parsed blocks, hwp?, readable?, external provider?, suggestions wanted?, searches,
                 \* and a bound on the attempts at it
    Searches,    \* name of a set of search outcomes -> the set
    Expired      \* chunks out of force today
VARIABLES
    review, stage, runs,
    items,       \* the results in the hands of the worker
    found,       \* what the search answered, item by item
    stored,      \* review_items with their evidences and annotation
    overall,     \* overall_risk_level of the review
    suggestions, \* suggestion rows: item and the chunks it cites
    status       \* review_status

vars == <<review, stage, runs, items, found, stored, overall, suggestions, status>>

--------------------------------------------------------------------------------
(* Locations: confidences are "low" < 0.50 <= "mid" < 0.80 <= "high".       *)

\* _annotation: a box, a highlight in the text, or a line of the list.
Annotation(r, b) ==
    LET confidence == IF b.coordinate # "none" THEN b.coordinate ELSE b.confidence
        In(mode, st, box, level) ==
            [mode |-> mode, status |-> st, box |-> box, block |-> mode = "TEXT_HIGHLIGHT",
             offsets |-> b.place = "offsets", confidence |-> level]
        Highlight == In("TEXT_HIGHLIGHT", IF confidence = "high" THEN "LOCATED" ELSE "PARTIALLY_LOCATED",
                        FALSE, confidence)
    IN  CASE r.hwp /\ b.place = "offsets" -> Highlight
          [] ~(r.hwp /\ b.place = "offsets") /\ b.coordinate \in {"mid", "high"} ->
                In("BOX", IF confidence = "high" THEN "LOCATED" ELSE "LOW_CONFIDENCE", TRUE, confidence)
          [] ~(r.hwp /\ b.place = "offsets") /\ b.coordinate = "low" ->
                In("LIST_ONLY", "NOT_LOCATED", FALSE, confidence)
          [] ~r.hwp /\ b.coordinate = "none" /\ b.place = "offsets" -> Highlight
          [] OTHER -> In("LIST_ONLY", "NOT_LOCATED", FALSE, "none")

\* _rule_item: the first rule that applies to the marks of the text.
Finding(marks) ==
    CASE "absolute" \in marks -> [status |-> "NEEDS_REVISION", risk |-> "HIGH"]
      [] marks \intersect {"absolute", "percent", "condition"} = {"percent"} ->
            [status |-> "NEEDS_CONFIRMATION", risk |-> "MEDIUM"]
      [] OTHER -> [status |-> "APPROPRIATE", risk |-> "LOW"]
RuleItem(r, b) ==
    LET finding == Finding(b.marks)
        required == finding.status # "APPROPRIATE"
    IN  [status |-> finding.status, risk |-> finding.risk, required |-> required,
         evidence |-> IF required THEN "INSUFFICIENT" ELSE "NOT_REQUIRED", failure |-> "none",
         evidences |-> <<>>, llm |-> "NOT_RUN", annotation |-> Annotation(r, b)]

--------------------------------------------------------------------------------
(* The search: chunks are numbers, ordered as their ids are; a score is a   *)
(* multiple of 1/Unit.                                                      *)

\* Reciprocal ranks 1/61, 1/62, 1/63 over their common denominator.
Weight == <<62 * 63, 61 * 63, 61 * 62>>
Unit == 2 * Weight[1]
Candidate(c, source, score) == [chunk |-> c, source |-> source, score |-> score]
\* The keyword index filters by date itself; the vector hits are filtered here.
Effective(chunks) == SelectSeq(chunks, LAMBDA c : c \notin Expired)

\* HybridEvidenceSearch: reciprocal rank fusion, ties by the id of the chunk.
Share(chunks, c) == IF \E i \in DOMAIN chunks : chunks[i] = c
                    THEN Weight[CHOOSE i \in DOMAIN chunks : chunks[i] = c] ELSE 0
Fused(keyword, vector) ==
    {Candidate(c, IF c \in ToSet(keyword) \intersect ToSet(vector) THEN "HYBRID"
                  ELSE IF c \in ToSet(keyword) THEN "KEYWORD" ELSE "VECTOR",
               Share(keyword, c) + Share(vector, c)) : c \in ToSet(keyword) \union ToSet(vector)}
Ordered(candidates) ==
    SetToSortSeq(candidates, LAMBDA a, b : a.score > b.score \/ (a.score = b.score /\ a.chunk < b.chunk))
\* _preserve_source_coverage: without a common chunk, the best of each search leads.
Covered(hits) ==
    LET Of(source) == SelectSeq(hits, LAMBDA h : h.source = source)
        leading == IF Of("HYBRID") = <<>> /\ Of("KEYWORD") # <<>> /\ Of("VECTOR") # <<>>
                   THEN <<Of("KEYWORD")[1], Of("VECTOR")[1]>> ELSE <<>>
    IN  leading \o SelectSeq(hits, LAMBDA h : h \notin ToSet(leading))
Top(hits) == SubSeq(hits, 1, IF Len(hits) < 3 THEN Len(hits) ELSE 3)

Candidates(outcome) == Top(Covered(Ordered(Fused(outcome.keyword, Effective(outcome.vector)))))

\* Without an external provider there is neither a search nor an opinion.
Unasked == [failure |-> "none", keyword |-> <<>>, vector |-> <<>>]
\* _rag: an item that needs no evidence is not searched for.
Searched(item, outcome) ==
    IF ~item.required THEN item
    ELSE IF outcome.failure # "none"
    THEN [item EXCEPT !.evidence = "SEARCH_UNAVAILABLE", !.failure = outcome.failure]
    ELSE [item EXCEPT !.evidences = Candidates(outcome), !.failure = "none",
            !.evidence = IF Candidates(outcome) = <<>> THEN "INSUFFICIENT" ELSE "CONNECTED"]

--------------------------------------------------------------------------------
(* The tables: what the constraints of migration 0005 admit.                *)

InUnit(score) == score \in 0..Unit
EvidenceFits(evidences) ==
    /\ Len(evidences) <= 5
    /\ \A i \in DOMAIN evidences : InUnit(evidences[i].score)
    /\ \A i, j \in DOMAIN evidences : evidences[i].chunk = evidences[j].chunk => i = j
AnnotationFits(a) ==
    /\ a.mode = "BOX" => a.box
    /\ a.mode = "TEXT_HIGHLIGHT" => a.block /\ a.offsets
ItemFits(item) ==
    /\ (item.evidence = "SEARCH_UNAVAILABLE") = (item.failure \in {"RAG_SEARCH_UNAVAILABLE", "RAG_SEARCH_FAILED"})
    /\ item.evidence # "SEARCH_UNAVAILABLE" => item.failure = "none"
    /\ EvidenceFits(item.evidences) /\ AnnotationFits(item.annotation)

\* The two orders of risk, of the worker and of the summary.
Severity == [LOW |-> 0, MEDIUM |-> 1, CHECK_REQUIRED |-> 2, HIGH |-> 3]
Highest(results) ==
    IF results = <<>> THEN "CHECK_REQUIRED"
    ELSE CHOOSE risk \in {results[i].risk : i \in DOMAIN results} :
            \A i \in DOMAIN results : Severity[results[i].risk] <= Severity[risk]

\* Mutant: only what needs a revision asks for a second look.
RevisionRequired(results) == \E i \in DOMAIN results : results[i].status = "NEEDS_REVISION"
\* execute: does the bundle ask for a second look?
CheckRequired(results) ==
    \E i \in DOMAIN results :
        \/ results[i].status # "APPROPRIATE"
        \/ results[i].evidence \in {"INSUFFICIENT", "SEARCH_UNAVAILABLE"}
        \/ results[i].llm = "INVALID_SCHEMA"

\* rule_suggestions: one for every finding that has evidence.
Proposals(results) ==
    {[item |-> i, cites |-> {e.chunk : e \in ToSet(results[i].evidences)}] :
        i \in {k \in DOMAIN results : results[k].evidences # <<>> /\ results[k].status # "APPROPRIATE"}}

--------------------------------------------------------------------------------
Init ==
    /\ review \in Reviews /\ stage = "rules" /\ runs = 1
    /\ items = <<>> /\ found = <<>> /\ stored = <<>> /\ overall = "none"
    /\ suggestions = {} /\ status = "ANALYZING"

Rules ==
    /\ stage = "rules" /\ stage' = "search"
    /\ items' = [i \in DOMAIN review.blocks |-> RuleItem(review, review.blocks[i])]
    /\ UNCHANGED <<review, runs, found, stored, overall, suggestions, status>>

Search ==
    /\ stage = "search" /\ stage' = "opinions"
    /\ \E answers \in [DOMAIN items -> IF review.provider THEN Searches[review.searches] ELSE {Unasked}] :
        /\ items' = [i \in DOMAIN items |-> Searched(items[i], answers[i])]
        /\ found' = answers
    /\ UNCHANGED <<review, runs, stored, overall, suggestions, status>>

\* An opinion that fails or is malformed marks the item and changes nothing else.
Opinions ==
    /\ stage = "opinions" /\ stage' = "results"
    /\ \E llm \in [DOMAIN items -> IF review.provider THEN {"VALID", "INVALID_SCHEMA"} ELSE {"NOT_RUN"}] :
        items' = [i \in DOMAIN items |-> [items[i] EXCEPT !.llm = llm[i]]]
    /\ UNCHANGED <<review, runs, found, stored, overall, suggestions, status>>

\* persist_results: rows of an earlier attempt with the same ids stand as they are.
Persist ==
    /\ stage = "results" /\ stage' = IF review.suggest THEN "suggestions" ELSE "ending"
    /\ IF stored = <<>>
       THEN stored' = items /\ overall' = Highest(items)
       ELSE UNCHANGED <<stored, overall>>
    /\ UNCHANGED <<review, runs, items, found, suggestions, status>>

\* persist_suggestions: ON CONFLICT (suggestion_id) DO NOTHING.
Suggest ==
    /\ stage = "suggestions" /\ stage' = "ending"
    /\ suggestions' = suggestions \union
            {s \in Proposals(items) : \A old \in suggestions : old.item # s.item}
    /\ UNCHANGED <<review, runs, items, found, stored, overall, status>>

Complete ==
    /\ stage = "ending" /\ stage' = "done"
    /\ status' = IF ~review.readable \/ CheckRequired(items) THEN "CHECK_REQUIRED" ELSE "REVIEW_COMPLETED"
    /\ UNCHANGED <<review, runs, items, found, stored, overall, suggestions>>

\* The worker dies and the job is claimed again.
Restart ==
    /\ stage # "done" /\ runs < review.most
    /\ runs' = runs + 1 /\ stage' = "rules" /\ items' = <<>> /\ found' = <<>>
    /\ UNCHANGED <<review, stored, overall, suggestions, status>>

Next == Rules \/ Search \/ Opinions \/ Persist \/ Suggest \/ Complete \/ Restart
Spec == Init /\ [][Next]_vars

--------------------------------------------------------------------------------
(* What the readers of the results are shown.                               *)

SummaryOrder == [HIGH |-> 4, CHECK_REQUIRED |-> 3, MEDIUM |-> 2, LOW |-> 1]
Summary ==
    LET All == DOMAIN stored
        Count(st) == Cardinality({i \in All : stored[i].status = st})
    IN  [overall |-> CHOOSE risk \in {stored[i].risk : i \in All} :
                        \A i \in All : SummaryOrder[stored[i].risk] <= SummaryOrder[risk],
         total |-> Cardinality(All), revision |-> Count("NEEDS_REVISION"),
         confirmation |-> Count("NEEDS_CONFIRMATION"),
         top |-> {i \in All : stored[i].status # "APPROPRIATE"}]
\* The list hides what is appropriate unless it is asked for.
Listed(includeAppropriate) ==
    {i \in DOMAIN stored : includeAppropriate \/ stored[i].status # "APPROPRIATE"}
--------------------------------------------------------------------------------
\* Whatever the parser located and the searches found, the rows fit the tables,
\* so a review does not fail on a constraint; nothing out of force is cited; what both searches found precedes
\* what one found, and without a common chunk the best of both is kept
\* (results.py:234-381, qdrant_evidence_search.py:108-160, 0005:65-260).
ResultsFit ==
    /\ stage = "results" => \A i \in DOMAIN items : ItemFits(items[i])
    /\ stage \in {"opinions", "results"} => \A i \in DOMAIN items :
        items[i].evidence = "CONNECTED" =>
            LET kept == items[i].evidences
                vector == Effective(found[i].vector)
                both == ToSet(found[i].keyword) \intersect ToSet(vector)
            IN  /\ \A k \in DOMAIN kept : kept[k].chunk \notin Expired
                /\ \A j, k \in DOMAIN kept : kept[k].chunk \in both /\ kept[j].chunk \notin both => k < j
                /\ both = {} => {Head(s) : s \in {found[i].keyword, vector} \ {<<>>}}
                                    \subseteq {kept[k].chunk : k \in DOMAIN kept}

\* A review that ends as completed shows nothing to act on, its summary, its list
\* and its stored risk agree, and suggestions answer findings that are listed,
\* however often its worker was replaced (postgres.py:529-760, results.py:125-160,
\* backend results.py:269-357).
CompletedIsClean ==
    /\ stored # <<>> => /\ Summary.overall = overall
                        /\ Summary.top = Listed(FALSE)
                        /\ Summary.revision + Summary.confirmation = Cardinality(Listed(FALSE))
    /\ status = "REVIEW_COMPLETED" =>
        stored # <<>> /\ overall = "LOW" /\ Listed(FALSE) = {} /\ suggestions = {}
    /\ \A s, t \in suggestions : s.item \in Listed(FALSE) /\ (s.item = t.item => s = t)

\* The status and the suggestions follow from the rows that are stored.
FollowsStored ==
    /\ status = "REVIEW_COMPLETED" => ~CheckRequired(stored)
    /\ \A s \in suggestions : s.cites = {e.chunk : e \in ToSet(stored[s.item].evidences)}
=============================================================================
