--------------------------- MODULE EvidenceWindow ---------------------------
(***************************************************************************)
(* The evidence window of one rule: the documents of an advertisement that *)
(* the model may cite for it (top_rule_evidence, retrieve_program_nodes,   *)
(* expand_source_context and supplement_evidence).  What the searches find *)
(* is a parameter; what these steps keep of it, in which order and within  *)
(* which budget, is theirs.                                                *)
(***************************************************************************)
EXTENDS Naturals, SequencesExt, FiniteSetsExt

CONSTANTS
    Docs,   \* document -> [size, parent, chrome, links]
    Alone   \* the parent of a document that has none

\* A window in the making: documents in order, and the budget left for more.
Window(docs, left) == [docs |-> docs, left |-> left]

Size(docs) == FoldSet(LAMBDA d, n : n + Docs[d].size, 0, docs)

\* A document or a group of documents comes whole or not at all.
Admit(w, extra, budget) ==
    LET new == SelectSeq(extra, LAMBDA d : d \notin ToSet(w.docs))
    IN IF new # <<>> /\ (Size(ToSet(new)) > w.left \/ budget = 0) THEN w
       ELSE Window(w.docs \o new, w.left - Size(ToSet(new)))

\* evidence_rows_for_rule: page chrome is no evidence for the body of an
\* advertisement, unless it triggered the rule.
Pool(docs, acceptsChrome, triggers) ==
    SelectSeq(docs, LAMBDA d : acceptsChrome \/ ~Docs[d].chrome \/ d \in ToSet(triggers))

\* Triggers are kept, k more documents of the ranking are added.
TopRuleEvidence(ranked, pool, triggers, k) ==
    LET more == SelectSeq(ranked, LAMBDA d : d \in ToSet(pool) /\ d \notin ToSet(triggers))
    IN triggers \o SubSeq(more, 1, IF k < Len(more) THEN k ELSE Len(more))

\* The hits of each check of the rule, one document at a time.
RetrieveProgramNodes(w, nodes, pool, budget) ==
    FoldLeft(LAMBDA acc, d : IF d \in ToSet(pool) THEN Admit(acc, <<d>>, budget) ELSE acc,
             w, FlattenSeq(nodes))

\* The best lexical hit of each sentence of the rule.
SupplementEvidence(w, facets, pool, budget) == RetrieveProgramNodes(w, <<facets>>, pool, budget)

Siblings(d, pool) ==
    IF Docs[d].parent = Alone THEN <<>> ELSE SelectSeq(pool, LAMBDA e : Docs[e].parent = Docs[d].parent)

\* The sibling group of every seed, whole.
WithSiblings(w, pool, budget) ==
    FoldLeft(LAMBDA acc, d : Admit(acc, Siblings(d, pool), budget), w, w.docs)

\* The observed relations of every document, also of those they bring in, each
\* once.  A relation whose ends are not all in the pool is left aside.
RECURSIVE WithRelations(_, _, _, _, _)
WithRelations(w, cursor, seen, pool, budget) ==
    IF cursor > Len(w.docs) THEN w
    ELSE LET new == {ends \in Docs[w.docs[cursor]].links : ends \notin seen}
             Follow(acc, ends) == IF ends \subseteq ToSet(pool)
                                  THEN Admit(acc, SelectSeq(pool, LAMBDA d : d \in ends), budget)
                                  ELSE acc
         IN WithRelations(FoldSet(LAMBDA ends, acc : Follow(acc, ends), w, new),
                          cursor + 1, seen \cup new, pool, budget)

ExpandSourceContext(w, pool, budget) ==
    WithRelations(WithSiblings(w, pool, budget), 1, {}, pool, budget)

\* The chain of main: half of the budget for the checks, the rest shared.
EvidenceFor(found, pool, triggers, k, budget) ==
    LET seeds == TopRuleEvidence(found.ranked, pool, triggers, k)
        nodes == RetrieveProgramNodes(Window(seeds, budget \div 2), found.nodes, pool, budget \div 2)
        rest == budget - (budget \div 2 - nodes.left)
        context == ExpandSourceContext(Window(nodes.docs, rest), pool, rest)
        facets == SupplementEvidence(context, found.facets, pool, context.left)
    IN ExpandSourceContext(facets, pool, facets.left).docs
=============================================================================
