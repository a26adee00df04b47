---------------------------- MODULE RagSelection ----------------------------
(***************************************************************************)
(* One run of tools/run_operational_e2e.py: it loads the canonical catalog *)
(* and the prepared advertisements, decides for every advertisement (every *)
(* product of one is an advertisement of its own) which rules the model is *)
(* asked, which a person has to look at and which are only audited,        *)
(* gathers the evidence, writes the requests, freezes the inputs, runs the *)
(* judgment and assembles the final result.                                *)
(*                                                                         *)
(* What a search finds and what the model answers are choices; a rule is   *)
(* the profile these steps read.  Its sources may be edited meanwhile.     *)
(***************************************************************************)
EXTENDS EvidenceWindow

CONSTANTS
    Rules,       \* rule -> its profile in the canonical catalog
    Held,        \* items that the disposition registry holds back
    Jobs,        \* what a run may be given: its advertisements and options
    Retrievals,  \* what the searches may find for a rule: ranked, nodes, facets
    BatchSize,   \* --batch-size
    MaxComplexity, \* weight of a batch
    EvidencePerRule, \* --evidence-per-rule
    CharBudget   \* --context-char-budget

VARIABLES
    job,         \* ads (in order), active (registered), screen and judge
                 \* (options), edited (sources somebody works on)
    phase,       \* where the run is
    at,          \* the advertisement in work
    sources,     \* source -> version of its file now
    loaded,      \* source -> version that was read
    route,       \* routing context of the advertisement in work
    chosen,      \* what metadata select: enumerated, retrieval, human, pending, excluded
    found,       \* supplemental rules the search has retrieved, with their trigger
    plan,        \* candidates, deferred, pending and audited rules of this advertisement
    tiers,       \* discovery_tier_by_item
    discovery,   \* advertisement -> its record in 01_discovery.json
    requests,    \* the logical requests
    frozen,      \* the source versions of FREEZE_BEFORE_PREDICTION.json
    answers,     \* <<advertisement, rule>> -> verdict
    final        \* advertisement -> its part of the final result

vars == <<job, phase, at, sources, loaded, route, chosen, found, plan, tiers,
          discovery, requests, frozen, answers, final>>

Sources == {"template", "regulation"}
AllGroups == "ALL"     \* the product group that stands for every one
Unknown == "unknown"
Nothing == [x \in {} |-> x]
Ad == job.ads[at]
Template == {r \in DOMAIN Rules : Rules[r].kind = "TEMPLATE"}
Supplement == DOMAIN Rules \ Template
InOrder(S) == SetToSortSeq(S, LAMBDA a, b : Rules[a].pos < Rules[b].pos)

-----------------------------------------------------------------------------
(* What metadata decide *)

\* Only these fields reach the selection: component templates and the product
\* context that routing_metadata may also hold are not copied.
RoutingContext(ad) ==
    [group |-> ad.group, template |-> ad.template, media |-> ad.media, layout |-> ad.layout,
     others |-> {}, context |-> Unknown]

SelectedTemplates(ctx) == {ctx.template} \cup ctx.others
TemplateRules(ctx) == {r \in Template : Rules[r].template \in SelectedTemplates(ctx)}
ProductScoped(r, group) == Rules[r].groups \cap {AllGroups, group} # {}
TemplateScoped(r, ctx) == Rules[r].template \in {"", ctx.template}

\* requires_visual_review: all checks of the rule belong to a person.
Human(r) == Rules[r].owner = "human"
AutomatedInputReady(r) == ~Human(r)

\* The RULE-owned facts of a rule: without a confirmed value they are open.
FactValues(r, ctx) ==
    {CASE ctx[f] = Unknown -> "U" [] ctx[f] = Rules[r].facts[f] -> "T" [] OTHER -> "F" :
        f \in DOMAIN Rules[r].facts}

SelectSupplementalPlans(ctx) ==
    LET excluded == {r \in Supplement : "F" \in FactValues(r, ctx)}
        pending == {r \in Supplement \ excluded : "U" \in FactValues(r, ctx)}
        open == Supplement \ (excluded \cup pending)
        human == {r \in open : Rules[r].family = "HUMAN_VISUAL"}
        retrieval == {r \in open \ human : Rules[r].semantic}
    IN [excluded |-> excluded, pending |-> pending, human |-> human,
        retrieval |-> retrieval, enumerated |-> open \ (human \cup retrieval)]

VisualExemptionConfirmed(r, ctx) == Rules[r].exempt # "" /\ ctx.media = Rules[r].exempt

-----------------------------------------------------------------------------
(* Relations between rules *)

RECURSIVE Reach(_)
Reach(S) ==
    LET next == S \cup UNION {Rules[r].needs : r \in S \cap DOMAIN Rules}
    IN IF next = S THEN S ELSE Reach(next)

\* _dependency_order raises for an unknown target and for a cycle.
RelationsResolve(S) ==
    /\ Reach(S) \subseteq DOMAIN Rules
    /\ \A r \in Reach(S) : r \notin Reach(Rules[r].needs)

ExpandRelationDependencies(S) == Reach(S)

-----------------------------------------------------------------------------
Init ==
    /\ job \in Jobs
    /\ phase = "start" /\ at = 1
    /\ sources = [s \in Sources |-> 1] /\ loaded = [s \in Sources |-> 0]
    /\ route = Nothing /\ chosen = Nothing /\ found = Nothing /\ plan = Nothing
    /\ tiers = Nothing /\ discovery = Nothing /\ requests = <<>>
    /\ frozen = Nothing /\ answers = Nothing /\ final = Nothing

\* Another process edits a source, once, while the run goes on.
Edit(s) ==
    /\ s \in job.edited /\ sources[s] < 2
    /\ sources' = [sources EXCEPT ![s] = @ + 1]
    /\ UNCHANGED <<job, phase, at, loaded, route, chosen, found, plan, tiers,
                   discovery, requests, frozen, answers, final>>

\* Every supplemental plan, and nothing else, is registered as active.
RegistryMatches == job.active = Supplement /\ job.active \cap Held = {}

Load ==
    /\ phase = "start"
    /\ phase' = IF RegistryMatches THEN "route" ELSE "failed"
    /\ loaded' = sources
    /\ UNCHANGED <<job, at, sources, route, chosen, found, plan, tiers,
                   discovery, requests, frozen, answers, final>>

Route ==
    /\ phase = "route" /\ at <= Len(job.ads)
    /\ LET ctx == RoutingContext(Ad) IN
         IF ctx.group = Unknown \/ ~(SelectedTemplates(ctx) \subseteq {Rules[r].template : r \in Template})
         THEN /\ phase' = "failed"
              /\ UNCHANGED <<route, chosen>>
         ELSE /\ phase' = "retrieve"
              /\ route' = ctx
              /\ chosen' = SelectSupplementalPlans(ctx)
    /\ UNCHANGED <<job, at, sources, loaded, found, plan, tiers,
                   discovery, requests, frozen, answers, final>>

-----------------------------------------------------------------------------
(* Discovery of one advertisement *)

InScope == {r \in Supplement : ProductScoped(r, route.group)}

\* semantic_rule_filter: the index is asked for rules of the product group.
Searchable == InScope

\* hybrid_hits_batch: the two searches may find any of them.
Hits == SUBSET Searchable

\* discover_prohibitions: each with the document of the advertisement that
\* brought it up.
Discovered(hits, trigger) == [r \in hits |-> trigger]

\* Rules bound to the template or to a general duty: audited, never judged.
Bound == {r \in InScope : Rules[r].bound /\ TemplateScoped(r, route)}

Enumerated ==
    {r \in chosen.enumerated \cap InScope :
        TemplateScoped(r, route) /\ (AutomatedInputReady(r) \/ job.screen)}

\* Mutant: what the search has found is judged, whatever metadata say.
ActivatedAlways(hits) ==
    {r \in hits : TemplateScoped(r, route) /\ (AutomatedInputReady(r) \/ job.screen)}

\* activate_retrieved: what the search found and metadata allow.
Activated(hits) ==
    {r \in hits \cap chosen.retrieval :
        TemplateScoped(r, route) /\ (AutomatedInputReady(r) \/ job.screen)}

TemplateCandidates ==
    {r \in TemplateRules(route) : ProductScoped(r, route.group) /\ AutomatedInputReady(r)}

Candidates(hits) ==
    ExpandRelationDependencies(TemplateCandidates \cup Enumerated \cup Activated(hits))

\* The model is asked what is not a person's to decide.
Judged(candidates) == {r \in candidates : ~Human(r)}

\* Mutant: only rules that were to be judged are shown to the reviewer.
DeferredFormal(hits) ==
    {r \in TemplateRules(route) : Rules[r].owner \in {"mixed", "human"}}
       \cup chosen.pending \cup {r \in Candidates(hits) : Human(r)}

\* What the reviewer is told to look at instead, or as well.
Deferred(hits) ==
    LET formal == {r \in chosen.enumerated \cap InScope : TemplateScoped(r, route)}
    IN {r \in formal : ~AutomatedInputReady(r)}
       \cup chosen.pending
       \cup {r \in TemplateRules(route) : ~AutomatedInputReady(r)}
       \cup {r \in TemplateRules(route) : /\ Rules[r].owner \in {"mixed", "human"}
                                          /\ ~VisualExemptionConfirmed(r, route)}
       \cup {r \in hits : TemplateScoped(r, route) /\ Human(r)}
       \cup {r \in Candidates(hits) : Human(r)}

ScopeDeferred == {r \in InScope : ~TemplateScoped(r, route)}
TemplateDeferred ==
    {r \in Template : ProductScoped(r, route.group) /\ r \notin TemplateRules(route)}

\* A discovery that is neither activated nor brought in by a relation.
Audited(hits) ==
    LET roots == TemplateCandidates \cup Enumerated \cup Activated(hits)
    IN (hits \cup Bound) \ (Activated(hits) \cup (hits \cap chosen.human) \cup (Candidates(hits) \ roots))

\* Later tiers take precedence over earlier ones.
Tiers(hits) ==
    LET roots == TemplateCandidates \cup Enumerated \cup Activated(hits)
    IN [r \in Candidates(hits) \cup roots |->
          CASE r \notin roots -> "RELATION_DEPENDENCY"
            [] r \in Activated(hits) -> "PRODUCT_CONTENT_CONDITIONED_V2"
            [] r \in Enumerated -> "MEDIA_CONDITIONED_V2"
            [] OTHER -> "TEMPLATE_PRIMARY"]

AssertCandidateProductScope(candidates) == \A r \in candidates : ProductScoped(r, route.group)

Retrieve ==
    /\ phase = "retrieve"
    /\ \E hits \in Hits, trigger \in Ad.docs :
         LET roots == TemplateCandidates \cup Enumerated \cup Activated(hits) IN
         IF ~RelationsResolve(roots)
         THEN /\ phase' = "failed" /\ UNCHANGED <<found, plan, tiers>>
         ELSE /\ found' = Discovered(hits, trigger)
              /\ tiers' = Tiers(hits)
              /\ plan' = [judged |-> Judged(Candidates(hits)), deferred |-> Deferred(hits),
                          external |-> {}, audited |-> Audited(hits)]
              /\ phase' = IF ~AssertCandidateProductScope(plan'.judged) THEN "failed"
                          ELSE IF job.screen THEN "screen" ELSE "schedule"
    /\ UNCHANGED <<job, at, sources, loaded, route, chosen,
                   discovery, requests, frozen, answers, final>>

\* The optional screen of applicability: after its retries every rule has an
\* answer, which only takes those away that need an external input.
Screen ==
    /\ phase = "screen"
    /\ \E external \in SUBSET plan.judged :
         plan' = [plan EXCEPT !.judged = @ \ external, !.external = external,
                              !.deferred = @ \cup {r \in Bound \ plan.judged : ~AutomatedInputReady(r)}]
    /\ phase' = "schedule"
    /\ UNCHANGED <<job, at, sources, loaded, route, chosen, found, tiers,
                   discovery, requests, frozen, answers, final>>

-----------------------------------------------------------------------------
(* Evidence and requests of one advertisement *)

Category == <<"PRESENCE", "PROHIBIT", "STYLE">>
Families == <<"HYBRID", "LEXICAL">>

Weight(batch) == FoldSeq(LAMBDA r, n : Rules[r].weight + n, 0, batch)

\* make_batches: a batch is closed when the next rule does not fit; a rule
\* that is too heavy for any batch has one of its own.
MakeBatches(items) ==
    LET Fits(batch, r) == Len(batch) < BatchSize /\ Weight(batch) + Rules[r].weight <= MaxComplexity
        Heavy(r) == Rules[r].weight > MaxComplexity
        Flush(acc) == IF acc.current = <<>> THEN acc
                      ELSE [done |-> Append(acc.done, acc.current), current |-> <<>>]
        Put(acc, r) ==
            IF Heavy(r) THEN [done |-> Append(Flush(acc).done, <<r>>), current |-> <<>>]
            ELSE LET room == IF Fits(acc.current, r) THEN acc ELSE Flush(acc)
                 IN [room EXCEPT !.current = Append(@, r)]
    IN Flush(FoldLeft(Put, [done |-> <<>>, current |-> <<>>], items)).done

Grouped(judged, category, family) ==
    InOrder({r \in judged : Rules[r].category = category /\ Rules[r].family = family})

TriggersOf(r) == IF r \in DOMAIN found THEN <<found[r]>> ELSE <<>>
PoolOf(r) == Pool(SetToSeq(Ad.docs), Rules[r].chrome, TriggersOf(r))
Evidence(r, retrieval) ==
    EvidenceFor(retrieval, PoolOf(r), TriggersOf(r), EvidencePerRule, CharBudget)

\* Mutant: a short advertisement counts as read as a whole.
CompleteAdScanShort(evidence) == Ad.short \/ Len(evidence) = Cardinality(Ad.docs)

\* What is said of a rule's evidence: nothing else is in the advertisement.
CompleteAdScan(evidence) ==
    Ad.ready /\ (Ad.short \/ Len(evidence) = Cardinality(Ad.docs))

Request(category, family, batch, retrieval) ==
    [ad |-> at, category |-> category, family |-> family, items |-> batch,
     full |-> Ad.short,
     scope |-> [r \in ToSet(batch) |->
                  [docs |-> Evidence(r, retrieval), triggers |-> TriggersOf(r),
                   complete |-> CompleteAdScan(Evidence(r, retrieval))]]]

RequestsOf(judged, retrieval) ==
    FlattenSeq([c \in DOMAIN Category |->
        FlattenSeq([f \in DOMAIN Families |->
            LET batches == MakeBatches(Grouped(judged, Category[c], Families[f]))
            IN [b \in DOMAIN batches |-> Request(Category[c], Families[f], batches[b], retrieval)]])])

\* audit_canonical_template_coverage: no rule of the template is forgotten.
TemplateCovered == TemplateRules(route) \subseteq plan.judged \cup plan.deferred \cup plan.external

Schedule ==
    /\ phase = "schedule"
    /\ IF ~TemplateCovered
       THEN /\ phase' = "failed"
            /\ UNCHANGED <<requests, discovery, at>>
       ELSE /\ \E retrieval \in Retrievals :
                 requests' = requests \o RequestsOf(plan.judged, retrieval)
            /\ discovery' = discovery @@ (at :> [route |-> route, found |-> DOMAIN found,
                 selected |-> chosen, judged |-> plan.judged, deferred |-> plan.deferred,
                 external |-> plan.external, audited |-> plan.audited, tiers |-> tiers,
                 scopeDeferred |-> ScopeDeferred, templateDeferred |-> TemplateDeferred])
            /\ at' = at + 1
            /\ phase' = "route"
    /\ UNCHANGED <<job, sources, loaded, route, chosen, found, plan, tiers, frozen, answers, final>>

-----------------------------------------------------------------------------
(* Freeze, judgment and result *)

\* freeze_manifest: every source is hashed as it is now.
FreezeManifest == sources

\* The template is compared with what was read, the regulation is not.
Freeze ==
    /\ phase = "route" /\ at > Len(job.ads)
    /\ IF ~job.screen /\ sources["template"] # loaded["template"]
       THEN phase' = "failed" /\ UNCHANGED frozen
       ELSE phase' = "frozen" /\ frozen' = FreezeManifest
    /\ UNCHANGED <<job, at, sources, loaded, route, chosen, found, plan, tiers,
                   discovery, requests, answers, final>>

Pairs == UNION {{<<requests[i].ad, r>> : r \in ToSet(requests[i].items)} : i \in DOMAIN requests}

\* The subprocess ends with a response file, some of its requests unanswered,
\* or fails, which ends the run.
Judge ==
    /\ phase = "frozen" /\ job.judge
    /\ \/ /\ phase' = "failed" /\ UNCHANGED answers
       \/ /\ phase' = "judged"
          /\ \E missing \in {{}} \cup {{p} : p \in Pairs},
                out \in {{}} \cup {{p} : p \in Pairs} :
               answers' = [p \in Pairs \ missing |->
                             IF p \in out THEN "NOT_APPLICABLE" ELSE "DECIDED"]
    /\ UNCHANGED <<job, at, sources, loaded, route, chosen, found, plan, tiers,
                   discovery, requests, frozen, final>>

PairsOf(i) == {p[2] : p \in {q \in Pairs : q[1] = i}}

\* One record for each requested pair; its tier is looked up in the table that
\* the loop over the advertisements has left behind.
Assembled(i) ==
    LET items == PairsOf(i)
        Answered(r) == <<i, r>> \in DOMAIN answers
        excluded == {r \in items : Answered(r) /\ answers[<<i, r>>] = "NOT_APPLICABLE"}
    IN [visible |-> items \ excluded, excluded |-> excluded,
        failures |-> {r \in items : ~Answered(r)},
        tiers |-> [r \in items |-> tiers[r]],
        deferred |-> discovery[i].scopeDeferred \cup discovery[i].deferred
                       \cup discovery[i].external \cup discovery[i].templateDeferred]

Assemble ==
    /\ phase = "judged"
    /\ IF \A p \in Pairs : p[2] \in DOMAIN tiers
       THEN /\ final' = [i \in DOMAIN discovery |-> Assembled(i)]
            /\ phase' = "done"
       ELSE phase' = "failed" /\ UNCHANGED final
    /\ UNCHANGED <<job, at, sources, loaded, route, chosen, found, plan, tiers,
                   discovery, requests, frozen, answers>>

Next ==
    \/ \E s \in Sources : Edit(s)
    \/ Load \/ Route \/ Retrieve \/ Screen \/ Schedule \/ Freeze \/ Judge \/ Assemble

Spec == Init /\ [][Next]_vars

-----------------------------------------------------------------------------
(* Properties *)

\* No rule gets lost between the lists of main: every rule of the template,
\* every rule that confirmed metadata select or leave open and every rule the
\* search has found ends with the model, with a reviewer or in the audit.
NothingIsLost ==
    \A i \in DOMAIN discovery :
        LET d == discovery[i]
            scoped == {r \in Supplement : ProductScoped(r, d.route.group)}
        IN TemplateRules(d.route) \cup (d.selected.enumerated \cap scoped)
             \cup d.selected.pending \cup d.found
             \subseteq {p[2] : p \in {q \in Pairs : q[1] = i}} \cup d.deferred \cup d.external
                       \cup d.audited \cup d.scopeDeferred

\* Once for an advertisement, in a request of its own kind that is not too large.
AskedOnce ==
    /\ \A i, j \in DOMAIN requests :
          i # j /\ requests[i].ad = requests[j].ad
          => ToSet(requests[i].items) \cap ToSet(requests[j].items) = {}
    /\ \A i \in DOMAIN requests :
          /\ Len(requests[i].items) <= BatchSize
          /\ Len(requests[i].items) > 1 => Weight(requests[i].items) <= MaxComplexity
          /\ \A r \in ToSet(requests[i].items) : /\ Rules[r].family = requests[i].family
                                                 /\ Rules[r].category = requests[i].category

\* A rule is sent to the model for a reason: its template is selected, metadata
\* enumerate it, the search found it and metadata allow it, or such a rule
\* names it as a dependency; never one that belongs to a person, and never
\* one of another product group; and it is sent once, in a request of its kind.
RequestsAreWarranted ==
    /\ AskedOnce
    /\ \A p \in Pairs :
          LET d == discovery[p[1]]
              reasons == TemplateRules(d.route) \cup d.selected.enumerated
                           \cup (d.found \cap d.selected.retrieval)
          IN p[2] \in Reach(reasons) /\ ~Human(p[2]) /\ ProductScoped(p[2], d.route.group)

\* The window of a rule keeps what triggered it, stays within its budget, and
\* is called complete only if the model sees all of an advertisement that was
\* read as a whole: "absent" may be concluded from it.
WindowsAreHonest ==
    \A i \in DOMAIN requests : \A r \in DOMAIN requests[i].scope :
        LET ad == job.ads[requests[i].ad]
            window == requests[i].scope[r]
            seeds == Len(window.triggers) + EvidencePerRule
        IN /\ IsPrefix(window.triggers, window.docs)
           /\ IsInjective(window.docs) /\ ToSet(window.docs) \subseteq ad.docs
           /\ Size(ToSet(SubSeq(window.docs, seeds + 1, Len(window.docs)))) <= CharBudget
           /\ window.complete => ad.ready /\ (requests[i].full \/ ToSet(window.docs) = ad.docs)

\* No rule is lost on the way to the result, and the final result accounts for
\* every pair that was asked: with a judgment or as a failure, shown or excluded,
\* and an exclusion needs the judgment.
ResultAccountsForAll ==
    /\ NothingIsLost
    /\ phase = "done" =>
        /\ DOMAIN final = DOMAIN discovery
        /\ \A i \in DOMAIN final :
              /\ final[i].visible \cup final[i].excluded = PairsOf(i)
              /\ final[i].visible \cap final[i].excluded = {}
              /\ final[i].failures = {r \in PairsOf(i) : <<i, r>> \notin DOMAIN answers}
              /\ final[i].failures \subseteq final[i].visible

\* What was paid for is delivered: once the judgment has answered, the run ends
\* with a result in which every rule has the tier it was discovered in.
JudgedIsDelivered ==
    /\ answers # Nothing => phase # "failed"
    /\ \A i \in DOMAIN final : \A r \in PairsOf(i) : final[i].tiers[r] = discovery[i].tiers[r]

\* FREEZE_BEFORE_PREDICTION.json names the sources the requests were made of.
FrozenIsUsed == frozen # Nothing => frozen = loaded
=============================================================================
