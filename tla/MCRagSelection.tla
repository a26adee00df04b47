--------------------------- MODULE MCRagSelection ---------------------------
(***************************************************************************)
(* What a run of the pipeline does before it asks the model, in two parts  *)
(* that meet in a search only: the rule index that several runs share      *)
(* (RuleIndex), and the selection of rules, evidence and requests of one   *)
(* run (RagSelection).  A behaviour is one of the two.                     *)
(*                                                                         *)
(* The selection has two templates of investment products and one of       *)
(* deposits, with rules of every kind; runs over one advertisement, over   *)
(* two, and over one whose product group nobody has confirmed.             *)
(***************************************************************************)
EXTENDS RuleIndex, TLC
CONSTANTS p, q
VARIABLES served, job, phase, at, sources, loaded, route, chosen, found, plan, tiers,
          discovery, requests, frozen, answers, final

\* Two corpora for the index, of which one has a rule that the other has not.
MCRuns == {p, q}
MCCatalogs == [c \in {"c1", "c2"} |-> IF c = "c1" THEN {"x", "y"} ELSE {"y", "z"}]

NoFacts == [f \in {} |-> ""]
Profile(kind, pos, groups, template, owner) ==
    [kind |-> kind, pos |-> pos, groups |-> groups, template |-> template, owner |-> owner,
     facts |-> NoFacts, semantic |-> FALSE, exempt |-> "", bound |-> FALSE, chrome |-> FALSE,
     category |-> "PRESENCE", weight |-> 5, needs |-> {},
     family |-> IF owner = "human" THEN "HUMAN_VISUAL" ELSE "HYBRID"]

MCRules == [
  T1 |-> Profile("TEMPLATE", 1, {"INV"}, "FUND", "model"),
  T2 |-> [Profile("TEMPLATE", 2, {"INV"}, "FUND", "mixed") EXCEPT !.exempt = "SMS", !.weight = 9],
  T3 |-> [Profile("TEMPLATE", 3, {"INV"}, "ETF", "model") EXCEPT !.weight = 20],
  T4 |-> Profile("TEMPLATE", 4, {"DEP"}, "DEP", "human"),
  T5 |-> Profile("TEMPLATE", 10, {"DEP"}, "DEP", "mixed"),
  S1 |-> [Profile("SUPPLEMENT", 5, {"ALL"}, "", "model") EXCEPT
            !.facts = ("media" :> "SMS"), !.category = "PROHIBIT", !.chrome = TRUE, !.needs = {"S4"}],
  S2 |-> [Profile("SUPPLEMENT", 6, {"INV"}, "", "model") EXCEPT
            !.semantic = TRUE, !.family = "LEXICAL", !.weight = 8],
  S3 |-> [Profile("SUPPLEMENT", 7, {"INV"}, "", "human") EXCEPT !.facts = ("layout" :> "yes")],
  S4 |-> [Profile("SUPPLEMENT", 8, {"INV"}, "", "model") EXCEPT
            !.facts = ("context" :> "RETIREMENT"), !.semantic = TRUE, !.category = "PROHIBIT"],
  S5 |-> [Profile("SUPPLEMENT", 9, {"INV", "DEP"}, "ETF", "model") EXCEPT
            !.semantic = TRUE, !.bound = TRUE]]

Doc(size, parent, chrome, links) == [size |-> size, parent |-> parent, chrome |-> chrome, links |-> links]
MCDocs == [d1 |-> Doc(2, "p", FALSE, {{"d1", "d4"}}), d2 |-> Doc(2, "p", FALSE, {}),
           d3 |-> Doc(3, "none", TRUE, {}), d4 |-> Doc(3, "none", FALSE, {{"d1", "d4"}})]
MCRetrievals == {
  [ranked |-> <<"d1", "d2", "d3", "d4">>, nodes |-> << <<"d1", "d4">>, <<"d2">> >>, facets |-> <<"d4">>],
  [ranked |-> <<"d4", "d3", "d1">>, nodes |-> << >>, facets |-> <<"d2", "d3">>]}

Advert(group, template, media, layout, ready, short, docs) ==
    [group |-> group, template |-> template, media |-> media, layout |-> layout,
     ready |-> ready, short |-> short, docs |-> docs]
Fund == Advert("INV", "FUND", "SMS", "no", TRUE, FALSE, {"d1", "d2", "d3", "d4"})
Etf == Advert("INV", "ETF", "WEB", "yes", TRUE, FALSE, {"d1"})
Deposit == Advert("DEP", "DEP", "WEB", "no", FALSE, TRUE, {"d1", "d4"})
Message == [Deposit EXCEPT !.media = "SMS"]
Unclear == Advert("unknown", "FUND", "SMS", "no", TRUE, TRUE, {"d1"})
Active == {"S1", "S2", "S3", "S4", "S5"}
Job(ads, active, screen, judge, edited) ==
    [ads |-> ads, active |-> active, screen |-> screen, judge |-> judge, edited |-> edited]
MCJobs == {Job(<<Etf, Deposit>>, Active, FALSE, TRUE, {}), Job(<<Fund>>, Active, FALSE, TRUE, {}),
           Job(<<Deposit>>, Active, TRUE, TRUE, {}), Job(<<Etf>>, Active, TRUE, TRUE, {}),
           Job(<<Fund>>, Active \cup {"H1"}, FALSE, TRUE, {}), Job(<<Unclear>>, Active, FALSE, TRUE, {}), Job(<<Message>>, Active, FALSE, TRUE, {}),
           Job(<<Deposit>>, Active, FALSE, FALSE, {"template", "regulation"})}

Selection == INSTANCE RagSelection WITH
    Docs <- MCDocs, Alone <- "none", Rules <- MCRules, Held <- {"H1"}, Jobs <- MCJobs,
    Retrievals <- MCRetrievals, BatchSize <- 2, MaxComplexity <- 12, EvidencePerRule <- 1,
    CharBudget <- 8

varsS == <<job, phase, at, sources, loaded, route, chosen, found, plan, tiers,
           discovery, requests, frozen, answers, final>>
MCInit ==
    /\ served \in {"index", "selection"}
    /\ Init /\ Selection!Init
    /\ served = "index" => job = CHOOSE j \in MCJobs : TRUE
MCNext ==
    \/ served = "index" /\ Next /\ UNCHANGED <<served, varsS>>
    \/ served = "selection" /\ Selection!Next /\ UNCHANGED <<served, vars>>
MCSpec == MCInit /\ [][MCNext]_<<served, vars, varsS>>
Symmetric == Permutations({p, q})

\* A rule is sent to the model for a reason, once, and never when it belongs to a
\* person or to another product group (RagSelection).
RequestsAreWarranted == Selection!RequestsAreWarranted
\* A window keeps what triggered it and its budget, and is called complete only if the
\* model sees the whole of an advertisement that was read as a whole (RagSelection).
WindowsAreHonest == Selection!WindowsAreHonest
\* No rule is lost on the way to the result, which accounts for every pair that was
\* asked (RagSelection).
ResultAccountsForAll == Selection!ResultAccountsForAll
\* What the code does not keep: a run that has paid for its answers delivers them, each
\* rule with the tier it was discovered in (RagSelection, final assembly).
JudgedIsDelivered == Selection!JudgedIsDelivered
=============================================================================
