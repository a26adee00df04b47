------------------------------ MODULE MCOutputs ------------------------------
(***************************************************************************)
(* Four groups of routes of the backend: validation, support, and the      *)
(* advertisements and sessions.  No group writes a row that another reads, *)
(* so the requests of one behaviour all go to one group.                   *)
(***************************************************************************)
EXTENDS Sessions, TLC
VARIABLES served,
    datasets, judgments, completed, evaluations, procV, clock,
    suggestions, decisions, talks, messages, drafts, reports, comparisons, procS, requestsS,
    engine, ads, rows, objects, procA, keys, requestsA, faults, litter, torn

A == [type |-> "REQUIRED_PHRASE", text |-> "A"]
B == [type |-> "PRODUCT_INFO", text |-> "B"]
Case(i, code, score, excluded) == [id |-> i, code |-> code, score |-> score, excluded |-> excluded]
Judge(key, expected, excluded) == [key |-> key, expected |-> expected, excluded |-> excluded]
Item(key, status, required, evidences) ==
    [key |-> key, status |-> status, required |-> required, evidences |-> evidences]

\* A dataset with a label, which may have no case, and two that are linked to an
\* advertisement.
MCDatasets == {
  [id |-> "labelled", excluded |-> TRUE, linked |-> FALSE,
   label |-> {<<Case(1, "REQUIRED_PHRASE_ACCURACY", 2, FALSE), Case(2, "REQUIRED_PHRASE_ACCURACY", 0, TRUE)>>}],
  [id |-> "labelled", excluded |-> TRUE, linked |-> TRUE, label |-> {<<>>}],
  [id |-> "linked", excluded |-> FALSE, linked |-> TRUE, label |-> {}],
  [id |-> "excluded", excluded |-> TRUE, linked |-> TRUE, label |-> {}]}
MCBatches == {
  <<Judge(A, "NEEDS_REVISION", FALSE)>>,
  <<Judge(A, "APPROPRIATE", FALSE), Judge(B, "NEEDS_CONFIRMATION", TRUE)>>}
MCRounds == <<
  <<Item(A, "NEEDS_CONFIRMATION", TRUE, <<>>)>>,
  <<Item(A, "APPROPRIATE", TRUE, <<[id |-> 1, relevant |-> TRUE], [id |-> 2, relevant |-> FALSE]>>),
    Item(B, "NEEDS_CONFIRMATION", FALSE, <<>>)>> >>

Validation == INSTANCE Validation WITH
    Datasets <- MCDatasets, Batches <- MCBatches, Reviews <- MCRounds,
    Selections <- {<<"linked">>, <<"labelled", "excluded">>},
    MaxRequests <- 3, MaxEvaluations <- 1, proc <- procV

\* Two users, of whom one is a reviewer, and two reviews of different
\* advertisements.
Support == INSTANCE SupportOutputs WITH
    Users <- {"u1", "u2"}, Reviewers <- {"u1"}, Reviews <- {"r1", "r2"},
    Sees <- [u \in {"u1", "u2"} |-> IF u = "u1" THEN {"r1", "r2"} ELSE {"r1"}],
    Suggestions <- [s \in {"s1", "s2"} |-> "r1"], Revisions <- [r \in {"rev1"} |-> "ad1"],
    AdOf <- [r \in {"r1", "r2"} |-> IF r = "r1" THEN "ad1" ELSE "ad2"],
    MaxRequests <- 3, sessions <- talks, proc <- procS, requests <- requestsS
ASSUME RightsAssumption == Support!RightsAreOfReviews

Advertisements == INSTANCE Advertisements WITH
    Uploads <- {<<"x", "y">>, <<"x", "x">>, <<"x", "refused">>, <<"y">>},
    Invalid <- "refused", MaxRequests <- 4, MaxFaults <- 1, proc <- procA, requests <- requestsA
ASSUME UploadsAssumption == Advertisements!UploadsAreFiles

Symmetric == Permutations(Apis)

varsV == <<datasets, judgments, completed, evaluations, procV, clock>>
varsS == <<suggestions, decisions, talks, messages, drafts, reports, comparisons, procS, requestsS>>
varsA == <<engine, ads, rows, objects, procA, keys, requestsA, faults, litter, torn>>

MCInit ==
    /\ served \in {"validation", "support", "advertisements", "sessions"}
    /\ Validation!Init /\ Support!Init /\ Advertisements!Init /\ Init
    /\ served # "advertisements" => engine = "postgres"
MCNext ==
    \/ served = "validation" /\ Validation!Next /\ UNCHANGED <<served, varsS, varsA, vars>>
    \/ served = "support" /\ Support!Next /\ UNCHANGED <<served, varsV, varsA, vars>>
    \/ served = "advertisements" /\ Advertisements!Next /\ UNCHANGED <<served, varsV, varsS, vars>>
    \/ served = "sessions" /\ Next /\ UNCHANGED <<served, varsV, varsS, varsA>>
MCSpec == MCInit /\ [][MCNext]_<<served, varsV, varsS, varsA, vars>>

\* An evaluation scores what was current when it began, and its metrics follow
\* from the snapshot that is stored with them (Validation).
EvaluationsStand == Validation!EvaluationIsCurrent /\ Validation!MetricsFollowSnapshot
\* A report shows the suggestions of one moment of its review, and a question is
\* found under its review by its user (SupportOutputs).
OutputsAgree == Support!ReportsAreOneSnapshot /\ Support!QuestionsAreFound
\* The files of the visible advertisements have their objects, and nothing else
\* has one; revisions are numbered and checksums registered once, one after
\* another (Advertisements).
RegistrationsStand == Advertisements!RegistrationsStand
=============================================================================
