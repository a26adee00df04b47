----------------------------- MODULE Validation -----------------------------
(***************************************************************************)
(* Validation datasets, the judgments of people about them, and the        *)
(* evaluations that score the reviews against the judgments.  Rows are     *)
(* only added.  A request of the API is a sequence of reads, each with a   *)
(* connection of its own, and one transaction at its end; reviews are      *)
(* completed and other requests are served in between.                     *)
(*                                                                         *)
(* Scores are counted in halves.  A time is the number of requests that    *)
(* have begun.                                                             *)
(***************************************************************************)
EXTENDS Naturals, SequencesExt

CONSTANTS
    Apis,          \* processes of the API
    Datasets,      \* possible rows: [id, label, excluded, linked]; label is {} or
                   \* holds its list of cases, which may be empty
    Batches,       \* sequences of judgments: [key, expected, excluded]
    Reviews,       \* the items of the review of each round, a sequence
    Selections,    \* sequences of different dataset ids an evaluation is asked for
    MaxRequests,   \* bound on the judgment and evaluation requests
    MaxEvaluations \* bound on the evaluations that are running or stored

Codes == {"REQUIRED_PHRASE_ACCURACY", "MISLEADING_EXPRESSION_ACCURACY",
          "EVIDENCE_PRECISION", "HUMAN_AGREEMENT_RATE"}
Target == [c \in Codes |-> CASE c = "REQUIRED_PHRASE_ACCURACY" -> 80
                             [] c = "EVIDENCE_PRECISION" -> 85
                             [] OTHER -> 75]

VARIABLES
    datasets,    \* validation_datasets
    judgments,   \* validation_judgments, in the order in which they are written
    completed,   \* the number of completed reviews of the advertisement
    evaluations, \* evaluations with their metrics
    proc,        \* what each process is doing
    clock        \* requests begun

vars == <<datasets, judgments, completed, evaluations, proc, clock>>

Idle == [at |-> "idle"]
Dataset(id) == CHOOSE d \in datasets : d.id = id
Known(id) == \E d \in datasets : d.id = id

Init ==
    /\ datasets = {} /\ judgments = <<>> /\ completed = 0 /\ evaluations = <<>>
    /\ proc = [p \in Apis |-> Idle]
    /\ clock = 0

\* The process becomes busy with a request whose now() is the clock.
Starts(p, op) ==
    /\ proc[p] = Idle /\ clock < MaxRequests
    /\ clock' = clock + 1
    /\ proc' = [proc EXCEPT ![p] = op]

Goes(p, op) == proc' = [proc EXCEPT ![p] = op] /\ UNCHANGED clock

CreateDataset ==
    /\ \E d \in Datasets : ~Known(d.id) /\ datasets' = datasets \cup {d}
    /\ UNCHANGED <<judgments, completed, evaluations, proc, clock>>

\* The worker completes the next review of the advertisement.
CompleteReview ==
    /\ completed < Len(Reviews) /\ completed' = completed + 1
    /\ UNCHANGED <<datasets, judgments, evaluations, proc, clock>>

-----------------------------------------------------------------------------
(* Judgments *)

RowsOf(id, key) == {i \in DOMAIN judgments : judgments[i].dataset = id /\ judgments[i].key = key}

BeginJudgments(p) ==
    /\ \E d \in datasets, batch \in Batches :
          Starts(p, [at |-> "judging", id |-> d.id, batch |-> batch, rows |-> <<>>, now |-> clock])
    /\ UNCHANGED <<datasets, judgments, completed, evaluations>>

\* next_judgment_version: one more than the highest version that is written.
NextVersion(id, key) == Max({judgments[i].version : i \in RowsOf(id, key)} \cup {0}) + 1

NumberJudgment(p) ==
    /\ proc[p].at = "judging" /\ Len(proc[p].rows) < Len(proc[p].batch)
    /\ LET op == proc[p]
           value == op.batch[Len(op.rows) + 1]
       IN Goes(p, [op EXCEPT !.rows = Append(@,
            [dataset |-> op.id, key |-> value.key, expected |-> value.expected, excluded |-> value.excluded,
             version |-> NextVersion(op.id, value.key), judged |-> op.now,
             answered |-> op.now])])  \* ghost: the clock when the request ends
    /\ UNCHANGED <<datasets, judgments, completed, evaluations>>

\* add_judgments: all rows of the request in one transaction.
AddJudgments(p) ==
    /\ proc[p].at = "judging" /\ Len(proc[p].rows) = Len(proc[p].batch)
    /\ judgments' = judgments \o [i \in DOMAIN proc[p].rows |-> [proc[p].rows[i] EXCEPT !.answered = clock]]
    /\ Goes(p, Idle)
    /\ UNCHANGED <<datasets, completed, evaluations>>

-----------------------------------------------------------------------------
(* Scores *)

\* The order of list_judgments within a text: the version, then the time.
Newer(a, b) == a.version > b.version \/ (a.version = b.version /\ a.judged >= b.judged)

\* list_judgments: a newest row of each text; the database picks one of equals.
Latest(id) ==
    LET keys == {judgments[i].key : i \in {j \in DOMAIN judgments : judgments[j].dataset = id}}
        newest(k) == {i \in RowsOf(id, k) : \A j \in RowsOf(id, k) : Newer(judgments[i], judgments[j])}
    IN {pick \in [keys -> DOMAIN judgments] : \A k \in keys : pick[k] \in newest(k)}

\* _latest_result: the last completed review of a linked dataset, 0 for none.
LatestResult(d) == IF d.linked THEN completed ELSE 0

Items(round) == IF round = 0 THEN <<>> ELSE Reviews[round]

\* _status_score in halves; a text without a result scores nothing.
StatusScore(expected, actual) ==
    CASE actual = expected -> 2
      [] {expected, actual} = {"NEEDS_REVISION", "NEEDS_CONFIRMATION"} -> 1
      [] OTHER -> 0

\* item_by_key: the last item of a text counts.
ResultOf(items, key) ==
    LET of == {i \in DOMAIN items : items[i].key = key}
    IN IF of = {} THEN "none" ELSE items[Max(of)].status

LabelCases(label, flag) ==
    [i \in DOMAIN label |-> [label[i] EXCEPT !.id = <<"label", @>>, !.excluded = @ /\ flag]]

\* The metric of a type of text beside the agreement.
TypeMetric(type) ==
    CASE type = "REQUIRED_PHRASE" -> "REQUIRED_PHRASE_ACCURACY"
      [] type = "MISLEADING_EXPRESSION" -> "MISLEADING_EXPRESSION_ACCURACY"
      [] OTHER -> "none"

JudgmentCases(row, n, items, flag) ==
    LET base == [id |-> <<"judgment", n>>, code |-> "HUMAN_AGREEMENT_RATE",
                 score |-> StatusScore(row.expected, ResultOf(items, row.key)), excluded |-> flag /\ row.excluded]
        typed == [base EXCEPT !.code = TypeMetric(row.key.type)]
    IN (IF typed.code = "none" THEN <<>> ELSE <<typed>>) \o <<[base EXCEPT !.id = <<"human", n>>]>>

EvidenceCases(items) ==
    LET case(id, score) == [id |-> id, code |-> "EVIDENCE_PRECISION", score |-> score, excluded |-> FALSE]
    IN FlattenSeq([i \in DOMAIN items |->
         IF items[i].evidences # <<>>
         THEN [e \in DOMAIN items[i].evidences |->
                 case(<<"evidence", items[i].evidences[e].id>>, IF items[i].evidences[e].relevant THEN 2 ELSE 1)]
         ELSE IF items[i].required THEN <<case(<<"item", i>>, 0)>> ELSE <<>>])

LeftOut(d, flag, cases) ==
    IF d.excluded /\ flag THEN [i \in DOMAIN cases |-> [cases[i] EXCEPT !.excluded = TRUE]] ELSE cases

\* _cases: the cases of a label, or else those of the judgments and results.
Cases(d, rows, items, flag) ==
    IF d.label # {} THEN LabelCases(CHOOSE label \in d.label : TRUE, flag)
    ELSE LeftOut(d, flag,
           FlattenSeq([i \in DOMAIN rows |-> JudgmentCases(judgments[rows[i]], rows[i], items, flag)])
           \o EvidenceCases(items))

Percent(half, count) == (half * 10000 + count) \div (2 * count)

\* calculate_metrics; 0 cases make a metric inapplicable and not achieved.
Metric(code, cases) ==
    LET all == {i \in DOMAIN cases : cases[i].code = code}
        counted == {i \in all : ~cases[i].excluded}
        ofScore(s) == Cardinality({i \in counted : cases[i].score = s})
        half == 2 * ofScore(2) + ofScore(1)
        count == Cardinality(counted)
    IN [half |-> half, count |-> count, excluded |-> Cardinality(all \ counted), partial |-> ofScore(1),
        achieved |-> count > 0 /\ Percent(half, count) >= 100 * Target[code]]

-----------------------------------------------------------------------------
(* Evaluations *)

BeginEvaluation(p) ==
    /\ Len(evaluations) + Cardinality({q \in Apis : proc[q].at \in {"judgments", "results", "save"}}) < MaxEvaluations
    /\ \E ids \in Selections, flag \in BOOLEAN :
          Starts(p, [at |-> "judgments", ids |-> ids, flag |-> flag, rows |-> <<>>, rounds |-> <<>>,
                     \* ghost: what an evaluation that begins now may not miss
                     seen |-> [rows |-> Len(judgments), round |-> completed]])
    /\ UNCHANGED <<datasets, judgments, completed, evaluations>>

\* The judgments of the next dataset; one that is missing ends the request.
ReadJudgments(p) ==
    /\ proc[p].at = "judgments"
    /\ LET op == proc[p]
           id == op.ids[Len(op.rows) + 1]
       IN IF ~Known(id) THEN Goes(p, Idle)
          ELSE \E pick \in Latest(id) :
                 Goes(p, [op EXCEPT !.at = "results",
                            !.rows = Append(@, SetToSeq({pick[k] : k \in DOMAIN pick}))])
    /\ UNCHANGED <<datasets, judgments, completed, evaluations>>

ReadResults(p) ==
    /\ proc[p].at = "results"
    /\ LET op == proc[p]
           n == Len(op.rows)
       IN Goes(p, [op EXCEPT !.at = IF n = Len(op.ids) THEN "save" ELSE "judgments",
                             !.rounds = Append(@, LatestResult(Dataset(op.ids[n])))])
    /\ UNCHANGED <<datasets, judgments, completed, evaluations>>

\* Mutant: the newest review is looked up again for the scores.
CasesReread(op) ==
    FlattenSeq([i \in DOMAIN op.ids |->
        Cases(Dataset(op.ids[i]), op.rows[i], Items(LatestResult(Dataset(op.ids[i]))), op.flag)])

CasesOf(op) ==
    FlattenSeq([i \in DOMAIN op.ids |->
        Cases(Dataset(op.ids[i]), op.rows[i], Items(op.rounds[i]), op.flag)])

\* _exclusion_snapshots: the first of the cases with an id stands for all.
Exclusions(cases) ==
    [id \in {cases[i].id : i \in DOMAIN cases} |->
        cases[Min({i \in DOMAIN cases : cases[i].id = id})].excluded]

\* _review_snapshot: no relevance of an evidence and no dataset.
ResultSnapshot(round) ==
    [round |-> round,
     items |-> [i \in DOMAIN Items(round) |-> [key |-> Items(round)[i].key, status |-> Items(round)[i].status]]]

\* canonical_input, which is stored and hashed.
Snapshot(op) ==
    [datasets |-> [i \in DOMAIN op.ids |-> [id |-> op.ids[i], label |-> Dataset(op.ids[i]).label]],
     judgments |-> [i \in DOMAIN op.ids |->
        [j \in DOMAIN op.rows[i] |->
            LET row == judgments[op.rows[i][j]]
            IN [n |-> op.rows[i][j], key |-> row.key, version |-> row.version, expected |-> row.expected]]],
     exclusions |-> Exclusions(CasesOf(op)),
     results |-> [i \in DOMAIN SelectSeq(op.rounds, LAMBDA r : r > 0) |->
                    ResultSnapshot(SelectSeq(op.rounds, LAMBDA r : r > 0)[i])],
     flag |-> op.flag]

\* save_evaluation, unless a score of a label is none of 0, 0.5 and 1.
SaveEvaluation(p) ==
    /\ proc[p].at = "save"
    /\ LET op == proc[p]
           cases == CasesOf(op)
       IN IF \E i \in DOMAIN cases : ~cases[i].excluded /\ cases[i].score \notin 0 .. 2
          THEN UNCHANGED evaluations
          ELSE evaluations' = Append(evaluations,
                 [snapshot |-> Snapshot(op), metrics |-> [c \in Codes |-> Metric(c, cases)],
                  rounds |-> op.rounds, seen |-> op.seen])
    /\ Goes(p, Idle)
    /\ UNCHANGED <<datasets, judgments, completed>>

Next ==
    \/ CreateDataset \/ CompleteReview
    \/ \E p \in Apis :
          \/ BeginJudgments(p) \/ NumberJudgment(p) \/ AddJudgments(p)
          \/ BeginEvaluation(p) \/ ReadJudgments(p) \/ ReadResults(p) \/ SaveEvaluation(p)

Spec == Init /\ [][Next]_vars

-----------------------------------------------------------------------------
(* Properties *)

\* The scores of a metric on texts, told from the snapshot; the rounds say only
\* which of the datasets had a review.
Told(s, rounds, code) ==
    LET nth(i) == Cardinality({k \in 1 .. i : rounds[k] > 0})
        statusOf(i, key) == IF rounds[i] = 0 THEN "none" ELSE ResultOf(s.results[nth(i)].items, key)
        labelled(label) ==
            LET of == SelectSeq(label, LAMBDA c : c.code = code /\ ~(c.excluded /\ s.flag))
            IN [k \in DOMAIN of |-> of[k].score]
        judged(i) == LET of == SelectSeq(s.judgments[i], LAMBDA j :
                                 /\ code \in {"HUMAN_AGREEMENT_RATE", TypeMetric(j.key.type)}
                                 /\ ~s.exclusions[<<"human", j.n>>])
                     IN [k \in DOMAIN of |-> StatusScore(of[k].expected, statusOf(i, of[k].key))]
    IN FlattenSeq([i \in DOMAIN s.datasets |->
         LET label == s.datasets[i].label
         IN IF label # {} THEN labelled(CHOOSE l \in label : TRUE) ELSE judged(i)])

\* An evaluation can be checked afterwards: the numerators and denominators of
\* the metrics on texts and on agreement follow from the snapshot that is
\* stored with them, although judgments were added and reviews completed while
\* the evaluation ran and since.
MetricsFollowSnapshot ==
    \A e \in 1 .. Len(evaluations) : \A code \in Codes \ {"EVIDENCE_PRECISION"} :
        LET scores == Told(evaluations[e].snapshot, evaluations[e].rounds, code)
        IN /\ evaluations[e].metrics[code].count = Len(scores)
           /\ evaluations[e].metrics[code].half = FoldSeq(LAMBDA x, y : x + y, 0, scores)

\* An evaluation scores what was current when it began: no judgment that a
\* later request had already replaced (one that began after the request of the
\* first was answered), and no review older than the last completed one.
EvaluationIsCurrent ==
    \A e \in 1 .. Len(evaluations) : \A i \in DOMAIN evaluations[e].snapshot.datasets :
        LET s == evaluations[e].snapshot
            seen == evaluations[e].seen
        IN /\ \A k \in DOMAIN s.judgments[i] :
                ~\E j \in 1 .. seen.rows :
                    LET used == judgments[s.judgments[i][k].n]
                    IN /\ judgments[j].dataset = used.dataset /\ judgments[j].key = used.key
                       /\ judgments[j].judged >= used.answered
           /\ Dataset(s.datasets[i].id).linked => evaluations[e].rounds[i] >= seen.round

=============================================================================
