----------------------------- MODULE RequestRun -----------------------------
(***************************************************************************)
(* The judgment runner (tools/run_gemma_exhaustive_dgx.py) over a file of  *)
(* logical requests, each a list of rule items of one advertisement.  A    *)
(* thread works a request off: items a calculation certifies need no call, *)
(* a failed call is repeated, its valid items are kept, the others are     *)
(* asked again or halved, open items get an isolated second look.  The     *)
(* thread's recursion is its stack of tasks.  Finished requests are        *)
(* checkpointed; a later run, of the same attempt or of the next, resumes  *)
(* from the checkpoint.  run_operational_e2e.py then assembles the final   *)
(* result and recover_operational_judgments.py may complete it.            *)
(***************************************************************************)
EXTENDS Naturals, SequencesExt

CONSTANTS
    Files,          \* input files: the items of each logical request, in order
    Items,          \* all rule items
    Certified,      \* items an arithmetic calculation can answer
    Focusable,      \* items eligible for an isolated second look when open
    Says,           \* item -> the verdicts a valid answer may give it
    Marked,         \* source-marked presence items: a VIOLATION is looked at again
    Targets,        \* item -> the items whose satisfaction satisfies it
    SplitLimit,     \* max_split_depth
    Workers,        \* threads of the pool
    TransportLimit, \* calls one failing service may cost a request
    MaxAttempts,    \* bound: runner attempts, each with a directory of its own
    MaxVersions,    \* bound: contents the input file may take
    MaxRecoveries   \* bound: recovery rounds

VARIABLES
    asked,     \* the logical requests of the input file
    version,   \* content of the input, code and settings that a checkpoint names
    attempt,   \* the attempt whose directory is used
    proc,      \* "down", "running", "written", "assembled" or "failed"
    ckpt,      \* attempt -> its checkpoint file
    rows,      \* request -> the rows of its result, NoRows while pending
    work,      \* request -> stack of tasks of its thread
    made,      \* request -> the rows its thread has made so far
    tries,     \* request -> contract and transport failures of the current call
    calls,     \* ghost: request -> physical calls made for it in this run
    responses, \* response files: the runner's and those of the recoveries
    final      \* item -> what the final result states

runner == <<rows, work, made, tries, calls>>
vars == <<asked, version, attempt, proc, ckpt, runner, responses, final>>

Names == DOMAIN asked
Requested == UNION {ToSet(asked[r]) : r \in Names}
Attempts == 1..MaxAttempts
\* NOT_APPLICABLE stands for every answer that leaves an item inapplicable.
Verdicts == {"COMPLIANT", "VIOLATION", "UNDETERMINED", "NOT_APPLICABLE"}
Answers(items) == {v \in [DOMAIN items -> Verdicts] : \A i \in DOMAIN items : v[i] \in Says[items[i]]}
NoFile == [version |-> 0, rows |-> <<>>]
NoRows == [results |-> <<>>, failed |-> FALSE]
NoTries == [contract |-> 0, transport |-> 0]
Failure == "OUTPUT_FAILURE"

-----------------------------------------------------------------------------
(* Rows and tasks *)

Result(item, verdict) == [item |-> item, verdict |-> verdict, version |-> version]
ItemsOf(results) == [i \in DOMAIN results |-> results[i].item]
Failed(n) == [ok |-> FALSE, results |-> <<>>, calls |-> n]
Judge(items, depth) == [op |-> "judge", items |-> items, depth |-> depth]
Order(items, from) == [op |-> "order", items |-> items, from |-> from]
Focus(row, todo) == [op |-> "focus", row |-> row, todo |-> todo]

\* The items of a request that an isolated call may still decide.
Open(result) ==
    \/ result.item \in Focusable /\ result.verdict = "UNDETERMINED"
    \/ result.item \in Focusable \cap Marked /\ result.verdict = "VIOLATION"

Focused(results, n) ==
    Focus([ok |-> TRUE, results |-> results, calls |-> n], ItemsOf(SelectSeq(results, Open)))

\* Mutant: every fragment of a row carries its calls.
FragmentsCharged(row) ==
    IF ~row.ok THEN <<row>>
    ELSE [i \in DOMAIN row.results |-> [row EXCEPT !.results = <<row.results[i]>>]]

\* order_response_items: valid rows fall into one fragment per item, the
\* first keeps the call history; failed rows carry no position and go last.
Fragments(row) ==
    IF ~row.ok THEN <<row>>
    ELSE [i \in DOMAIN row.results |->
            [row EXCEPT !.results = <<row.results[i]>>, !.calls = IF i = 1 THEN @ ELSE 0]]

\* Mutant: the rows stay in the order in which they were made.
OrderedAsMade(items, part) == part

Ordered(items, part) ==
    LET pieces == FlattenSeq([i \in DOMAIN part |-> Fragments(part[i])])
        At(item) == SelectSeq(pieces, LAMBDA p : p.ok /\ p.results[1].item = item)
    IN FlattenSeq([i \in DOMAIN items |-> At(items[i])])
         \o SelectSeq(pieces, LAMBDA p : ~p.ok)

\* Mutant: a failed row discards the valid ones beside it.
RecordedWhole(part) ==
    IF \E i \in DOMAIN part : ~part[i].ok THEN [results |-> <<>>, failed |-> TRUE]
    ELSE [results |-> FlattenSeq([i \in DOMAIN part |-> part[i].results]), failed |-> FALSE]

\* What is left of a request's rows: the results of the valid ones, in their
\* order, and whether there were others.  Nothing later tells more of them apart.
Recorded(part) ==
    [results |-> FlattenSeq([i \in DOMAIN part |-> IF part[i].ok THEN part[i].results ELSE <<>>]),
     failed |-> \E i \in DOMAIN part : ~part[i].ok]

LogicalRequestComplete(r, record) == ItemsOf(record.results) = asked[r]

ContractAttemptLimit(items) ==
    IF Len(items) > 6 THEN 1 ELSE IF Len(items) > 1 THEN 2 ELSE 3

Halves(items) == <<SubSeq(items, 1, Len(items) \div 2), SubSeq(items, Len(items) \div 2 + 1, Len(items))>>

Pick(items, S) == SelectSeq(items, LAMBDA i : i \in S)

-----------------------------------------------------------------------------
Init ==
    /\ asked \in Files
    /\ version = 1 /\ attempt = 1 /\ proc = "down"
    /\ ckpt = [a \in Attempts |-> NoFile]
    /\ rows = [r \in Names |-> NoRows]
    /\ work = [r \in Names |-> <<>>]
    /\ made = [r \in Names |-> <<>>]
    /\ tries = [r \in Names |-> NoTries]
    /\ calls = [r \in Names |-> 0]
    /\ responses = <<>>
    /\ final = [i \in Requested |-> "none"]

\* The own checkpoint is loaded if it exists; otherwise the newest one of an
\* earlier attempt is a seed, ignored when it is incompatible.
Compatible(file) == file.version = version

Seed ==
    LET older == {a \in 1..(attempt - 1) : ckpt[a] # NoFile}
    IN IF older = {} THEN NoFile ELSE ckpt[CHOOSE a \in older : \A b \in older : b <= a]

Loaded ==
    IF ckpt[attempt] # NoFile THEN ckpt[attempt]
    ELSE IF Compatible(Seed) THEN Seed ELSE NoFile

Kept(r) ==
    IF r \in DOMAIN Loaded.rows /\ LogicalRequestComplete(r, Loaded.rows[r])
    THEN Loaded.rows[r] ELSE NoRows

Start ==
    /\ proc = "down"
    /\ ckpt[attempt] # NoFile => Compatible(ckpt[attempt])
    /\ proc' = "running"
    /\ rows' = [r \in Names |-> Kept(r)]
    /\ work' = [r \in Names |-> IF Kept(r) = NoRows THEN <<Judge(asked[r], 0)>> ELSE <<>>]
    /\ made' = [r \in Names |-> <<>>]
    /\ tries' = [r \in Names |-> NoTries]
    /\ calls' = [r \in Names |-> 0]
    /\ UNCHANGED <<asked, version, attempt, ckpt, responses, final>>

StartRefused ==
    /\ proc = "down"
    /\ ckpt[attempt] # NoFile /\ ~Compatible(ckpt[attempt])
    /\ proc' = "failed"
    /\ UNCHANGED <<asked, version, attempt, ckpt, runner, responses, final>>

-----------------------------------------------------------------------------
(* The thread of a request *)

\* The pool takes the pending requests in the order of the file.
Before(r) == 1..(r - 1)

Working(r) ==
    /\ proc = "running" /\ work[r] # <<>>
    /\ Cardinality({q \in Before(r) : work[q] # <<>>}) < Workers
Task(r) == Head(work[r])
Judging(r) == Working(r) /\ Task(r).op = "judge"

Then(r, tasks) == work' = [work EXCEPT ![r] = tasks \o Tail(@)]
Emit(r, row) == made' = [made EXCEPT ![r] = Append(@, row)]
Fresh(r) == tries' = [tries EXCEPT ![r] = NoTries]
Counted(r) == calls' = [calls EXCEPT ![r] = @ + 1]
Outside == UNCHANGED <<asked, version, attempt, proc, ckpt, rows, responses, final>>

\* Calls already made for the task, the current one included.
Made(r) == tries[r].contract + tries[r].transport + 1

Computed(r) == ToSet(Task(r).items) \cap Certified
Mixed(r) == Computed(r) # {} /\ ToSet(Task(r).items) \ Certified # {}

Certify(r) ==
    /\ Judging(r)
    /\ ToSet(Task(r).items) \subseteq Certified
    /\ tries[r] = NoTries
    /\ \E v \in Answers(Task(r).items) :
         Emit(r, [ok |-> TRUE, calls |-> 0, results |->
                    [i \in DOMAIN v |-> Result(Task(r).items[i], v[i])]])
    /\ Then(r, <<>>)
    /\ UNCHANGED <<tries, calls>> /\ Outside

Partition(r) ==
    /\ Judging(r) /\ Mixed(r)
    /\ LET t == Task(r) IN
         Then(r, <<Judge(Pick(t.items, Certified), t.depth + 1),
                   Judge(Pick(t.items, Items \ Certified), t.depth + 1),
                   Order(t.items, Len(made[r]))>>)
    /\ UNCHANGED <<made, tries, calls>> /\ Outside

\* A service that does not answer is asked again, never with a smaller request.
TransportError(r) ==
    /\ Judging(r) /\ ~Mixed(r)
    /\ Counted(r)
    /\ IF tries[r].transport + 1 < TransportLimit
       THEN /\ tries' = [tries EXCEPT ![r].transport = @ + 1]
            /\ UNCHANGED <<work, made>>
       ELSE /\ Emit(r, Failed(Made(r)))
            /\ Then(r, <<>>)
            /\ Fresh(r)
    /\ Outside

Valid(r) ==
    /\ Judging(r) /\ ~Mixed(r)
    /\ \E v \in Answers(Task(r).items) :
         Then(r, <<Focused([i \in DOMAIN v |-> Result(Task(r).items[i], v[i])], Made(r))>>)
    /\ Counted(r) /\ Fresh(r)
    /\ UNCHANGED made /\ Outside

\* An answer whose parts are valid for some items only.
Partial(r) ==
    /\ Judging(r) /\ ~Mixed(r)
    /\ Task(r).depth < SplitLimit
    /\ \E S \in SUBSET ToSet(Task(r).items) \ {{}, ToSet(Task(r).items)} :
         LET t == Task(r)
             kept == Pick(t.items, S)
         IN \E v \in Answers(kept) :
              Then(r, <<Focused([i \in DOMAIN v |-> Result(kept[i], v[i])], Made(r)),
                        Judge(Pick(t.items, Items \ S), t.depth + 1),
                        Order(t.items, Len(made[r]))>>)
    /\ Counted(r) /\ Fresh(r)
    /\ UNCHANGED made /\ Outside

\* quarantine_unsupported_observations may open some items and keep the answer.
Quarantined(r) ==
    \/ Emit(r, Failed(Made(r)))
    \/ \E S \in SUBSET DOMAIN Task(r).items \ {{}}, said \in Answers(Task(r).items) :
         LET v == [i \in DOMAIN said |-> IF i \in S THEN "UNDETERMINED" ELSE said[i]] IN
         /\ Emit(r, [ok |-> TRUE, calls |-> Made(r), results |->
                       [i \in DOMAIN v |-> Result(Task(r).items[i], v[i])]])

\* The parent's calls are charged to the first row of its halves.
Halve(r) ==
    LET t == Task(r)
        halves == Halves(t.items)
    IN Then(r, <<Judge(halves[1], t.depth + 1), Judge(halves[2], t.depth + 1),
                 [op |-> "charge", from |-> Len(made[r]), calls |-> Made(r)]>>)

\* The service is asked again, with the errors and how to repair them.
Repair(r) ==
    /\ tries' = [tries EXCEPT ![r].contract = @ + 1]
    /\ UNCHANGED <<work, made>>

\* An answer no item of which is valid, or one that can be split no further.
Invalid(r) ==
    /\ Judging(r) /\ ~Mixed(r)
    /\ Counted(r)
    /\ IF tries[r].contract + 1 < ContractAttemptLimit(Task(r).items)
       THEN Repair(r)
       ELSE /\ Fresh(r)
            /\ IF Len(Task(r).items) < 2 \/ Task(r).depth >= SplitLimit
               THEN Quarantined(r) /\ Then(r, <<>>)
               ELSE Halve(r) /\ UNCHANGED made
    /\ Outside

\* At the split limit the valid part of an answer is not kept.
PartialTooDeep(r) ==
    /\ Judging(r) /\ ~Mixed(r)
    /\ Len(Task(r).items) > 1 /\ Task(r).depth >= SplitLimit
    /\ Counted(r) /\ Fresh(r)
    /\ Quarantined(r) /\ Then(r, <<>>)
    /\ Outside

\* One isolated call per open item; its decided, valid answer replaces the
\* open one.  Its own repeats are not told apart.
FocusOne(r) ==
    /\ Working(r) /\ Task(r).op = "focus" /\ Task(r).todo # <<>>
    /\ LET row == Task(r).row
           item == Head(Task(r).todo)
           at == CHOOSE i \in DOMAIN row.results : row.results[i].item = item
           rest == Tail(Task(r).todo)
       IN \E verdict \in {"COMPLIANT", "VIOLATION", row.results[at].verdict} :
            Then(r, <<Focus([row EXCEPT !.results[at].verdict = verdict, !.calls = @ + 1], rest)>>)
    /\ Counted(r)
    /\ UNCHANGED <<made, tries>> /\ Outside

FocusDone(r) ==
    /\ Working(r) /\ Task(r).op = "focus" /\ Task(r).todo = <<>>
    /\ Emit(r, Task(r).row) /\ Then(r, <<>>)
    /\ UNCHANGED <<tries, calls>> /\ Outside

Reorder(r) ==
    /\ Working(r) /\ Task(r).op = "order"
    /\ LET t == Task(r) IN
         made' = [made EXCEPT ![r] = SubSeq(@, 1, t.from)
                                       \o Ordered(t.items, SubSeq(@, t.from + 1, Len(@)))]
    /\ Then(r, <<>>)
    /\ UNCHANGED <<tries, calls>> /\ Outside

ChargeFirst(r) ==
    /\ Working(r) /\ Task(r).op = "charge"
    /\ made' = [made EXCEPT ![r][Task(r).from + 1].calls = @ + Task(r).calls]
    /\ Then(r, <<>>)
    /\ UNCHANGED <<tries, calls>> /\ Outside

\* An exception of the thread: what it has made so far is lost with it.
Raise(r) ==
    /\ Judging(r)
    /\ made' = [made EXCEPT ![r] = <<Failed(0)>>]
    /\ work' = [work EXCEPT ![r] = <<>>]
    /\ Fresh(r)
    /\ UNCHANGED calls /\ Outside

ThreadStep(r) ==
    \/ Certify(r) \/ Partition(r) \/ TransportError(r) \/ Valid(r) \/ Partial(r)
    \/ Invalid(r) \/ PartialTooDeep(r) \/ FocusOne(r) \/ FocusDone(r) \/ Reorder(r)
    \/ ChargeFirst(r) \/ Raise(r)

-----------------------------------------------------------------------------
(* The main thread *)

\* Of an incomplete request a checkpoint keeps rows that no run will read.
Saved(r, record) ==
    IF LogicalRequestComplete(r, record) THEN record ELSE [results |-> <<>>, failed |-> TRUE]

\* Mutant: only a complete request is finished.
FinishComplete(r) ==
    /\ proc = "running" /\ rows[r] = NoRows /\ work[r] = <<>>
    /\ LogicalRequestComplete(r, Recorded(made[r]))
    /\ rows' = [rows EXCEPT ![r] = Recorded(made[r])]
    /\ calls' = [calls EXCEPT ![r] = 0]
    /\ ckpt' = [ckpt EXCEPT ![attempt] =
                  [version |-> version,
                   rows |-> [q \in {n \in Names : rows'[n] # NoRows} |-> Saved(q, rows'[q])]]]
    /\ made' = [made EXCEPT ![r] = <<>>]
    /\ UNCHANGED <<asked, version, attempt, proc, work, tries, responses, final>>

Finish(r) ==
    /\ proc = "running" /\ rows[r] = NoRows /\ work[r] = <<>>
    /\ rows' = [rows EXCEPT ![r] = Recorded(made[r])]
    /\ calls' = [calls EXCEPT ![r] = 0]
    /\ ckpt' = [ckpt EXCEPT ![attempt] =
                  [version |-> version,
                   rows |-> [q \in {n \in Names : rows'[n] # NoRows} |-> Saved(q, rows'[q])]]]
    /\ made' = [made EXCEPT ![r] = <<>>]
    /\ UNCHANGED <<asked, version, attempt, proc, work, tries, responses, final>>

WriteOutput ==
    /\ proc = "running" /\ \A r \in Names : rows[r] # NoRows
    /\ proc' = "written"
    /\ responses' = <<UNION {ToSet(rows[r].results) : r \in Names}>>
    /\ UNCHANGED <<asked, version, attempt, ckpt, runner, final>>

Crash ==
    /\ proc = "running"
    /\ proc' = "down"
    /\ rows' = [r \in Names |-> NoRows] /\ work' = [r \in Names |-> <<>>]
    /\ made' = [r \in Names |-> <<>>] /\ tries' = [r \in Names |-> NoTries]
    /\ calls' = [r \in Names |-> 0]
    /\ UNCHANGED <<asked, version, attempt, ckpt, responses, final>>

\* The caller runs the next attempt in a directory of its own, perhaps on
\* another input.
NextAttempt ==
    /\ proc \in {"down", "failed"} /\ attempt < MaxAttempts
    /\ attempt' = attempt + 1 /\ proc' = "down"
    /\ version' \in {version} \cup (1..MaxVersions \cap {version + 1})
    /\ UNCHANGED <<asked, ckpt, runner, responses, final>>

\* The input file of the attempt is written anew while no run reads it.
Rewrite ==
    /\ proc = "down" /\ version < MaxVersions
    /\ version' = version + 1
    /\ UNCHANGED <<asked, attempt, proc, ckpt, runner, responses, final>>

-----------------------------------------------------------------------------
(* The final result *)

\* load_results: a later file overlays an earlier one.
Overlay(files) ==
    LET With(item) == {i \in DOMAIN files : \E x \in files[i] : x.item = item}
        Of(item) == LET i == CHOOSE i \in With(item) : \A j \in With(item) : j <= i
                    IN CHOOSE x \in files[i] : x.item = item
    IN [item \in {i \in Items : With(i) # {}} |-> Of(item).verdict]

\* apply_satisfaction_relations: an applicable item is compliant if one of the
\* items it names is, by itself or by projection.  The code visits the items in
\* the order of their dependencies and refuses a cycle.
Projected(verdicts) ==
    LET proj[i \in DOMAIN verdicts] ==
          IF verdicts[i] # "NOT_APPLICABLE"
             /\ \E t \in Targets[i] \cap DOMAIN verdicts : proj[t] = "COMPLIANT"
          THEN "COMPLIANT" ELSE verdicts[i]
    IN proj

Stated(verdicts) == [i \in Requested |-> IF i \in DOMAIN verdicts THEN verdicts[i] ELSE Failure]

Assemble ==
    /\ proc = "written"
    /\ proc' = "assembled"
    /\ final' = Stated(Projected(Overlay(responses)))
    /\ UNCHANGED <<asked, version, attempt, ckpt, runner, responses>>

\* build_recovery_requests asks for the pairs without a valid result only.
Missing == Requested \ DOMAIN Overlay(responses)

\* A run of the runner answers some of them, finalize assembles all files.
Recover ==
    /\ proc \in {"written", "assembled"}
    /\ Len(responses) <= MaxRecoveries
    /\ \E S \in SUBSET Missing : \E v \in {f \in [S -> Verdicts] : \A i \in S : f[i] \in Says[i]} :
         responses' = Append(responses, {Result(i, v[i]) : i \in S})
    /\ final' = Stated(Overlay(responses'))
    /\ proc' = "assembled"
    /\ UNCHANGED <<asked, version, attempt, ckpt, runner>>

Next ==
    \/ Start \/ StartRefused \/ WriteOutput \/ Crash \/ NextAttempt \/ Rewrite
    \/ Assemble \/ Recover
    \/ \E r \in Names : ThreadStep(r) \/ Finish(r)

Spec == Init /\ [][Next]_vars

\* The threads and the main thread of a running runner make progress.
FairSpec ==
    /\ Spec
    /\ \A r \in UNION {DOMAIN f : f \in Files} :
         WF_vars(r \in Names /\ ThreadStep(r)) /\ WF_vars(r \in Names /\ Finish(r))
    /\ WF_vars(WriteOutput)

-----------------------------------------------------------------------------
(* Properties *)

IsSubsequence(s, t) == s = SelectSeq(t, LAMBDA x : x \in ToSet(s))

\* However a request was partitioned, halved, retained and asked again, its
\* valid rows answer each of its items at most once and in the order of the
\* request, and all of them if no row failed: otherwise logical_request_complete
\* would throw a paid request away at every resume.  Whatever attempt a row was
\* made in, its results and those of the output were given for the present
\* input: a checkpoint of another one never leaks in.
AnsweredOnceInOrder ==
    /\ \A r \in Names : rows[r] # NoRows =>
          /\ IsSubsequence(ItemsOf(rows[r].results), asked[r])
          /\ ~rows[r].failed => LogicalRequestComplete(r, rows[r])
          /\ \A x \in ToSet(rows[r].results) : x.version = version
    /\ \A i \in DOMAIN responses : \A x \in responses[i] : x.version = version

\* Every physical call is charged to exactly one row, however often its request
\* was split ("Retain each discarded ancestor exactly once").  A thread that
\* raised has lost its record.
CallsAuditedOnce ==
    \A r \in Names :
        work[r] = <<>> /\ made[r] # <<Failed(0)>>
        => FoldSeq(LAMBDA row, n : row.calls + n, 0, made[r]) = calls[r]

Settled(results) ==
    {x \in ToSet(results) : x.verdict \in {"COMPLIANT", "VIOLATION", "NOT_APPLICABLE"} /\ ~Open(x)}

InHand(r) ==
    UNION ({Settled(made[r][i].results) : i \in DOMAIN made[r]}
           \cup {Settled(work[r][i].row.results) : i \in {j \in DOMAIN work[r] : work[r][j].op = "focus"}}
           \cup {Settled(rows[r].results)})

\* A settled answer survives every later step of its request: retries, splits,
\* reordering and second looks at its neighbors.  Only an exception or a crash
\* loses it.
SettledSurvives ==
    [][\A r \in Names :
         \/ InHand(r) \subseteq InHand(r)'
         \/ proc' = "down" \/ made'[r] = <<Failed(0)>>]_vars

\* Recovery completes a result and, as its guardrail says, "never edits semantic
\* verdicts": what the final result predicted, it still predicts.
RecoveryKeepsVerdicts ==
    [][\A i \in Requested : final[i] \in Verdicts => final'[i] = final[i]]_vars

\* A run comes to its end, whatever the service answers.
RunsEnd == proc = "running" ~> proc # "running"
=============================================================================
