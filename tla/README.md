# A TLA+ model of NH Reg Radar

NH Reg Radar reviews advertisements of financial products: a file is read by
parsers, its text is checked against rules by code and by a language model, and a
person decides. What decides whether a person ever gets a correct result is the
workflow around the text analysis (how a review is accepted, handed to a worker,
retried, taken over, cancelled, restarted and closed) and the steps that carry a line
of the advertisement to a verdict (which files are parsed again, which lines a rule may
see, which answers of the model stand). This directory models both, checks them with
TLC and proves the safety of the workflow, in both stacks, with TLAPS. What a parser, a
search or the language model computes is represented by its possible outcomes.

The repository holds two independent stacks, and both are modelled:

* the **product stack** (`apps/`, `packages/`): a FastAPI backend, PostgreSQL, a Redis
  list, worker processes, an object store, OpenSearch and Qdrant, and the programs that
  collect regulations;
* the **operational stack** (`scripts/operational_web_bridge.py`, `rag-pipeline/`):
  one process with a pool of review threads, a RAG job service with its own executor,
  the tools that it starts, and JSON files instead of a database.

## 1. Inventory

| Component | State it keeps | Operations | Hard behaviour | Model |
| --- | --- | --- | --- | --- |
| Review job queue and workers: `jobs.py`, `postgres.py`, `runtime.py`, `queue.py` | rows of `review_jobs`, `reviews`, `review_steps`, results; the Redis list and the dead-letter list; the stack of each worker | claim, heartbeat, advance, put of the artifact, three persist calls, complete, retry, final failure, recovery of stale jobs, reconciliation of publications | two workers on one job, a worker that comes back after its lease has expired, lost and repeated messages, outages of Redis, database and object store, crashes | `ReviewJobs` |
| Review request API: `reviews.py`, `services.py`, `repository.py` | rows of `advertisements`, `files`, `reviews`; objects | request, rerun, add, publish; registration, revision, deletion | requests that race past a check; objects stored before rows and taken back after a failure | `ReviewJobs`, `Advertisements` |
| Rule review and result engine: `results.py`, `suggestions.py` | result rows, suggestions | rules, search over two indexes, opinion, persist, complete | a second worker runs every stage again and gets other answers | `ReviewEngine` |
| Parser routing and hybrid merge: `routing.py`, `hybrid.py` | none | choice of parsers, fallback attempts, alignment of structure and text | repeated phrases, ranges that overlap | `ParserRouting` |
| Operational RAG job service: `rag/api/service.py` | `request.json`, `status.json`, the idempotency index, result files; executor queue and threads | submit, retry, `_run` with its subprocesses, start-up recovery | a crash between two file writes, retries from three places, a result that is recovered after a failure in the tail | `RagJobs`, `RagLifecycle` |
| Web bridge: `operational_web_bridge.py`, `serve-operational-review.py` | reviews and advertisements in memory, `web-state.json`, `web-results.json`, the set `active`, the pool | publish, `run` stage by stage, cancel, delete_review, delete_advertisement, persist, restore, pause_for_shutdown | cancel, delete, shutdown and crash at every point of a run; an exception handler that takes no lock; two files that are written one after the other | `WebBridge` |
| Parser runs of the bridge: `Bridge.parse` and what it calls | run directories, one per review | parallel runs, single retries, reuse over a chain of reviews, previews | reuse from a review that is running, failing or being deleted | `ParserRun` |
| Parsing of parser pairs: `parser_contract_adapter.py`, `prepare_inputs.py`, the intake of the bridge | the merged document, scopes of products, search documents | adapt, combine, intake, scope, select, split | pages that are renumbered, lines that change place, text that is lost in a split | `EvidenceIntake`, `EvidenceViews` |
| Rule selection and evidence: `run_operational_e2e.py`, `hybrid_rule_retrieval.py`, `rag/retrieval` | the lists of one run; vector cache and rule indexes that all runs share | cache or encode, index the rules, route, enumerate, search, defer, batch, window, freeze, assemble | a rule that no list takes; evidence cut off by a budget; a cache of two files, an index that is filled in several calls | `RuleIndex`, `RagSelection`, `EvidenceWindow` |
| Requests to the model: `run_gemma_exhaustive_dgx.py`, `recover_operational_judgments.py` | checkpoint, responses, overlay | requests, retries, splits, second looks, resume, recovery | paid calls that are lost, charged twice or repeated; a resume after a crash | `RequestRun` |
| Contracts, validation and guards: `rag/judgment` | none | compile, expand, normalise, validate, guard, quarantine, abstain | guards that follow one another over one result; three-valued logic | `ConditionContracts`, `Kleene`, `Judgment` |
| Standards and ingestion: `standards.py`, `standards_postgres.py`, `reference_ingestion.py` | rows and versions, chunks, reindexing jobs, documents in two indexes | create, update, deactivate, reindex, ingest, search | transactions and two indexes that fail one by one, a program beside the API | `Standards` |
| Regulation collection: `regulation_collection/` | JSON, text, downloads, caches, the review page | search, fetch, download, gate, write, report, page | a source that changes, a collapse of its tables, a program that dies between two files; headings that come and go | `RegulationCollection`, `RegulationText` |
| Authentication: `services.py`, `security.py` | users, refresh sessions, counters | login, refresh, logout | one token exchanged twice, in two processes | `Sessions` |
| Support: decisions, questions, drafts, reports, comparisons: `support.py` | their rows | one request each, of several queries | decisions while a report is put together | `SupportOutputs` |
| Validation: `validation.py` | datasets, judgments, evaluations | judge, evaluate | judgments and reviews that come while an evaluation reads | `Validation` |
| Parser artifact store: `artifacts.py` | objects and their rows | put, read_privileged, delete_expired, holds | conflicting content under one id; object and row are not atomic | `put` in `ReviewJobs` |
| Parser services | none | OCR and layout | - | outcomes only |
| Frontend | none of the lifecycle | views | none | no |
| Infrastructure, migrations, governance scripts, documents | - | restart policy, uniqueness constraints | - | used by the models |

How the parts interact:

    product stack
      API thread --transaction--> PostgreSQL <--transaction-- worker (+ heartbeat thread)
          \--RPUSH--> Redis list --BLPOP--> worker --put--> object store
                          ^------- recovery and reconciliation (worker)
      worker: ParserRouting -> rules, search, opinion (ReviewEngine) -> rows
      API and ingestion --> rag.standards, OpenSearch, Qdrant <-- search of the worker

    operational stack
      HTTP handler --lock--> book in memory --persist--> web-results.json, web-state.json
          \--submit--> pool of review threads --parsers (ParserRun)--> P1/P3 pairs
                                             --submit/poll--> RAG job service --> status.json
      RAG job: prepare_inputs (EvidenceIntake, EvidenceViews)
               -> run_operational_e2e (RuleIndex, RagSelection, EvidenceWindow)
               -> run_gemma_exhaustive (RequestRun), each answer through Judgment
               -> result, or recover_operational_judgments

What makes each component correct:

* **Jobs.** The rows that different transactions write agree with each other; a late
  worker cannot write under another one's lease; results are built from the artifact
  that is stored; one active review per advertisement; a dead letter is sent at most
  once and only for a job that failed for good; every accepted review ends.
* **RAG jobs.** A job is never run by two parties at once and at most `max_attempts`
  times; the state that is written tells what is in the result file; one job runs per
  `client_request_id`; every job ends unless a crash made the executor forget it.
* **Bridge.** No review is forgotten or run twice over cancellations, shutdowns and
  crashes; what was answered is durable; a completed review has its results and never
  changes again.
* **From the file to the evidence.** A review is judged on files parsed under its own
  template; evidence that was judged or reused does not change; structure adds to the
  text and never replaces it; a line stays on the page it was read from, and a product
  is judged on its own evidence and the shared one only.
* **From the rule to the request.** A run searches all of its own rules and no others,
  whatever other runs do to the files and indexes they share. Every rule of the catalog is asked, given to a
  person, deferred with a reason or audited, for every product; a window that was cut
  is never taken for a complete one.
* **From the answer to the verdict.** Guards only withdraw; a verdict rests on checks
  that are supported and cannot be overturned by what is still open; every item is
  answered at most once, no call is charged twice, a settled answer is not lost by a
  second look, and the run ends.
* **Standards.** Versions are one history; a chunk that is called active is in both
  indexes; what is retired is found no more; one file is one standard.
* **Collected regulations.** The record is of the regulation it is named after, whole,
  and not less than before; the report of a revision says what the revision did.
* **Outputs, registrations, sessions.** An evaluation and the suggestions of a report
  show one moment; files have objects; a login has one live session, and a replay ends
  it unless a rotation overlaps the revocation.

`PROJECT.json` lists the hazards of this code, line by line, and which property stands
guard over each; section 7 lists those that no property covers.

## 2. Modules

| Module | What it is |
| --- | --- |
| `ReviewLifecycle` | abstract: what the product stack promises about a review |
| `ReviewJobs` | the product stack; implements `ReviewLifecycle` |
| `MCReviewJobs` | constants and symmetry for its runs |
| `ReviewJobs_proofs` | inductive invariants, `TypesHold`, `JobAndReviewAgree`, `OneActiveReview`, `RowsImplementLifecycle`, `LeaseHolds`, `CheckpointsCohere`, `DeadLettersAreSound`, `AdStatusIsTheLatest` |
| `RagLifecycle` | abstract: what the RAG service promises about the job of a key |
| `RagJobs` | the RAG service; implements `RagLifecycle` |
| `RagJobs_proofs` | inductive invariant, `ResultsAreAsStated`, `FilesImplementLifecycle` |
| `WebBridge` | the bridge, with the RAG service as `INSTANCE RagLifecycle` |
| `WebBridge_proofs` | inductive invariant, `NothingIsForgotten`, `AnswersSurvive`, `ReviewsEndOnce`, `AdsShowTheirNewest` |
| `MCWebBridge` | symmetry for its run |
| `ParserRun` | how the bridge parses the files of an advertisement, over all its reviews |
| `ParserRouting` | parser choice, attempts, alignment and merge of the worker |
| `EvidenceIntake` | from parser pairs to the document of each product |
| `EvidenceViews` | from a region to the documents the search sees |
| `ReviewEngine` | the worker's rules, search, opinion, rows and status |
| `MCDocuments` | the five above, each on its inputs |
| `EvidenceWindow` | the lines one rule may cite |
| `RagSelection` | one run of `run_operational_e2e.py`; uses `EvidenceWindow` |
| `RuleIndex` | the vector cache and the rule indexes that runs share |
| `RagPipeline_proofs` | of `RuleIndex` an inductive invariant, `SearchesOwnRules`, `IndexesInUseAreLeftAlone`; of `Kleene` that the joins are monotone |
| `MCRagSelection` | `RuleIndex` and `RagSelection`: catalog, documents and runs |
| `RequestRun` | the judgment runner, its checkpoint and the recovery |
| `MCRequestRun` | its input files |
| `Kleene` | three-valued joins |
| `ConditionContracts` | the contract of a rule, from prose or from a plan |
| `Judgment` | one answer of the model, from raw text to the stored row |
| `MCJudgment` | rules, claims and advertisements |
| `Standards` | rows, versions and two indexes of the reference standards |
| `Standards_proofs` | inductive invariant, `StandardsKeepTheirHistories`, `RowsTellTheIndexes` |
| `RegulationCollection` | the programs that collect a regulation |
| `RegulationText` | rendering, sections, report, display and jump list of its text |
| `MCStandards` | the three above, each on its inputs |
| `Validation`, `SupportOutputs`, `Advertisements`, `Sessions` | four groups of routes of the backend |
| `Advertisements_proofs` | inductive invariant, `RegistrationsHold` |
| `Sessions_proofs` | inductive invariant, `LoginsKeepOneSession` |
| `SupportOutputs_proofs` | inductive invariant, `ReportsShowOneMoment`, `QuestionsStayFound` |
| `MCOutputs` | the four above |

`RagLifecycle` is used twice: `RagJobs` is shown to implement it, and `WebBridge` is
composed with it, so the bridge is checked against exactly what the service provides.
The modules that `MCDocuments`, `MCRagSelection`, `MCStandards` and `MCOutputs` bring together share no
state; there, `served` chooses at the start which of them a behaviour is of, and each
is explored in full. `ReviewEngine` stands behind the single step in which `ReviewJobs`
gets its results, `EvidenceIntake` to `Judgment` behind a subprocess of `RagJobs`, and
`ParserRun` behind `Work` of `WebBridge`.

### ReviewJobs

One action is one database transaction, one Redis command or one object-store call;
between two of them anything may happen. `job`, `review`, `step`, `saved`, `ad` are the
rows; a job and its review are inserted together and share one identifier. `queue` is
the Redis list, `deadLetter` counts the dead letters of each job. `api[c]` and
`worker[w]` are the local states of threads; `worker[w].pc` names the call that
`ParserJobProcessor.process` makes next.

| Code | Action |
| --- | --- |
| `request`/`rerun`, `add`, `publish` | `Request`, `Add`, `AddRefused`, `Publish`, `PublishLost` |
| `add_revision`, `AdvertisementService.delete` | `Revise`, `DeleteAd`, `RemoveFiles` |
| `pop`, `claim`, `source_loader` | `Pop`, `Claim`, `ClaimIgnored`, `ClaimFails`, `LoadSource`, `SourceMissing`, `LoadSourceFails` |
| `advance` | `Advance` |
| `parse_with_attempts` and what it raises | `Parse`, `ParseFails` |
| `artifacts.put`, `persist_selected`, `persist_results`, `persist_suggestions`, `complete` | `PutArtifact`, `PutFails`, `PersistSelected`, `PersistResults`, `PersistSuggestions`, `Complete` |
| `retry_or_dead_letter`, `fail_final`, `fail_claim_error`, dead letters | `Retry`, `FailFinal`, `FailClaimError`, `DeadLetter`, `DeadLetterLost` |
| heartbeat thread, `recover_stale` and its publications | `Heartbeat`, `Recover`, `PublishRecovered`, `PublishRecoveredFails` |
| failing transactions, dying processes, Redis restart | `StepFails`, `HandlerFails`, `Crash`, `RedisLoss` |
| time | `Tick`, and `Stall` when a worker outlives its lease |

Time is kept as ages (`beatAge`, `leaseAge`, `wait`) that stop just above the threshold
they are compared with. Nothing the code does depends on a larger age, so no clock needs
a bound. `Tick` is possible while every worker that holds a lease is able to beat;
letting an age reach the threshold under a live worker is a `Stall`, one of the faults.

### RagJobs

`status`, `owner`, `index` and `output` are files and survive; `tasks`, `lane`, `caller`
are memory and are gone after `Crash`. One action is one locked write of `status.json`,
one subprocess, or one call of the executor. `CrashInCreate` is the crash between
`status.json` and the idempotency index. `Start`, `Interrupt`, `Interrupted`, `Requeue`,
`ResubmitStale`, `Started` are the constructor, write by write, so that a crash may
hit the recovery itself. A key has a single caller: the bridge gives every review a
thread and a key of its own, and the HTTP server runs its handlers on one event loop.

### WebBridge

A block under the bridge's `RLock` is one action; a crash between the two files that
such a block writes is an action of its own (`CrashInComplete`, `CrashInDeleteReview`,
`CrashInDeleteAd`). `run` is `Take`, `Stage` (the `stage` closure that looks at
cancellation and shutdown), `Work`, `WorkFails`, `WaitEnds`, `Label`, `SubmitRag`,
`Poll`, `Complete`, `ProjectionFails` and the handlers. `fail()` takes no lock and is
two steps, `FailReview` and `FailAd`. `Stop` is `pause_for_shutdown`, `Exit` the end of
the interpreter once both pools have drained (`shutdown(wait=False)` still runs the work
items that are queued, which then pause), `Restore` the next start. HTTP handlers run
only while the process is `up`, as `serve-operational-review.py` pauses after the
server has drained its requests. `torn` is a ghost: the reviews whose deletion a crash
has cut off. A review carries its `round`; the next one of an advertisement is the
number after the highest among those that are left, as in `next_round`.

Left out on purpose: `COMPLETED_WITH_WARNINGS` is folded into `COMPLETED`; the
migration of connection failures in `restore` is for files of an earlier version, whose
raise the present code can no longer reach; decisions, layouts and assets do not
touch the lifecycle; what a parser leaves on disk is `ParserRun`.


### From the file to the evidence

`ParserRun`: `reviews[r]` is a review with its run directory `disk[r]`, `thread[r]` the
local state of `Bridge.parse`. `FindSource` and `ReadSource` are the walk along the
`parser-reuse.json` pointers and the copy from the run directory that was found, which
may have been deleted in between; `StartParser`, `EndParser`, `Collect` are the pool of
`parse_assets_in_parallel`, `StartRetry`, `CollectRetry` the single retries. Only the
case of several files is modelled; one file goes through the same calls without the
pool. `Delete` is limited to reviews whose thread has ended (the other case is
`WebBridge_promises.cfg`). An output of `nh_parser_fin` does not name its template, so it
is the intake file alone that keeps a rerun under another template from taking it.

`ParserRouting` runs `ParserRouter` attempt by attempt, with the hybrid adapter's text,
structure and their alignment as operators on short texts. `EvidenceIntake` takes the
pairs of two files through adapter, combine, merge, intake and scopes; pages of a parser
are numbered from 1 without gaps. `EvidenceViews` is the alignment of a selected text to
the parser's lines and the division of a region into search documents. One thing there
is odd rather than wrong: a review flag that an invalid label span has set can be taken
off again by `_fine_selection`, if exactly one line states the sentence.

`ReviewEngine`: one action is one stage of the worker; a worker that replaces another
(`Restart`) repeats them all, at most `most` times. The parser services refuse empty
documents, so there is at
least one block; without a provider there is neither a search nor an opinion.

### From the rule to the verdict

`RuleIndex` is what happens before the first search, for several runs at once.
`ReadMeta`, `ReadVectors`, `Encode`, `SaveVectors`, `SaveMeta` are `load_or_encode`: the
two files of the cache are replaced one after the other, and the checksum in the second
decides whether the first is used. `Look`, `Check`, `Create`, `Load`, `Count` are
`ensure_rule_index`, one request each; the index is named after the fingerprint of rules
and vectors (`NameOf`). A bulk request may fail in part, and one that got no answer may
be carried out later (`Land`). `End` is the end of a run, orderly or not; `Damage`
spoils a file.

`RagSelection` is `main` of `run_operational_e2e.py`, one action per phase; the dozen
lists a candidate passes through are sets, and a source file may be edited meanwhile.
`EvidenceWindow` has the steps that admit lines to the window of a rule under a budget.

`RequestRun` is the runner. The recursion of `call_with_retry_and_split` is the stack of tasks
of its thread; the main thread writes the checkpoint; `Crash`, `NextAttempt` and
`Rewrite` are what the caller may do to it. `Recover` is
`recover_operational_judgments.py`. An answer is the set of verdicts it validly gives.

`ConditionContracts` compiles a rule, `Judgment` takes one answer through
`_expand_model_response`, `normalize_contract_sentinels`, `validate`,
`apply_reading_guard` and the quarantine and abstention that follow. A text is its class:
which lines it cites, whether they are readable, whether the reason is quoted. Two things
follow from the code and not from its documents. `computed_check` answers for every kind
of adapter, so that of `CONFIRMED_BOOLEAN` leaves its duty open. And only the plans say
that a duty is the advertisement's alone: for one in prose `validate` accepts the model's
word that metadata confirms it. `VerdictsAreSupported` counts such a check as supported
and no other that nothing confirms.

### Standards and collected regulations

`Standards`: an operation of `StandardService` is a sequence of transactions and requests
to the two indexes; `proc[p]` holds what it has read, and a crash or a failing request
may come between any two. The API process works one request at a time (its routes run
blocking code on one event loop); the ingestion program runs beside it. `torn`,
`retired`, `stripped` and `orphaned` are ghosts that name what a crash or an overlap has
touched. `Keeps` says which of the metadata a request of the API may carry over. Every
operation is one record with the same fields (`Idle`, `Op`); those that its kind does not
use keep their initial value. `ChunksAssumption` says that a text that is not blank has a
chunk, `NoneIsFree` that "none" is neither a standard nor a file.

`RegulationCollection`: one program runs at a time, the source publishes whenever it
likes. A program that fails to reach the source ends before it has written anything,
which is the `Crash` at that point. The floor of `is_collapse` is 1 here and 3 in the
code; the review page is looked at when it is written. A statute and an administrative
rule differ in the body that is fetched: that of the version found, or the one in force
(`LID`), which may be a later one. A record is saved under the title
that was found, not under the registered name: when the source renames a regulation, the
page stays on the old file. `PageIsCoherent` therefore speaks of the registered name.

`RegulationText`: each behaviour takes one input through one tool. A part (a second
regulation in one document) is recognised only after three articles. The tools cannot
tell some places apart; `Chapters`, `AddendaChange` and the style `kofia` name these
edits, and `ReportIsExact` excepts them and no others. Of two lesser things the run says
nothing: `_TABLE_HEAD` takes quoted headings such as `[별표 1의2]` for tables although the
comment at `build_review.py:512` says it does not, and a second part that follows addenda
is missing from the jump list.

### Outputs, registrations and sessions

`Validation`, `SupportOutputs`, `Advertisements` and `Sessions` have one action per query
or transaction; requests interleave between two processes of the API. In
`Advertisements` the object storage fails, a commit fails, or its answer is lost; the
audit events and the development switch that admits repeated files are left out, the
in-memory repository lives in one process, and `uk_ad_revision_no` is not needed because
a revision holds the lock of its advertisement. `UploadsAreFiles` says that a registration
brings at least one file, as one without is refused before anything is stored
(`services.py:279`). The transactions of `Sessions` are `READ COMMITTED`, as the engine is
made without an isolation level (`main.py:102`). A rotation is two steps, the update that
takes the row (`Held`) and the insert that commits; whoever updates that row meanwhile
waits and looks at it again. A revocation of all sessions takes the rows that were there
when its statement began (`Revokes`) and commits after the rotations among them have
(`RevokeAll`), so the replacement that one of these inserts is not revoked. `replayed`, a
ghost, has the logins for which this did not happen. In `Sessions` the thresholds are 2
instead of 5 and 10; two processes may each write the counter they read plus one, so
failures can be lost, which delays a lock and never makes one. `MCOutputs` extends
`Sessions` and instantiates the other three.

## 3. Runs

Checked with TLC, deadlock checking off: every system here may come to rest when all
reviews are closed, all inputs are used up and the bounded faults are spent.

| Run | Instance | Properties | Shows |
| --- | --- | --- | --- |
| `takeover` | 2 workers, 1 job, 2 faults, 2 parser outputs | `JobReviewAgree` `CheckpointCoherent` `DeadLetterSound` `LeaseFencesOthers` | a suspended worker comes back after a takeover, messages are lost and repeated, calls fail; rows, checkpoints and dead letters stay coherent |
| `requests` | 2 API threads, 2 workers, 2 jobs, 1 fault | `OneActiveReviewPerAd` `AdStatusFollows` `ImplementsLifecycle` | racing requests, deletion and a late worker around one advertisement |
| `liveness` | 1 worker, 1 job, the delays of the code, 2 files, 2 faults | `EveryReviewEnds` | every accepted review is closed, whatever publication is lost; a revision may come at any moment |
| `rag` | 2 keys, 3 jobs, 1 lane, 2 attempts, 2 crashes, 1 retry | `ResultAsStated` `ImplementsLifecycle` `EveryJobEnds` | retry, failover and restart never run a job twice at a time, and the state tells the truth about the file |
| `bridge` | 2 reviews, 2 threads, 2 stops or crashes | `NoReviewForgotten` `AnswersAreDurable` `EndsOnce` | cancellation, deletion, shutdown and crash at every point of a run; only a pause while the server stops takes a cancellation back |
| `bridge_liveness` | 2 reviews, 1 thread, 1 stop or crash | `EveryReviewEnds` | reviews that share a thread end, unless one waits for a RAG job a crash has lost |
| `judgment` | 7 rules, 10 claims, 5 conditions, 4 advertisements, 2 lines | `GuardsOnlyAbstain` `VerdictsAreSupported` `VerdictsAreFinal` | no sequence of guards turns a verdict into another, and a stored verdict rests on supported checks, among them metadata that a duty in prose claims, and on no open one |
| `runner` | 3 files of up to 3 items, 2 threads, 2 attempts, 2 versions of the input, 1 recovery | `AnsweredOnceInOrder` `CallsAuditedOnce` `SettledSurvives` `RunsEnd` | splits, repeats, second looks, crash and resume lose, double and overcharge nothing |
| `discovery` | 10 rules and a held one, 4 documents, 8 runs over 1 or 2 advertisements; beside them 2 processes, 3 starts, 2 catalogs, 2 outcomes of the encoder, 1 damaged file | `RequestsAreWarranted` `WindowsAreHonest` `ResultAccountsForAll` `SearchesAreWhole` | every rule ends somewhere, every request has its reason, no window says more than it saw; a run searches its own rules, all of them |
| `standards` | 2 standards under one period of force, 1 file, 4 operations, 1 fault; 2 publications, 4 runs, 1 crash; edits of regulations of 3 or 4 articles | `HistoriesStand` `IndexesFollowRows` `CollectionStands` `TextsAreReadRight` | rows and indexes under failures and overlaps; what is collected; what is shown of it |
| `outputs` | 2 processes; 3 or 4 requests, 1 fault | `EvaluationsStand` `OutputsAgree` `RegistrationsStand` `OneSessionPerLogin` | what is stored agrees with what it was made from; rotations and revocations that overlap leave a login one session |
| `documents` | 2 files and 3 reviews; every text of 3 characters; every wrong pair and division of pages; regions of 3 lines; results of 1 or 2 blocks | `EvidenceIsOwn` `EvidenceIsStable` `TextIsPreserved` `PagesKeepTheirPlace` `ProvenanceIsHonest` `ResultsStand` | from the file to what is searched and judged |

Properties of the runs with several parts are conjunctions of named properties of the
component modules, which say what each of them means. The type invariants (`TypeOK`) of
`ReviewJobs`, `RagJobs`, `WebBridge` and `RuleIndex` are theorems and not among the
runs' properties. `LatestIsNewest` of `WebBridge` is a theorem too, and not among them
either.

**Bounds.** Faults, crashes, stops, retries, requests and operations are counted and
bounded by the constants named `Max...` and, in `ParserRun` and `ReviewEngine`,
`Budgets` and `most`; everything else is unbounded or finite by nature. Two workers are
enough for a takeover: the guards mention only one's own identity and the row. Two
faults allow the sequences that matter: a stall and then a crash or an outage of the
worker that took over, a lost message and then a lost recovery publication. Two jobs and
two API threads are the least for a race between requests, and they suffice because the
guards compare pairs. `StaleAfter = 1` or `2` ticks keeps the order of events
(beat before expiry, expiry before recovery); the length of a tick is immaterial. The
theorems of section 5 hold without any of these bounds.

The list is bounded by `MaxQueue` in `Recover` only: recovery waits while the list is
longer. In the code a worker publishes and pops in the same loop, and a longer list holds
only more copies of the same job ids, which `ClaimIgnored` drops.

Two runs of the pipeline are the least of which one replaces a file the other is about
to read, three starts let a later one find what both have left, and two catalogs that
share a rule tell an index of one from that of the other.

A request of three items is the least that is halved unevenly, two requests the least
that two threads finish out of order, and one split shows everything a second one
repeats. Three reviews are the least chain in which a rerun takes output that its parent
has taken. Three characters and two structure nodes are the least in which a phrase
repeats, nodes come in the wrong order and ranges would overlap. Three lines of a table
are the least with a label, its value and a neighbour of either. Two conditions and two
duties under every join the plans use let each be open, refuted and confirmed beside the
other. Three articles are the least that open a part, four operations the least in which
an update overlaps a deactivation after a registration and is followed by a search.

**What keeps these runs honest.** Each property has a mutant in the modules (the
definitions commented `Mutant`): the code with a plausible slip, such as a lease guard
without `locked_by`, a missing unique index, a cancellation that is not saved, a failed
row that discards the valid ones beside it, a template that is not compared, a last batch
left out. Each mutant makes its property fail in the same instance.

**Counterexamples that are kept.** Where the code does otherwise than a document or a
comment of the repository says, the module states the sentence as a property, and the
configurations `ReviewJobs_promises` (three sentences), `WebBridge_promises` (two),
`RagJobs_restart`, `RagSelection_delivery`, `Documents_rerun` and `Standards_collapse`
(one each) end in counterexamples to them. They are for reproduction with
`tlc -config`, the first two with `-continue -workers 1` to see every violation; section 6 lists what
they show.

## 4. Fairness

* `ReviewJobs!FairSpec`: weak fairness of every worker's steps and heartbeat: calls
  return, and a process that died is started again. Strong fairness of `Pop` and
  `Recover`: `run_forever` alternates the two in one loop, so neither can be put off for
  ever, although each may be disabled meanwhile. Weak fairness of `Tick`. No fairness
  of requests, publications by the API, or faults: a review ends even if its own
  publication never happens.
* `RagJobs!FairSpec`: executor threads run, subprocesses end (each has a timeout), a
  caller that has created a job reaches the executor or dies, a dead service starts
  again (`restart: unless-stopped`, `infra/operational/compose.yml:11`).
* `WebBridge!FairSpec`: pool threads run, parsers and RAG attempts end, a stopped or
  dead process is started again. No fairness of requests, cancellations or deletions.
* `RequestRun!FairSpec`: the threads and the main thread of a runner that was started
  make progress, as calls to the model have a timeout. No fairness of starts, resumes or
  recoveries: `RunsEnd` speaks of a run that is under way.

Parsers are assumed to return. In the product stack nothing enforces that: the
heartbeat thread keeps a job alive whose parser hangs, and `timeout_at` is stored but
never read. In `WebBridge` a thread that polls a RAG job which a crash has lost waits
for ever; `EveryReviewEnds` names that case, and the run shows that it is the only one.

## 5. Proofs

The theorems hold for every value of the constants that satisfies the assumptions of its
module: every number of advertisements, jobs, keys, reviews, threads, workers, lanes,
runs, catalogs, standards, files, chunks and processes, every retry schedule, and every
number of faults.

| Module | Theorem | Statement |
| --- | --- | --- |
| `ReviewJobs_proofs` | `TypesHold` | `Spec => []TypeOK` |
| | `JobAndReviewAgree` | `Spec => []JobReviewAgree` |
| | `OneActiveReview` | `Spec => []OneActiveReviewPerAd` |
| | `CheckpointsCohere` | `Spec => []CheckpointCoherent` |
| | `DeadLettersAreSound` | `Spec => []DeadLetterSound` |
| | `AdStatusIsTheLatest` | `Spec => []AdStatusFollows` |
| | `LeaseHolds` | `Spec => LeaseFencesOthers`, assuming `DistinctWorkerIds` |
| | `RowsImplementLifecycle` | `Spec => ImplementsLifecycle` |
| `RagJobs_proofs` | `TypesHold` | `Spec => []TypeOK` |
| | `ResultsAreAsStated` | `Spec => []ResultAsStated` |
| | `FilesImplementLifecycle` | `Spec => ImplementsLifecycle` |
| `WebBridge_proofs` | `TypesHold` | `Spec => []TypeOK` |
| | `NothingIsForgotten` | `Spec => []NoReviewForgotten` |
| | `AnswersSurvive` | `Spec => []AnswersAreDurable` |
| | `ReviewsEndOnce` | `Spec => EndsOnce` |
| | `AdsShowTheirNewest` | `Spec => []LatestIsNewest` |
| `RagPipeline_proofs` | `SearchesOwnRules` | `Spec => []SearchesAreWhole` |
| | `IndexesInUseAreLeftAlone` | `Spec => RunningIndexIsLeftAlone` |
| | `AllOfIsMonotone`, `AnyOfIsMonotone`, `NegatedAndBranchAreMonotone` | resolving unknown leaves resolves a join or leaves it, for any number of leaves |
| | `AnyOfIsDual` | the two joins are each other's negation |
| `Standards_proofs` | `Types` | `Spec => []TypeOK` |
| | `StandardsKeepTheirHistories` | `Spec => []HistoriesStand` |
| | `RowsTellTheIndexes` | `Spec => []IndexesFollowRows` |
| `Sessions_proofs` | `Types` | `Spec => []TypeOK` |
| | `LoginsKeepOneSession` | `Spec => []OneSessionPerLogin` |
| `Advertisements_proofs` | `Types` | `Spec => []TypeOK`, assuming `UploadsAreFiles` |
| | `RegistrationsHold` | `Spec => []RegistrationsStand`, assuming `UploadsAreFiles` |
| `SupportOutputs_proofs` | `Types` | `Spec => []TypeOK`, assuming `RightsAreOfReviews` |
| | `ReportsShowOneMoment` | `Spec => []ReportsAreOneSnapshot`, likewise |
| | `QuestionsStayFound` | `Spec => []QuestionsAreFound`, likewise |

All safety properties of the runs `takeover`, `requests`, `rag` and `bridge` are among
them, and in the other runs those of `RuleIndex`, `Standards`, `Sessions`,
`Advertisements` and `SupportOutputs`. Every proof is laid out alike: an inductive
invariant, one lemma per action or group of actions with a step per conjunct that the
action can disturb, and theorems that combine them with PTL.

**Assumptions.** `ConstantsAssumption` (`RuleIndexAssumption`) of each module types the
constants and says that `None` is no value of another kind. `WebBridge` also takes
the reviews as a finite set, so that there is a highest round and `restore` can put them
in order; its threads may be any set. `Standards` assumes periods that begin before they
end (`DatesAreOrdered`, which the database enforces), a text with chunks
(`ChunksAssumption`) and a free name for the absence of a standard or a source
(`NoneIsFree`), `Sessions` a threshold that is a number.
`UploadsAreFiles` and `RightsAreOfReviews` are hypotheses of the theorems about
`Advertisements` and `SupportOutputs`, which are only instantiated by their run;
`MCOutputs` checks them of its values. The second says that users are allowed reviews,
that reviewers are users and that a suggestion is about a review. Nothing assumes
a bound on faults, so the `Max...` constants are arbitrary numbers in every theorem.

The lease is `locked_by = worker_id`, so it can tell two processes apart only if their
ids differ. `settings.py:21` gives `worker_id` the default `worker-1` and nothing
refuses a second process with the same id; `LeaseHolds` assumes `DistinctWorkerIds`, and
no other theorem does. The others about `ReviewJobs` hold even for workers that share
their ids.

**`ReviewJobs`: rows.** None of the properties is inductive as it stands.
`IInv == TypeOK /\ WorkersBusy /\ ClientsBusy /\ JobReviewAgree /\ ActiveIsLatest` is:

* `WorkersBusy`: a worker that is past its pop has a task, and the task is a job.
  Without it the row a transaction names need not exist, and not even `TypeOK` is kept.
* `ClientsBusy`: an API thread that is about to insert holds an advertisement and a job
  id, nobody has inserted that id and no other thread holds it. Without it `Add` could
  overwrite a review that is running.
* `ActiveIsLatest`: the job that is not closed is the one of the advertisement's latest
  review. `OneActiveReviewPerAd` follows, as two active jobs of one advertisement are
  both its latest.

The refinement maps every action to one step of the lifecycle or to a stutter, using
`IInv` for the guards of the abstract step: `Add` is a `Submit` because the unique index
on reviews, by `JobReviewAgree`, is also a guard on the jobs' phases.

**`ReviewJobs`: checkpoints.** `CInv` adds to `IInv` what the rows owe to the processes:

* `StagesReached`: a process that is past a stage finds what the stage stores, stored,
  even if it has lost its lease. A worker that took over stores the same or finds it,
  and nothing is ever taken back; so the process that completes the job, whichever it
  is, completes it over whole checkpoints.
* `OneSender`: one process at most is about to send the dead letter of a job, the job
  has failed for good and no letter was sent. The transaction that closes a job leaves a
  single process at that place.
* `Causes`: only `retry_or_dead_letter` records a transient cause, on a job it closes.
* `LatestIsOwn`: the latest review of an advertisement is one of its own, which is what
  fences a late `complete` of an earlier review from the advertisement's status.

**`RagJobs`.** `IInv == TypeOK /\ Files /\ Locals /\ OnePlace`:

* `Files`: the state of a job, its attempt, its owner and the index agree, and a final
  state tells what the result file of its last attempt holds.
* `Locals`: what each lane, caller, queue entry and the constructor know of the job they
  hold. `Due` is the heart of it: whoever is to submit or begin a job finds it `QUEUED`
  and indexed. The two cases in which a crash leaves a `QUEUED` job to nobody need no
  exception, as `Due` speaks of those who hold a job only.
* `OnePlace`: a job that is in the executor's queue is nowhere else, and neither is one
  that a lane has. Without it two lanes could write one status, and the attempt a lane
  remembers would not be the one in the file. A caller and the restart loop are not
  told apart: the constructor runs before there are callers.

The refinement reads phase and place of a job off these: `InTasks`, `InLane` and
`InCaller` decide who has it, and `OnePlace` makes the abstract place a single one.

**`WebBridge`.** `IInv` has the position of each thread (`ThreadsKnow`), what the work
items may be (`PoolKnows`), no review in two places (`Apart`), every review in progress
in one and in `active` while the process is up (`Tended`), a process that is down with
nothing but its files (`DownIsEmpty`), reviews of advertisements that exist
(`Registered`), the file equal to the memory except for a failure that is being written
(`Saved`), and completed reviews with results in both (`ResultsKept`). Two of
them deserve a word. `Saved` has an exception because `fail()` changes the review before
it persists; the exception says that the file does not call the review completed, which
is what keeps `AnswersAreDurable` over a crash at that point. `ThreadsKnow` admits
`CANCELED` and `DELETED` at every working position, because a thread learns of either
only at its next `stage`; that it then leaves without completing, unless it is paused, is
`EndsOnce`. Only `Pause` leads from `CANCELED` to a review in progress, and by
`ThreadsKnow` only while the process is stopping.
`LatestIsNewest` takes a second invariant on top, `NInv`: the book in memory and the one
in the file both show the newest review (`ShowsNewest`), the file because a crash makes
it the memory. Threads change no round and no advertisement of a review (`SameReviews`);
a request gives a round above all that are left; and deleting the newest review shows
the highest of the others.

**`RuleIndex`.** `IInv == TypeOK /\ MetaIsTrue /\ IndexesAreOwn /\ RunsAreSound`.
`MetaIsTrue`: metadata speaks of vectors made of its own corpus, because it is written
from what a run has in its hands and not from the file. So a run that reads the metadata
of one run and the vectors of another is saved by the checksum, and one that finds both
from one run has its own texts. `IndexesAreOwn`: an index has the mapping of its name
and only rules it is named after; as nothing takes documents away, the number of
documents tells whether it is whole, and a late bulk request cannot change an index that
is. `RunsAreSound` says what each position of a run knows of both.

**`Standards`.** `IInv == TypeOK /\ Versions /\ Indexed /\ Hiding /\ Registered`, four
concerns that lean on each other:

* `Versions`: what an operation has read of a history stays true of it, because versions
  are only added. Two operations that both have added a version have added different ones
  (`SavesApart`); so a row that does not name the newest version is either torn or about
  to be written by the operation that added it.
* `Indexed`: a reindexing knows how far it has come (`Wrote`) and its job is its own
  (`OwnJob`), so a job that is running has a process, unless that one crashed. Nothing
  ever takes a chunk out of what an index holds: deactivation and expiry only hide.
* `Hiding`: a deactivation that nothing overlaps has its standard for itself
  (`Undisturbed`), and after it nobody holds a copy of the row that calls the standard
  active (`Retired`). A later update that read the row reads it retired.
* `Registered`: an operation that carries a row over carries its source with it, or the
  hash was dropped by an update (`Sourced`); the ingestion program that is about to create
  a standard has found none with that source, and no other program creates from files.

**`Sessions`.** `IInv == TypeOK /\ Rooted /\ OneLive /\ Holding /\ Spent /\ Counted`.
`Rooted`: every session descends from a login whose first session is stored, and a
process has found the session of the token it presents. `OneLive` says for pairs of
sessions what the property says with a cardinality: a rotation spends one session in the
transaction that opens the next. `Holding`: the session that an open rotation has taken
is live and nobody else's, because every other update of its row waits; so the
replacement it inserts is the only live session of the login. `Spent`: a revocation that
saw every session of a login leaves none live, and no rotation inserts another
afterwards, as the session it holds would be live in that login. `Counted`:
a process that will write a counter has read one that was reached by refusals, so a late
write of a smaller number can delay a lock only.

**`Advertisements`.** `IInv` is `TypeOK`, the two parts of the property, and

* `Issued`, `Own`: a key is given out once, so what a request has stored and not yet
  registered is in no row, was seen by no transaction and is in no other request's hands.
  Taking it back harms nobody.
* `Steps`: a revision is one file, and while it is inserting its number is the one after
  the last of its advertisement, and it is the only one that revises it. This is the row
  lock, and it makes the numbers an interval.
* `Filed`: the rows are finitely many, a key is of one advertisement, and a visible
  advertisement has its original file. Without the last the next number of a revision
  would not be defined.
* `Returned`: no request will take back the object of a visible file, but where the
  answer to the commit was lost. A deletion hides its advertisement in the transaction
  in which it learns the keys.
* `Checked`: what a transaction did not see when it looked for duplicates it does not see
  later, since rows that come meanwhile have keys it has not seen. So two files of one
  checksum overlap, or one was deleted.

**`SupportOutputs`.** A property of reports that are finished says nothing of one that is
being made, so `IInv` has `RequestsStand`: what a request has in its hands (`OpStands`)
is already what its row will promise. The suggestions it has read are those after the
first n decisions for some n since it began, and stay so, because a later decision is
appended behind them (`PastIsKept`). That they were so when it read them is
`RowsFollowDecisions`: the row of a suggestion says what the last decision on it says,
as both are written in one transaction. A request that has saved the HWPX report holds
its content and its number, and reports are never changed. A question holds a session
that was its user's when it was looked up, and sessions are never changed either
(`MessagesHaveSessions`).

**The joins.** `Kleene` has no state: the theorems are about the operators that
`Judgment` folds over a contract. They are the reason for `VerdictsAreFinal`: a verdict
that a join has given while some leaves are open cannot be turned around by resolving
them. That the whole expression of a contract is monotone follows by induction over its
depth, which is beyond the installed provers; `VerdictsAreFinal` checks it for the
contracts of the run.

**Only model-checked.** Liveness, as fairness and `ENABLED` are outside the prover's
reach; the modules `ConditionContracts`, `Judgment`, `EvidenceWindow`,
`RagSelection` and `EvidenceViews`, which declare recursive operators and are out of the
prover's reach for that; what a recursive definition or a fold computes for every input,
such as the groups `RequestRun` makes of its items. The properties of
`Validation`, `RequestRun`, `ParserRun`, `RegulationCollection`, `ReviewEngine` and
`EvidenceIntake` are within its reach and not proved; section 8 names the first. `RegulationText` runs one tool over one input and has nothing to prove but
what its folds compute.

## 6. What the code does otherwise than documented

The first nine have a configuration that ends in the counterexample (`tlc -config`);
`PROJECT.json` quotes the sentence and the lines of each.

| Configuration | Document | Code |
| --- | --- | --- |
| `ReviewJobs_promises`: `StorageFaultIsRetried` | ADR-0059: a temporary object-store error is retried | an `OSError` of the source loader or of `put` closes the job at its first attempt (`jobs.py:376`, `570`) |
| `ReviewJobs_promises`: `RevisionIsReviewed` | functional specification M8: the revised file is registered, then reviewed in a new round | `claim` reads the oldest advertisement file (`postgres.py:206`), in every round |
| `ReviewJobs_promises`: `AdShowsFailure` | functional specification: an advertisement whose review failed is `REVIEW_FAILED` | the three final-failure transactions do not write `advertisements` (`postgres.py:849`) |
| `RagJobs_restart` | RAG_PIPELINE.md: work under way at a restart becomes `INTERRUPTED` and can be retried | a job that is `QUEUED` for its next attempt is neither resumed nor retryable (`service.py:359`) |
| `WebBridge_promises`: `CancelIsNotFailure` | docstring of `ReviewCanceled`: a cancellation never becomes a failure | `fail()` overwrites a cancelled review with `FAILED` (`operational_web_bridge.py:1325`) |
| `WebBridge_promises`: `DeletedHasStopped` | functional specification and the 409 text of `delete_review`: no deletion before the interruption is complete | `cancel` removes the id from `active` at once, so a review is deleted while its thread still works (`operational_web_bridge.py:1278`) |
| `RagSelection_delivery` | RAG_PIPELINE.md: a run over several products keeps them apart | the tiers of the last advertisement are looked up for all of them, after the model was paid (`run_operational_e2e.py:2033`) |
| `Documents_rerun` | `suggestions.py:1`: suggestions are deterministic and bound to evidence | a worker that replaces another keeps the stored rows and takes status and suggestions from its own (`postgres.py:552`) |
| `Standards_collapse` | `collect_safety.py:11`: the gate is passed before a download | the law service's files are downloaded, and removed on failure, before it (`law_scraper.py:575`) |
| - | `test_source_checks.py:217`: a cited line is a source for an exclusion | the compact form clears the evidence, so it never stands (`run_gemma_exhaustive_dgx.py:840`; `CitedExclusionStands`) |
| - | guardrail of the recovery: it never edits verdicts | it leaves the satisfaction relations out (`recover_operational_judgments.py:259`; `RecoveryKeepsVerdicts`) |
| - | FREEZE_BEFORE_PREDICTION names what the requests were made of | sources are hashed when it is written (`run_operational_e2e.py:1117`; `FrozenIsUsed`) |
| - | `reading_quality.py:193`: unaffected findings stay intact | the guard makes a violation of any remaining failed check, whatever the join (`226`) |
| - | ADR-0087: product evidence and facts reach the selection | `routing_context` does not copy them (`run_operational_e2e.py:534`) |
| - | - | a rule index that was loaded in part is refused for ever (`hybrid_rule_retrieval.py:413`; `Check` of `RuleIndex` stops such a run) |
| - | ADR-0070: chunks of an expired or replaced version are excluded | only their dates keep them out of a search (`standards_postgres.py:83`) |
| - | `reference_ingestion.py:85`: files are deduplicated | an update through the API drops the hash (`292`) |
| - | - | a crash between version and row refuses every later update (`standards.py:484`) |
| - | database specification: judgments are told apart by their version | two may get the same one (`validation.py:285`) |
| - | API specification: `LATEST_COMPLETED` takes the advertisement that is linked | no dataset is ever linked (`validation.py:602`) |
| - | - | an excluded dataset with a label is counted as excluded and scored (`validation.py:821`) |
| - | ADR-0074: the snapshot has what a metric needs | relevance and status of evidence are not in it (`validation.py:1041`) |
| - | system prompt, `run_gemma_exhaustive_dgx.py:203`: no `CONFIRMED_METADATA` for what must be printed in the advertisement | for a duty in prose such a claim is accepted with nothing confirmed, as the compiled check has no `evidence` field (`condition_contracts.py:115`, `run_gemma_exhaustive_dgx.py:1388`) |
| - | `run_gemma_exhaustive_dgx.py:720`: the value of a `CONFIRMED_BOOLEAN` adapter is applied | `computed_check` has answered before and leaves the duty open (`review_program.py:151`) |
| - | - | a revocation that begins while a rotation is open leaves its replacement live (`repository.py:416`; `RevokeAll` of `Sessions`) |
| - | - | the record of an administrative rule may have the number of one version and the text of the next (`law_scraper.py:196`) |
| - | - | a commit whose answer is lost keeps the rows and deletes the objects (`services.py:328`) |
| - | functional specification: a repeated file is reported | two that overlap are both registered (`repository.py:431`) |
| - | - | the version key of a check and that of a collection never agree (`kofia_scraper.py:128`) |
| - | - | an unreadable record is no base for the gate (`collect_safety.py:51`) |
| - | `build_review.py`: attachments are made anew every time | only when there were some before (`250`) |
| - | `split_articles`: addenda do not shift what follows | tables are kept under the last addendum; the association's are no addenda at all (`diff_report.py:103`) |
| - | `diff_report.py:83`: the heading above the addenda passes | it is filed under the first of them |

## 7. Not modelled, and why

* What parsers, rules, search and language models compute, and the scores of a search:
  data, not control; every outcome the control can see is a choice in the models. The
  reading of coordinates and of native HWP structure, of HTML and HWP pages of
  regulations, and the extraction of metadata by a model belong here.
* Parser services: HTTP shells around OCR and layout programs.
* The object removal of `delete_expired`, `read_privileged` and retention holds: planned.
* Authorisation, read-only listings, audit events, token formats and password hashes:
  single transactions or none, which do not interact with the rest.
* Decisions and layouts of the web bridge; the frontend; infrastructure and governance
  scripts, which are configuration and text. `regulation_collection/db.py` is a schema
  that no code of the repository fills.
* An endless series of crashes: `recover_stale` counts no retry, so a job that kills its
  worker is claimed for ever (`postgres.py:878`). Faults are bounded in every run.

Known limits of the code that the models show or contain and no property covers, as
nothing in the repository says what should happen:

* `complete` overwrites `REVISED`, which `add_revision` has written while the review was
  running (`postgres.py:779`).
* Two requests read the same maximum round; the loser is refused by the index on active
  reviews only while the winner is active (`reviews.py:223`).
* The heartbeat thread keeps a job `RUNNING` whose parser never returns (`jobs.py:607`).
* A pipeline that is killed at its timeout is failed at once: no output recovery and no
  other attempt follow (`service.py:656`).
* The pause handler writes `RETRY_PENDING` over a cancellation that came between the
  check and the shutdown (`operational_web_bridge.py:1985`), so that the next process
  completes a cancelled review (`EndsOnce` admits this and nothing else), and the failure of a
  cancelled review sets the status of an advertisement whose newer review is running
  (`2011`).
* `delete_expired` removes the object before its row is marked, and `put` stores the
  object before the row (`artifacts.py:204`).

## 8. Plan

1. `RequestRun`: `CallsAuditedOnce` and `AnsweredOnceInOrder` for every number of items
   and threads. It needs the partition of the items among the tasks of the stacks, the
   calls in flight and the checkpoint as an invariant.
2. `Validation`: an evaluation scores what was current (`EvaluationIsCurrent`).
3. `ArtifactStore`: `put`, `read_privileged`, `delete_expired`, holds, with a crash
   between object and row; composed with `ReviewJobs!PutArtifact`.
