------------------------------ MODULE ReviewJobs ------------------------------
(***************************************************************************)
(* The asynchronous review job of the product stack: API threads that      *)
(* request a review (apps/backend reviews.py), a Redis list that wakes     *)
(* workers (queue.py), and worker processes that claim, process, retry,    *)
(* finish and recover jobs (apps/worker jobs.py, runtime.py) over          *)
(* PostgreSQL, the only source of truth (postgres.py).  One action is one  *)
(* database transaction, one Redis command or one object-store call.       *)
(*                                                                         *)
(* A job and its review are created together and are one element of Job.   *)
(* Time is kept as ages that saturate just above the threshold they are    *)
(* compared with, so no clock has to be bounded.                           *)
(***************************************************************************)
EXTENDS Naturals, Sequences, FiniteSets

CONSTANTS
  Ad,           \* advertisements
  Job,          \* review jobs (each with its review) that may be created
  Client,       \* API threads
  Worker,       \* worker processes
  WorkerId,     \* the worker_id setting of each process
  Output,       \* what a run of the parsers may select as its document
  Unreadable,   \* the outputs whose confidence status is not READABLE
  Verdict,      \* check_required as the result engine may compute it
  Suggesting,   \* the jobs requested with include_suggestion
  RetryDelays,  \* RETRY_DELAYS, in ticks
  StaleAfter,   \* stale_after, in ticks
  MaxQueue,     \* bound: recovery waits while the Redis list is this long
  MaxFiles,     \* bound: files of an advertisement, the original and its revisions
  MaxFaults,    \* bound: crashes, outages and stalls of one behaviour
  None          \* SQL NULL / Python None

VARIABLES
  job,        \* app.review_jobs
  review,     \* app.reviews
  step,       \* app.review_steps: the status of every step of a job
  saved,      \* what a run leaves behind: artifact, text blocks, items, suggestions
  ad,         \* app.advertisements
  queue,      \* the Redis list
  deadLetter, \* the dead-letter list, as the number of messages per job
  api,        \* local state of the API threads
  worker,     \* local state of the worker processes
  faults      \* faults spent so far

vars == <<job, review, step, saved, ad, queue, deadLetter, api, worker,
          faults>>

MaxRetries == Len(RetryDelays)
WorkerIds == {WorkerId[w] : w \in Worker}

ASSUME ConstantsAssumption ==
  /\ WorkerId \in [Worker -> WorkerIds]
  /\ None \notin WorkerIds \cup Output \cup Job \cup Ad \cup Worker \cup BOOLEAN
  /\ Unreadable \subseteq Output
  /\ Verdict \subseteq BOOLEAN
  /\ Suggesting \subseteq Job
  /\ RetryDelays \in Seq(Nat)
  /\ StaleAfter \in Nat
  /\ MaxQueue \in Nat
  /\ MaxFiles \in Nat \ {0}
  /\ MaxFaults \in Nat

-----------------------------------------------------------------------------
(* Statuses, as ACTIVE_JOB_STATUSES, ACTIVE_REVIEW_STATUSES and the CHECK  *)
(* constraints of migration 0004 list them.  "NONE" is a row not inserted. *)

Claimable == {"PENDING", "RETRY_PENDING", "STALE"}
ActiveJob == Claimable \cup {"RUNNING"}
TerminalJob == {"COMPLETED", "FAILED_FINAL"}
ActiveReview == {"ANALYSIS_REQUESTED", "ANALYZING"}
Succeeded == {"CHECK_REQUIRED", "REVIEW_COMPLETED"}

\* FILE_PREPROCESSING, OCR_EXTRACTION, LAYOUT_ANALYSIS, RULE_REVIEW,
\* RAG_REVIEW, RESULT_GENERATION by their sequence_no.
Step == 1 .. 6

\* The program counter of ParserJobProcessor.process.  Each value names the
\* call the process makes next.
AdvanceStep == [ocr |-> 2, layout |-> 3, rule |-> 4, rag |-> 5, result |-> 6]
AdvanceNext == [ocr |-> "parse", layout |-> "put", rule |-> "rag",
                rag |-> "result", result |-> "results"]
Advancing == {"ocr", "layout", "rule", "rag", "result"}
Stage == Advancing \cup {"put", "persist", "results", "suggest", "complete"}
\* The heartbeat thread runs from the claim to the finally clause.
Processing == Stage \cup {"parse", "retry", "fail"}
WorkerPC == Processing \cup {"idle", "claim", "load", "claimError", "dead", "recover"}
Cause == {"none", "transient", "permanent", "storage", "missing",
          "database", "conflict", "lease"}

NoJob == [status |-> "NONE", lockedBy |-> None, retries |-> 0, wait |-> 0,
          beatAge |-> 0, leaseAge |-> 0, cause |-> "none"]
\* files: ghost, how many files the advertisement had when the review was asked
\* for; source: the file_id of the stored blocks, 0 without blocks.
NoReview == [status |-> "NONE", ad |-> None, files |-> 0]
NoResult == [artifact |-> None, source |-> 0, selected |-> None, items |-> None,
             suggested |-> FALSE]
NewAd == [latest |-> None, status |-> "UPLOADED", life |-> "live", files |-> 1]
IdleClient == [pc |-> "idle", ad |-> None, job |-> None]
IdleWorker == [pc |-> "idle", task |-> None, parsed |-> None, check |-> FALSE,
               cause |-> "none", outbox |-> {}]

Init ==
  /\ job = [j \in Job |-> NoJob]
  /\ review = [j \in Job |-> NoReview]
  /\ step = [j \in Job |-> [s \in Step |-> "PENDING"]]
  /\ saved = [j \in Job |-> NoResult]
  /\ ad = [a \in Ad |-> NewAd]
  /\ queue = <<>>
  /\ deadLetter = [j \in Job |-> 0]
  /\ api = [c \in Client |-> IdleClient]
  /\ worker = [w \in Worker |-> IdleWorker]
  /\ faults = 0

\* A crash, an outage or a stall: there are MaxFaults of them.
Fault == faults < MaxFaults /\ faults' = faults + 1

jobTables == <<job, review, step, saved>>
workerSide == <<worker, deadLetter>>
apiSide == <<api, ad>>

-----------------------------------------------------------------------------
(* The API threads.                                                        *)

\* active_review_id reads the job, uk_reviews_active_advertisement the review.
HasActiveJob(a) == \E j \in Job : review[j].ad = a /\ job[j].status \in ActiveJob
\* Mutant: there is no unique index.
NoActiveIndex(a) == FALSE
HasActiveReview(a) == \E j \in Job : review[j].ad = a /\ review[j].status \in ActiveReview

\* ReviewService.request (and rerun, which ends in it) up to the transaction:
\* the advertisement is readable and has no active job; a job id is drawn.
Request(c) ==
  /\ api[c].pc = "idle"
  /\ \E a \in Ad, j \in Job :
       /\ ad[a].life = "live"
       /\ ~HasActiveJob(a)
       /\ job[j].status = "NONE"
       /\ \A d \in Client : api[d].job # j
       /\ api' = [api EXCEPT ![c] = [pc |-> "add", ad |-> a, job |-> j]]
  /\ UNCHANGED <<jobTables, workerSide, ad, queue, faults>>

\* PostgresReviewRepository.add.  A fresh leaseAge stands for created_at,
\* which the reconciliation of PENDING jobs also compares with stale_before.
Add(c) ==
  LET a == api[c].ad
      j == api[c].job IN
  /\ api[c].pc = "add"
  /\ ~HasActiveReview(a)
  /\ job' = [job EXCEPT ![j].status = "PENDING"]
  /\ review' = [review EXCEPT ![j] = [status |-> "ANALYSIS_REQUESTED", ad |-> a,
                                        files |-> ad[a].files]]
  /\ ad' = [ad EXCEPT ![a] = [@ EXCEPT !.latest = j, !.status = "ANALYSIS_REQUESTED"]]
  /\ api' = [api EXCEPT ![c].pc = "publish"]
  /\ UNCHANGED <<step, saved, workerSide, queue, faults>>

\* The unique index refuses the row: 409 REVIEW_ALREADY_RUNNING.
AddRefused(c) ==
  /\ api[c].pc = "add"
  /\ HasActiveReview(api[c].ad)
  /\ api' = [api EXCEPT ![c] = IdleClient]
  /\ UNCHANGED <<jobTables, workerSide, ad, queue, faults>>

Publish(c) ==
  /\ api[c].pc = "publish"
  /\ queue' = Append(queue, api[c].job)
  /\ api' = [api EXCEPT ![c] = IdleClient]
  /\ UNCHANGED <<jobTables, workerSide, ad, faults>>

\* Redis refuses the push, or the API process dies after the commit.
PublishLost(c) ==
  /\ api[c].pc = "publish"
  /\ Fault
  /\ api' = [api EXCEPT ![c] = IdleClient]
  /\ UNCHANGED <<jobTables, workerSide, ad, queue>>

\* add_revision: the revised file joins the files of the advertisement.
Revise(a) ==
  /\ ad[a].life = "live" /\ ad[a].files < MaxFiles
  /\ ad' = [ad EXCEPT ![a] = [@ EXCEPT !.files = ad[a].files + 1, !.status = "REVISED"]]
  /\ UNCHANGED <<jobTables, workerSide, api, queue, faults>>

\* AdvertisementService.delete marks the row deleted whatever its reviews do ...
DeleteAd(a) ==
  /\ ad[a].life = "live"
  /\ ad' = [ad EXCEPT ![a].life = "deleted"]
  /\ UNCHANGED <<jobTables, workerSide, api, queue, faults>>

\* ... and then removes the stored files.
RemoveFiles(a) ==
  /\ ad[a].life = "deleted"
  /\ ad' = [ad EXCEPT ![a].life = "gone"]
  /\ UNCHANGED <<jobTables, workerSide, api, queue, faults>>

-----------------------------------------------------------------------------
(* Row changes shared by the transactions of PostgresJobRepository.        *)

\* Mutants: the guard without locked_by, and no guard.
RunsUnderAnyLock(w, j) == job[j].status = "RUNNING"
Unguarded(w, j) == TRUE
\* The guard WHERE job_status='RUNNING' AND locked_by=:worker.
Owns(w, j) == job[j].status = "RUNNING" /\ job[j].lockedBy = WorkerId[w]

\* Mutant: the lock is not released.
KeepsLock(row, status) == [row EXCEPT !.status = status, !.wait = 0,
                                      !.beatAge = 0, !.leaseAge = 0]
\* A row that leaves the statuses in which its ages are read keeps none.
Settled(row, status) ==
  [status |-> status, lockedBy |-> None, retries |-> row.retries, wait |-> 0,
   beatAge |-> 0, leaseAge |-> 0, cause |-> row.cause]

FailRunning(j) == [s \in Step |-> IF step[j][s] = "RUNNING" THEN "FAILED" ELSE step[j][s]]

\* The three updates of fail_final, fail_claim_error and the exhausted branch
\* of retry_or_dead_letter.
Finalize(j, cause) ==
  /\ job' = [job EXCEPT ![j] = [Settled(job[j], "FAILED_FINAL") EXCEPT !.cause = cause]]
  /\ review' = [review EXCEPT ![j].status = "REVIEW_FAILED"]
  /\ step' = [step EXCEPT ![j] = FailRunning(j)]

Goto(w, pc) == worker' = [worker EXCEPT ![w].pc = pc]
Leave(w) == worker' = [worker EXCEPT ![w] = IdleWorker]
\* An exception that reaches a fail_final handler of process.
Raise(w, cause) == worker' = [worker EXCEPT ![w] = [@ EXCEPT !.pc = "fail", !.cause = cause]]
\* One that claim raises.
RaiseInClaim(w, cause) ==
  worker' = [worker EXCEPT ![w] = [@ EXCEPT !.pc = "claimError", !.cause = cause]]

At(w, pc) == worker[w].pc = pc
Task(w) == worker[w].task

-----------------------------------------------------------------------------
(* One delivery, from the pop to the claim.                                *)

Pop(w) ==
  /\ At(w, "idle") /\ queue # <<>>
  /\ worker' = [worker EXCEPT ![w] = [@ EXCEPT !.pc = "claim", !.task = Head(queue)]]
  /\ queue' = Tail(queue)
  /\ UNCHANGED <<jobTables, apiSide, deadLetter, faults>>

CanClaim(j) == job[j].status \in Claimable /\ job[j].wait = 0

Claim(w) ==
  LET j == Task(w) IN
  /\ At(w, "claim") /\ CanClaim(j)
  /\ job' = [job EXCEPT ![j] = [Settled(job[j], "RUNNING") EXCEPT !.lockedBy = WorkerId[w]]]
  /\ review' = [review EXCEPT ![j].status = "ANALYZING"]
  /\ step' = [step EXCEPT ![j][1] = "RUNNING"]
  /\ Goto(w, "load")
  /\ UNCHANGED <<saved, apiSide, deadLetter, queue, faults>>

\* DUPLICATE_IGNORED: not claimable, or not yet due.
ClaimIgnored(w) ==
  /\ At(w, "claim") /\ ~CanClaim(Task(w))
  /\ Leave(w)
  /\ UNCHANGED <<jobTables, apiSide, deadLetter, queue, faults>>

\* The database refuses the claim transaction: it rolls back.
ClaimFails(w) ==
  /\ At(w, "claim") /\ Fault
  /\ RaiseInClaim(w, "database")
  /\ UNCHANGED <<jobTables, apiSide, deadLetter, queue>>

\* claim selects the file of type ADVERTISEMENT with the least created_at;
\* files are numbered in that order.
SourceFile(a) == 1

\* The source file is read after the claim has committed and before the
\* heartbeat thread starts.
LoadSource(w) ==
  /\ At(w, "load") /\ ad[review[Task(w)].ad].life # "gone"
  /\ Goto(w, "ocr")
  /\ UNCHANGED <<jobTables, apiSide, deadLetter, queue, faults>>

SourceMissing(w) ==
  /\ At(w, "load") /\ ad[review[Task(w)].ad].life = "gone"
  /\ RaiseInClaim(w, "missing")
  /\ UNCHANGED <<jobTables, apiSide, deadLetter, queue, faults>>

\* An object-store outage raises OSError here.
LoadSourceFails(w) ==
  /\ At(w, "load") /\ Fault
  /\ RaiseInClaim(w, "storage")
  /\ UNCHANGED <<jobTables, apiSide, deadLetter, queue>>

\* Mutant: fail_claim_error does not look at the job.
MayFailAny(w, j) == TRUE
MayFail(w, j) == Owns(w, j) \/ job[j].status \in Claimable

\* fail_claim_error finalises a job this worker runs, and also one that
\* nobody runs.
FailClaimError(w) ==
  LET j == Task(w) IN
  /\ At(w, "claimError")
  /\ IF MayFail(w, j)
       THEN Finalize(j, worker[w].cause) /\ Goto(w, "dead")
       ELSE Leave(w) /\ UNCHANGED <<job, review, step>>
  /\ UNCHANGED <<saved, apiSide, deadLetter, queue, faults>>

-----------------------------------------------------------------------------
(* Processing a claimed job.                                               *)

\* The advance transaction; without the lease it raises.
Advance(w) ==
  LET j == Task(w)
      n == AdvanceStep[worker[w].pc] IN
  /\ worker[w].pc \in Advancing
  /\ IF Owns(w, j)
       THEN /\ job' = [job EXCEPT ![j].beatAge = 0]
            /\ step' = [step EXCEPT ![j] =
                 [s \in Step |-> IF s < n THEN "COMPLETED"
                                 ELSE IF s = n THEN "RUNNING" ELSE step[j][s]]]
            /\ Goto(w, AdvanceNext[worker[w].pc])
       ELSE Raise(w, "lease") /\ UNCHANGED <<job, step>>
  /\ UNCHANGED <<review, saved, apiSide, deadLetter, queue, faults>>

\* router.parse_with_attempts; a model-backed parser may answer differently
\* each time.
Parse(w) ==
  /\ At(w, "parse")
  /\ \E o \in Output :
       worker' = [worker EXCEPT ![w] = [@ EXCEPT !.pc = "layout", !.parsed = o]]
  /\ UNCHANGED <<jobTables, apiSide, deadLetter, queue, faults>>

ParseFails(w) ==
  /\ At(w, "parse")
  /\ \/ worker' = [worker EXCEPT ![w] = [@ EXCEPT !.pc = "retry", !.cause = "transient"]]
     \/ Raise(w, "permanent")
  /\ UNCHANGED <<jobTables, apiSide, deadLetter, queue, faults>>

\* Mutant: the last writer of an artifact id wins.
OverwriteArtifact(w) ==
  /\ At(w, "put")
  /\ saved' = [saved EXCEPT ![Task(w)].artifact = worker[w].parsed]
  /\ Goto(w, "persist")
  /\ UNCHANGED <<job, review, step, apiSide, deadLetter, queue, faults>>

\* ArtifactStore.put under an id derived from job and attempt: the first
\* writer decides, whether or not it still has the lease.
PutArtifact(w) ==
  LET j == Task(w) IN
  /\ At(w, "put")
  /\ IF saved[j].artifact \in {None, worker[w].parsed}
       THEN /\ saved' = [saved EXCEPT ![j].artifact = worker[w].parsed]
            /\ Goto(w, "persist")
       ELSE Raise(w, "conflict") /\ UNCHANGED saved
  /\ UNCHANGED <<job, review, step, apiSide, deadLetter, queue, faults>>

\* An object-store outage is an OSError, not a TransientParserError.
PutFails(w) ==
  /\ At(w, "put") /\ Fault
  /\ Raise(w, "storage")
  /\ UNCHANGED <<jobTables, apiSide, deadLetter, queue>>

\* persist_selected: blocks are written once; a checkpoint of the same output
\* is reused.
PersistSelected(w) ==
  LET j == Task(w) IN
  /\ At(w, "persist")
  /\ IF ~Owns(w, j) THEN Raise(w, "lease") /\ UNCHANGED saved
     ELSE IF /\ saved[j].artifact = worker[w].parsed
             /\ saved[j].selected \in {None, worker[w].parsed}
       THEN /\ saved' = [saved EXCEPT ![j] = [@ EXCEPT !.selected = worker[w].parsed,
                                                      !.source = SourceFile(review[j].ad)]]
            /\ Goto(w, "rule")
       ELSE Raise(w, "conflict") /\ UNCHANGED saved
  /\ UNCHANGED <<job, review, step, apiSide, deadLetter, queue, faults>>

\* The end of ReviewResultEngine.execute, whose verdict depends on an LLM, and
\* persist_results: item ids are a function of the review and the document, so
\* items that are there are kept, and the verdict of this run goes on.
PersistResults(w) ==
  LET j == Task(w) IN
  /\ At(w, "results")
  /\ IF Owns(w, j)
       THEN \E v \in Verdict :
              /\ saved' = [saved EXCEPT ![j].items = IF @ = None THEN v ELSE @]
              /\ worker' = [worker EXCEPT ![w] = [@ EXCEPT
                   !.check = v, !.pc = IF j \in Suggesting THEN "suggest" ELSE "complete"]]
       ELSE Raise(w, "lease") /\ UNCHANGED saved
  /\ UNCHANGED <<job, review, step, apiSide, deadLetter, queue, faults>>

PersistSuggestions(w) ==
  LET j == Task(w) IN
  /\ At(w, "suggest")
  /\ IF Owns(w, j)
       THEN saved' = [saved EXCEPT ![j].suggested = TRUE] /\ Goto(w, "complete")
       ELSE Raise(w, "lease") /\ UNCHANGED saved
  /\ UNCHANGED <<job, review, step, apiSide, deadLetter, queue, faults>>

ReviewStatus(output, check) ==
  IF output \in Unreadable \/ check THEN "CHECK_REQUIRED" ELSE "REVIEW_COMPLETED"

Complete(w) ==
  LET j == Task(w)
      status == ReviewStatus(worker[w].parsed, worker[w].check) IN
  /\ At(w, "complete")
  /\ IF Owns(w, j)
       THEN /\ job' = [job EXCEPT ![j] = Settled(job[j], "COMPLETED")]
            /\ review' = [review EXCEPT ![j].status = status]
            /\ step' = [step EXCEPT ![j] = [s \in Step |-> "COMPLETED"]]
            /\ ad' = [ad EXCEPT ![review[j].ad].status = status]
            /\ Leave(w)
       ELSE Raise(w, "lease") /\ UNCHANGED <<job, review, step, ad>>
  /\ UNCHANGED <<saved, api, deadLetter, queue, faults>>

-----------------------------------------------------------------------------
(* The handlers of process.                                                *)

\* retry_or_dead_letter clears enqueued_at, so the job is due for publication
\* as soon as its delay is over.
Retry(w) ==
  LET j == Task(w)
      n == job[j].retries + 1 IN
  /\ At(w, "retry")
  /\ IF ~Owns(w, j) THEN Leave(w) /\ UNCHANGED <<job, review, step>>
     ELSE IF n > MaxRetries
       THEN Finalize(j, worker[w].cause) /\ Goto(w, "dead")
       ELSE /\ job' = [job EXCEPT ![j] =
                 [Settled(job[j], "RETRY_PENDING") EXCEPT
                    !.retries = n, !.wait = RetryDelays[n], !.leaseAge = StaleAfter]]
            /\ step' = [step EXCEPT ![j][2] = "RETRY_PENDING"]
            /\ Leave(w) /\ UNCHANGED review
  /\ UNCHANGED <<saved, apiSide, deadLetter, queue, faults>>

FailFinal(w) ==
  LET j == Task(w) IN
  /\ At(w, "fail")
  /\ IF Owns(w, j)
       THEN Finalize(j, worker[w].cause) /\ Goto(w, "dead")
       ELSE Leave(w) /\ UNCHANGED <<job, review, step>>
  /\ UNCHANGED <<saved, apiSide, deadLetter, queue, faults>>

DeadLetter(w) ==
  /\ At(w, "dead")
  /\ deadLetter' = [deadLetter EXCEPT ![Task(w)] = @ + 1]
  /\ Leave(w)
  /\ UNCHANGED <<jobTables, apiSide, queue, faults>>

\* Redis refuses the dead letter; the row is final already.
DeadLetterLost(w) ==
  /\ At(w, "dead") /\ Fault
  /\ Leave(w)
  /\ UNCHANGED <<jobTables, apiSide, deadLetter, queue>>

\* A database call of the try block fails: the generic handler runs.
StepFails(w) ==
  /\ worker[w].pc \in Stage \ {"put"} /\ Fault
  /\ Raise(w, "database")
  /\ UNCHANGED <<jobTables, apiSide, deadLetter, queue>>

\* The handler's own transaction fails: the exception leaves process, and
\* run_forever logs it.
HandlerFails(w) ==
  /\ worker[w].pc \in {"claimError", "retry", "fail"} /\ Fault
  /\ Leave(w)
  /\ UNCHANGED <<jobTables, apiSide, deadLetter, queue>>

\* The process dies and is started again (restart: unless-stopped).
Crash(w) ==
  /\ ~At(w, "idle") /\ Fault
  /\ Leave(w)
  /\ UNCHANGED <<jobTables, apiSide, deadLetter, queue>>

-----------------------------------------------------------------------------
(* Heartbeats, time and recovery.                                          *)

\* The heartbeat thread runs from the end of claim to the finally clause.
Heartbeat(w) ==
  LET j == Task(w) IN
  /\ worker[w].pc \in Processing
  /\ Owns(w, j) /\ job[j].beatAge > 0
  /\ job' = [job EXCEPT ![j].beatAge = 0]
  /\ UNCHANGED <<review, step, saved, workerSide, apiSide, queue, faults>>

Stale(j) == job[j].status = "RUNNING" /\ job[j].beatAge > StaleAfter
\* Mutant: a job whose retry is due is not published again.
OverdueButRetry(j) ==
  CanClaim(j) /\ job[j].leaseAge = StaleAfter /\ job[j].status # "RETRY_PENDING"
Overdue(j) == CanClaim(j) /\ job[j].leaseAge = StaleAfter

\* recover_stale: RUNNING rows without a recent heartbeat become STALE with
\* enqueued_at NULL, and every row due for publication gets a new enqueued_at.
\* It counts no retry.
Recover(w) ==
  LET stale == {j \in Job : Stale(j)}
      due == stale \cup {j \in Job : Overdue(j)} IN
  /\ At(w, "idle") /\ due # {}
  /\ Len(queue) + Cardinality(due) <= MaxQueue
  /\ job' = [j \in Job |-> IF j \in stale THEN Settled(job[j], "STALE")
                           ELSE IF j \in due THEN [job[j] EXCEPT !.leaseAge = 0]
                           ELSE job[j]]
  /\ worker' = [worker EXCEPT ![w] = [@ EXCEPT !.pc = "recover", !.outbox = due]]
  /\ UNCHANGED <<review, step, saved, deadLetter, apiSide, queue, faults>>

\* What is left to publish once j is done with; the loop ends with the list.
Published(w, j) ==
  LET rest == worker[w].outbox \ {j} IN
  worker' = [worker EXCEPT ![w] = IF rest = {} THEN IdleWorker ELSE [@ EXCEPT !.outbox = rest]]

PublishRecovered(w) ==
  /\ At(w, "recover")
  /\ \E j \in worker[w].outbox : queue' = Append(queue, j) /\ Published(w, j)
  /\ UNCHANGED <<jobTables, apiSide, deadLetter, faults>>

\* A failed push is logged and the loop goes on with the next row.
PublishRecoveredFails(w) ==
  /\ At(w, "recover") /\ Fault
  /\ \E j \in worker[w].outbox : Published(w, j)
  /\ UNCHANGED <<jobTables, apiSide, deadLetter, queue>>

\* Redis restarts from an append-only file that misses the last pushes.
RedisLoss ==
  /\ Fault
  /\ \E n \in 1 .. Len(queue) : queue' = SubSeq(queue, 1, n - 1)
  /\ UNCHANGED <<jobTables, workerSide, apiSide>>

Older(age, limit) == IF age < limit THEN age + 1 ELSE age
Aged(row) ==
  [row EXCEPT !.beatAge = IF row.status = "RUNNING" THEN Older(@, StaleAfter + 1) ELSE @,
              !.leaseAge = IF row.status \in Claimable THEN Older(@, StaleAfter) ELSE @,
              !.wait = IF @ > 0 THEN @ - 1 ELSE @]

\* A process that works on a job it owns beats, and answers, within
\* stale_after ...
Engaged == Processing \cup {"load", "claimError"}
Timely == \A w \in Worker :
            worker[w].pc \in Engaged /\ Owns(w, Task(w)) => job[Task(w)].beatAge < StaleAfter

PassTime ==
  /\ \E j \in Job : Aged(job[j]) # job[j]
  /\ job' = [j \in Job |-> Aged(job[j])]
  /\ UNCHANGED <<review, step, saved, workerSide, apiSide, queue>>

Tick == Timely /\ PassTime /\ UNCHANGED faults
\* ... unless it is suspended or cut off from the database: a fault.
Stall == ~Timely /\ Fault /\ PassTime

-----------------------------------------------------------------------------
ApiStep(c) == Request(c) \/ Add(c) \/ AddRefused(c) \/ Publish(c) \/ PublishLost(c)

WorkerStep(w) ==
  \/ Claim(w) \/ ClaimIgnored(w) \/ LoadSource(w) \/ SourceMissing(w) \/ FailClaimError(w)
  \/ Advance(w) \/ Parse(w) \/ ParseFails(w) \/ PutArtifact(w) \/ PersistSelected(w)
  \/ PersistResults(w) \/ PersistSuggestions(w) \/ Complete(w)
  \/ Retry(w) \/ FailFinal(w) \/ DeadLetter(w) \/ PublishRecovered(w)

WorkerFault(w) ==
  \/ ClaimFails(w) \/ LoadSourceFails(w) \/ PutFails(w) \/ StepFails(w)
  \/ HandlerFails(w) \/ DeadLetterLost(w) \/ PublishRecoveredFails(w) \/ Crash(w)

Next ==
  \/ \E c \in Client : ApiStep(c)
  \/ \E a \in Ad : Revise(a) \/ DeleteAd(a) \/ RemoveFiles(a)
  \/ \E w \in Worker : \/ Pop(w) \/ Recover(w) \/ Heartbeat(w)
                       \/ WorkerStep(w) \/ WorkerFault(w)
  \/ RedisLoss \/ Tick \/ Stall

Spec == Init /\ [][Next]_vars

\* run_forever alternates recovery and pop, so neither can be put off for
\* ever; a call that may proceed returns; the clock runs.
Fairness ==
  /\ \A w \in Worker : /\ WF_vars(WorkerStep(w)) /\ WF_vars(Heartbeat(w))
                       /\ SF_vars(Pop(w)) /\ SF_vars(Recover(w))
  /\ WF_vars(Tick)

FairSpec == Spec /\ Fairness

-----------------------------------------------------------------------------
(* Properties.                                                             *)

StepStatus == {"PENDING", "RUNNING", "COMPLETED", "RETRY_PENDING", "FAILED"}

JobRow == [status : {"NONE"} \cup ActiveJob \cup TerminalJob,
           lockedBy : WorkerIds \cup {None}, retries : 0 .. MaxRetries, wait : Nat,
           beatAge : 0 .. StaleAfter + 1, leaseAge : 0 .. StaleAfter, cause : Cause]
ReviewRow == [status : {"NONE", "REVIEW_FAILED"} \cup ActiveReview \cup Succeeded,
              ad : Ad \cup {None}, files : 0 .. MaxFiles]
ResultRow == [artifact : Output \cup {None}, source : {0, 1}, selected : Output \cup {None},
              items : BOOLEAN \cup {None}, suggested : BOOLEAN]
AdRow == [latest : Job \cup {None},
          status : {"UPLOADED", "ANALYSIS_REQUESTED", "REVISED"} \cup Succeeded,
          life : {"live", "deleted", "gone"}, files : 1 .. MaxFiles]
ClientState == [pc : {"idle", "add", "publish"}, ad : Ad \cup {None}, job : Job \cup {None}]
WorkerState == [pc : WorkerPC, task : Job \cup {None}, parsed : Output \cup {None},
                check : BOOLEAN, cause : Cause, outbox : SUBSET Job]

\* The rows, lists and local states have the values the schema and the code
\* give them.
TypeOK ==
  /\ job \in [Job -> JobRow]
  /\ review \in [Job -> ReviewRow]
  /\ step \in [Job -> [Step -> StepStatus]]
  /\ saved \in [Job -> ResultRow]
  /\ ad \in [Ad -> AdRow]
  /\ queue \in Seq(Job)
  /\ deadLetter \in [Job -> Nat]
  /\ api \in [Client -> ClientState]
  /\ worker \in [Worker -> WorkerState]
  /\ faults \in 0 .. MaxFaults

\* The job and the review, two rows that different transactions of two
\* services update, always tell the same story: the lease is on a running job
\* only, a review is under analysis exactly while its job can still be worked
\* on, and it has a result or a failure exactly when the job is closed
\* (postgres.py: every transition; the status API returns both rows).
JobReviewAgree ==
  \A j \in Job :
    /\ job[j].status = "RUNNING" <=> job[j].lockedBy # None
    /\ job[j].status = "NONE" <=> review[j].status = "NONE"
    /\ review[j].status = "ANALYSIS_REQUESTED" => job[j].status = "PENDING"
    /\ job[j].status = "PENDING" => review[j].status = "ANALYSIS_REQUESTED"
    /\ job[j].status \in ActiveJob \ {"PENDING"} <=> review[j].status = "ANALYZING"
    /\ job[j].status = "COMPLETED" <=> review[j].status \in Succeeded
    /\ job[j].status = "FAILED_FINAL" <=> review[j].status = "REVIEW_FAILED"

\* However requests race between the check and the insert, an advertisement
\* has at most one job that is not closed, and that job is of its latest
\* review (reviews.py request and add, REVIEW_ALREADY_RUNNING).
OneActiveReviewPerAd ==
  \A j, k \in Job :
    /\ job[j].status \in ActiveJob => ad[review[j].ad].latest = j
    /\ {job[j].status, job[k].status} \subseteq ActiveJob /\ review[j].ad = review[k].ad
         => j = k

\* Each stage of a run builds on the one before, over retries and takeovers:
\* the blocks are those of the stored artifact, items exist for stored blocks
\* only, suggestions for items only, and a completed job lacks none of them
\* (persist_selected, persist_results, persist_suggestions, complete).
CheckpointCoherent ==
  \A j \in Job :
    /\ saved[j].selected # None => saved[j].selected = saved[j].artifact
    /\ saved[j].items # None => saved[j].selected # None
    /\ saved[j].suggested => saved[j].items # None
    /\ job[j].status = "COMPLETED" =>
         saved[j].items # None /\ (j \in Suggesting => saved[j].suggested)

\* A dead letter is sent at most once, only for a job that failed for good,
\* and a job that ran into transient failures failed only when its retry
\* budget was used up (retry_or_dead_letter, fail_final, fail_claim_error).
DeadLetterSound ==
  \A j \in Job :
    /\ deadLetter[j] <= 1
    /\ deadLetter[j] = 1 => job[j].status = "FAILED_FINAL"
    /\ job[j].cause = "transient" => job[j].retries = MaxRetries

\* The advertisement shows a success only when its latest review succeeded,
\* and then shows it or a later revision: a late worker of an earlier review
\* never overwrites it (complete updates advertisements.review_status).
AdStatusFollows ==
  \A a \in Ad :
    LET outcome == review[ad[a].latest].status IN
    IF ad[a].latest # None /\ outcome \in Succeeded
      THEN ad[a].status \in {outcome, "REVISED"}
      ELSE ad[a].status \notin Succeeded

HoldsLease(w, j) == job[j].status = "RUNNING" /\ job[j].lockedBy = WorkerId[w]
\* What a step of somebody else may do to a job that w holds.
Fenced(w, j) ==
  HoldsLease(w, j) /\ worker'[w] = worker[w] =>
    /\ review'[j] = review[j] /\ step'[j] = step[j]
    /\ \A column \in {"selected", "source", "items", "suggested"} :
         saved'[j][column] = saved[j][column]
    /\ HoldsLease(w, j)' \/ (job'[j].status = "STALE" /\ Stale(j))
    /\ job'[j].retries = job[j].retries

\* While a worker holds a job, nobody else changes the rows of the job, its
\* review, its steps or its results; the one exception is recovery, which may
\* take the lease away when the heartbeat is older than stale_after
\* (every UPDATE ... WHERE job_status='RUNNING' AND locked_by=:worker).
LeaseFencesOthers == [][\A w \in Worker, j \in Job : Fenced(w, j)]_vars

\* The detailed rows implement the lifecycle the service promises.
LifeOf == [NONE |-> "none", PENDING |-> "waiting", RETRY_PENDING |-> "waiting",
           STALE |-> "waiting", RUNNING |-> "working", COMPLETED |-> "done",
           FAILED_FINAL |-> "failed"]
Life(j) == LifeOf[job[j].status]

Lifecycle == INSTANCE ReviewLifecycle
  WITH life <- [j \in Job |-> Life(j)],
       of <- [j \in Job |-> review[j].ad],
       latest <- [a \in Ad |-> ad[a].latest]

\* Submissions, claims, releases, conclusions and failures happen in the order
\* ReviewLifecycle allows, and a closed review never changes again.
ImplementsLifecycle == Lifecycle!Spec

\* A review that was accepted is eventually closed, although publications and
\* dead workers' messages are lost (recover_stale, heartbeat, the retry budget).
EveryReviewEnds == Lifecycle!EveryReviewEnds

-----------------------------------------------------------------------------
(* What documents say and the code does not do.                            *)

\* ADR-0059 row "Object Storage", docs/adr: a temporary object-store error is
\* retried, so it cannot end a job that has retries left.
StorageFaultIsRetried ==
  \A j \in Job : job[j].cause = "storage" => job[j].retries = MaxRetries

\* docs/functional-specification.md, M8: the revised file is registered first
\* and then reviewed in a new round, so the blocks of a review come from the
\* newest file its advertisement had when the review was asked for, or newer.
RevisionIsReviewed ==
  \A j \in Job : job[j].status = "COMPLETED" => saved[j].source >= review[j].files

\* docs/functional-specification.md 4.1: an advertisement whose review failed
\* for a system error is REVIEW_FAILED.
AdShowsFailure ==
  \A a \in Ad :
    LET j == ad[a].latest IN
    j # None /\ review[j].status = "REVIEW_FAILED" => ad[a].status = "REVIEW_FAILED"
=============================================================================
