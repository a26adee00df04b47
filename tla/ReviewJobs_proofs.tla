-------------------------- MODULE ReviewJobs_proofs --------------------------
(***************************************************************************)
(* Proofs about ReviewJobs for every number of advertisements, jobs,       *)
(* clients and workers, every retry schedule and every fault budget: the   *)
(* rows agree and implement ReviewLifecycle, what a run leaves behind      *)
(* follows from how far it came, and a lease fences off the others.        *)
(***************************************************************************)
EXTENDS ReviewJobs, TLAPS

\* A worker between a pop and the end of process has a job at hand.
WorkersBusy == \A w \in Worker : worker[w].pc \notin {"idle", "recover"} => Task(w) \in Job

\* An API thread inside a request has drawn an advertisement and a job id of
\* its own, and the row is not inserted before add.
ClientsBusy ==
  \A c \in Client :
    /\ api[c].pc # "idle" => api[c].ad \in Ad /\ api[c].job \in Job
    /\ api[c].pc = "add" => job[api[c].job].status = "NONE"
    /\ api[c].pc = "add" => \A d \in Client : api[d].job = api[c].job => d = c

ActiveIsLatest ==
  \A j \in Job : job[j].status \in ActiveJob =>
                   review[j].ad \in Ad /\ ad[review[j].ad].latest = j

\* The inductive invariant: TypeOK and JobReviewAgree are not inductive
\* without what the local states of threads and workers promise.
IInv == TypeOK /\ WorkersBusy /\ ClientsBusy /\ JobReviewAgree /\ ActiveIsLatest

USE DEF Claimable, ActiveJob, TerminalJob, ActiveReview, Succeeded, Task, At

-----------------------------------------------------------------------------
(* Rows.                                                                   *)

\* A settled row is a row: the ages and the lock are cleared.
LEMMA SettledRow ==
  ASSUME NEW row \in JobRow, NEW s \in {"NONE"} \cup ActiveJob \cup TerminalJob
  PROVE  /\ Settled(row, s) \in JobRow
         /\ Settled(row, s).status = s /\ Settled(row, s).lockedBy = None
         /\ Settled(row, s).retries = row.retries /\ Settled(row, s).cause = row.cause
BY ConstantsAssumption DEF ConstantsAssumption, Settled, JobRow

\* Time changes the ages of a row within their bounds, and nothing else.
LEMMA AgedRow ==
  ASSUME NEW row \in JobRow
  PROVE  /\ Aged(row) \in JobRow
         /\ Aged(row).status = row.status /\ Aged(row).lockedBy = row.lockedBy
         /\ Aged(row).retries = row.retries /\ Aged(row).cause = row.cause
<1>1. row.beatAge \in 0 .. StaleAfter + 1 /\ row.leaseAge \in 0 .. StaleAfter /\ row.wait \in Nat
  BY DEF JobRow
<1>2. Older(row.beatAge, StaleAfter + 1) \in 0 .. StaleAfter + 1
  BY <1>1, ConstantsAssumption DEF ConstantsAssumption, Older
<1>3. Older(row.leaseAge, StaleAfter) \in 0 .. StaleAfter
  BY <1>1, ConstantsAssumption DEF ConstantsAssumption, Older
<1>4. (IF row.wait > 0 THEN row.wait - 1 ELSE row.wait) \in Nat
  BY <1>1
<1> QED BY <1>1, <1>2, <1>3, <1>4 DEF Aged, JobRow

-----------------------------------------------------------------------------
(* Local states.                                                           *)

\* The program counters are those of WorkerPC.
LEMMA PCs ==
  /\ {"idle", "claim", "load", "claimError", "dead", "recover", "parse", "retry", "fail",
      "ocr", "layout", "rule", "rag", "result", "put", "persist", "results", "suggest",
      "complete"} \subseteq WorkerPC
  /\ \A pc \in Advancing : AdvanceNext[pc] \in WorkerPC \ {"idle", "recover"}
                           /\ AdvanceStep[pc] \in Step
  /\ \A pc \in Stage : pc \notin {"idle", "recover"}
<1>1. {"idle", "claim", "load", "claimError", "dead", "recover", "parse", "retry", "fail",
      "ocr", "layout", "rule", "rag", "result", "put", "persist", "results", "suggest",
      "complete"} \subseteq WorkerPC
  BY DEF WorkerPC, Processing, Stage, Advancing
<1>2. ASSUME NEW pc \in Advancing
      PROVE  AdvanceNext[pc] \in {"parse", "put", "rag", "result", "results"} /\ AdvanceStep[pc] \in Step
  BY <1>2 DEF AdvanceNext, AdvanceStep, Advancing, Step
<1>3. \A pc \in Stage : pc \notin {"idle", "recover"}
  BY DEF Stage, Advancing
<1> QED BY <1>1, <1>2, <1>3

LocalType == worker \in [Worker -> WorkerState] /\ WorkersBusy

\* Moving a worker that has a job at hand keeps its job at hand.
LEMMA LocalMoves ==
  ASSUME LocalType, NEW w \in Worker, worker[w].task \in Job
  PROVE  /\ \A pc \in WorkerPC : Goto(w, pc) => LocalType'
         /\ \A c \in Cause : Raise(w, c) => LocalType'
         /\ \A c \in Cause : RaiseInClaim(w, c) => LocalType'
<1> USE DEF LocalType, WorkersBusy
<1>1. ASSUME NEW pc \in WorkerPC, Goto(w, pc) PROVE LocalType'
  BY <1>1 DEF Goto, WorkerState
<1>2. ASSUME NEW c \in Cause, Raise(w, c) PROVE LocalType'
  BY <1>2, PCs DEF Raise, WorkerState
<1>3. ASSUME NEW c \in Cause, RaiseInClaim(w, c) PROVE LocalType'
  BY <1>3, PCs DEF RaiseInClaim, WorkerState
<1> QED BY <1>1, <1>2, <1>3

\* A worker that goes back to its loop has no job at hand.
LEMMA LocalLeave ==
  ASSUME LocalType, NEW w \in Worker, Leave(w)
  PROVE  LocalType'
BY PCs DEF LocalType, WorkersBusy, Leave, IdleWorker, WorkerState, Cause

-----------------------------------------------------------------------------
(* Tables.                                                                 *)

\* Writing one well-typed row keeps a table well-typed.
LEMMA TableUpdate ==
  ASSUME NEW K, NEW R, NEW f \in [K -> R], NEW k \in K, NEW r \in R
  PROVE  [f EXCEPT ![k] = r] \in [K -> R]
OBVIOUS

\* The single-column updates of the tables give rows of the tables.
LEMMA Columns ==
  /\ \A r \in JobRow : /\ [r EXCEPT !.status = "PENDING"] \in JobRow
                       /\ [r EXCEPT !.beatAge = 0] \in JobRow
                       /\ [r EXCEPT !.leaseAge = 0] \in JobRow
                       /\ \A w \in Worker : [r EXCEPT !.lockedBy = WorkerId[w]] \in JobRow
                       /\ \A c \in Cause : [r EXCEPT !.cause = c] \in JobRow
  /\ \A r \in ReviewRow, s \in {"ANALYZING", "REVIEW_FAILED"} \cup Succeeded :
       [r EXCEPT !.status = s] \in ReviewRow
  /\ \A r \in AdRow, s \in {"ANALYSIS_REQUESTED", "REVISED"} \cup Succeeded :
       [r EXCEPT !.status = s] \in AdRow
<1>1. \A w \in Worker : WorkerId[w] \in WorkerIds
  BY DEF WorkerIds
<1>2. 0 \in 0 .. StaleAfter /\ 0 \in 0 .. StaleAfter + 1
  BY ConstantsAssumption DEF ConstantsAssumption
<1>3. ASSUME NEW r \in JobRow
      PROVE  /\ [r EXCEPT !.status = "PENDING"] \in JobRow
             /\ [r EXCEPT !.beatAge = 0] \in JobRow
             /\ [r EXCEPT !.leaseAge = 0] \in JobRow
             /\ \A w \in Worker : [r EXCEPT !.lockedBy = WorkerId[w]] \in JobRow
             /\ \A c \in Cause : [r EXCEPT !.cause = c] \in JobRow
  BY <1>1, <1>2, <1>3 DEF JobRow
<1>4. ASSUME NEW r \in ReviewRow, NEW s \in {"ANALYZING", "REVIEW_FAILED"} \cup Succeeded
      PROVE  [r EXCEPT !.status = s] \in ReviewRow
  BY DEF ReviewRow
<1>5. ASSUME NEW r \in AdRow, NEW s \in {"ANALYSIS_REQUESTED", "REVISED"} \cup Succeeded
      PROVE  [r EXCEPT !.status = s] \in AdRow
  BY DEF AdRow
<1> QED BY <1>3, <1>4, <1>5

\* So do those of the results.
LEMMA ResultColumns ==
  \A r \in ResultRow :
    /\ \A o \in Output \cup {None} : [r EXCEPT !.artifact = o] \in ResultRow
    /\ \A o \in Output \cup {None}, n \in {0, 1} :
         [r EXCEPT !.selected = o, !.source = n] \in ResultRow
    /\ \A v \in Verdict : [r EXCEPT !.items = IF @ = None THEN v ELSE @] \in ResultRow
    /\ [r EXCEPT !.suggested = TRUE] \in ResultRow
BY ConstantsAssumption DEF ConstantsAssumption, ResultRow

\* The updates of a worker's local state give local states.
LEMMA WorkerColumns ==
  \A r \in WorkerState :
    /\ \A o \in Output : [r EXCEPT !.pc = "layout", !.parsed = o] \in WorkerState
    /\ [r EXCEPT !.pc = "retry", !.cause = "transient"] \in WorkerState
    /\ \A v \in Verdict, pc \in {"suggest", "complete"} :
         [r EXCEPT !.check = v, !.pc = pc] \in WorkerState
    /\ \A j \in Job : [r EXCEPT !.outbox = r.outbox \ {j}] \in WorkerState
    /\ IdleWorker \in WorkerState
<1>1. ASSUME NEW r \in WorkerState
      PROVE  \A o \in Output : [r EXCEPT !.pc = "layout", !.parsed = o] \in WorkerState
  BY <1>1, PCs DEF WorkerState
<1>2. ASSUME NEW r \in WorkerState
      PROVE  [r EXCEPT !.pc = "retry", !.cause = "transient"] \in WorkerState
  BY <1>2, PCs DEF WorkerState, Cause
<1>3. ASSUME NEW r \in WorkerState, NEW v \in Verdict, NEW pc \in {"suggest", "complete"}
      PROVE  [r EXCEPT !.check = v, !.pc = pc] \in WorkerState
  BY <1>3, PCs, ConstantsAssumption DEF ConstantsAssumption, WorkerState
<1>4. ASSUME NEW r \in WorkerState, NEW j \in Job
      PROVE  [r EXCEPT !.outbox = r.outbox \ {j}] \in WorkerState
  BY <1>4 DEF WorkerState
<1>5. IdleWorker \in WorkerState
  BY PCs DEF IdleWorker, WorkerState, Cause
<1> QED BY <1>1, <1>2, <1>3, <1>4, <1>5

\* The step rows that claim, advance, retry and complete write.
LEMMA StepColumns ==
  \A f \in [Step -> StepStatus] :
    /\ \A n \in Step : [s \in Step |-> IF s < n THEN "COMPLETED"
                                       ELSE IF s = n THEN "RUNNING" ELSE f[s]] \in [Step -> StepStatus]
    /\ [s \in Step |-> "COMPLETED"] \in [Step -> StepStatus]
    /\ [f EXCEPT ![1] = "RUNNING"] \in [Step -> StepStatus]
    /\ [f EXCEPT ![2] = "RETRY_PENDING"] \in [Step -> StepStatus]
BY DEF StepStatus

\* The rows Finalize writes.
LEMMA FinalizeType ==
  ASSUME job \in [Job -> JobRow], review \in [Job -> ReviewRow],
         step \in [Job -> [Step -> StepStatus]],
         NEW j \in Job, NEW c \in Cause, Finalize(j, c)
  PROVE  /\ job' \in [Job -> JobRow] /\ review' \in [Job -> ReviewRow]
         /\ step' \in [Job -> [Step -> StepStatus]]
<1>1. [Settled(job[j], "FAILED_FINAL") EXCEPT !.cause = c] \in JobRow
  BY SettledRow, Columns
<1>2. [review[j] EXCEPT !.status = "REVIEW_FAILED"] \in ReviewRow
  BY Columns
<1>3. FailRunning(j) \in [Step -> StepStatus]
  BY DEF FailRunning, StepStatus
<1> QED BY <1>1, <1>2, <1>3, TableUpdate DEF Finalize

\* What the types say about one worker, and about the fault budget.
LEMMA LocalFields ==
  ASSUME TypeOK
  PROVE  /\ LocalType <=> WorkersBusy
         /\ \A w \in Worker : /\ worker[w].pc \in WorkerPC /\ worker[w].cause \in Cause
                              /\ worker[w].parsed \in Output \cup {None}
                              /\ worker[w].outbox \subseteq Job
         /\ {"none", "transient", "permanent", "storage", "missing", "database",
             "conflict", "lease"} \subseteq Cause
         /\ Fault => faults' \in 0 .. MaxFaults
BY ConstantsAssumption DEF ConstantsAssumption, TypeOK, LocalType, WorkerState, Cause, Fault

\* The worker's steps keep the types.  jobs, reviews and steps are changed
\* under the lease only, or by Finalize.
LEMMA WorkerTypes ==
  ASSUME TypeOK, WorkersBusy, NEW w \in Worker, WorkerStep(w) \/ WorkerFault(w)
  PROVE  TypeOK' /\ WorkersBusy'
<1> USE LocalFields, PCs DEF jobTables, workerSide, apiSide
<1>busy. LocalType /\ (worker[w].pc \notin {"idle", "recover"} => worker[w].task \in Job)
  BY DEF WorkersBusy
<1>1. CASE Claim(w)
  <2>1. [Settled(job[Task(w)], "RUNNING") EXCEPT !.lockedBy = WorkerId[w]] \in JobRow
    BY <1>1, <1>busy, SettledRow, Columns DEF Claim, TypeOK
  <2>2. [review[Task(w)] EXCEPT !.status = "ANALYZING"] \in ReviewRow
    BY <1>1, <1>busy, Columns DEF Claim, TypeOK
  <2>3. job' \in [Job -> JobRow] /\ review' \in [Job -> ReviewRow]
    BY <1>1, <1>busy, <2>1, <2>2, TableUpdate DEF Claim, TypeOK
  <2>4. step' \in [Job -> [Step -> StepStatus]]
    BY <1>1, <1>busy, StepColumns, TableUpdate DEF Claim, TypeOK
  <2> QED BY <1>1, <1>busy, <2>3, <2>4, LocalMoves DEF Claim, TypeOK, LocalType
<1>2. CASE ClaimIgnored(w)
  BY <1>2, <1>busy, LocalMoves, LocalLeave DEF ClaimIgnored, TypeOK, LocalType
<1>3. CASE LoadSource(w)
  BY <1>3, <1>busy, LocalMoves, LocalLeave DEF LoadSource, TypeOK, LocalType
<1>4. CASE SourceMissing(w)
  BY <1>4, <1>busy, LocalMoves, LocalLeave DEF SourceMissing, TypeOK, LocalType
<1>5. CASE FailClaimError(w)
  <2>1. job' \in [Job -> JobRow] /\ review' \in [Job -> ReviewRow]
        /\ step' \in [Job -> [Step -> StepStatus]]
    BY <1>5, <1>busy, FinalizeType DEF FailClaimError, TypeOK
  <2>2. LocalType'
    BY <1>5, <1>busy, LocalMoves, LocalLeave DEF FailClaimError
  <2> QED BY <1>5, <2>1, <2>2 DEF FailClaimError, TypeOK, LocalType
<1>6. CASE Advance(w)
  <2> DEFINE j == Task(w)
             n == AdvanceStep[worker[w].pc]
  <2>1. worker[w].pc \in Advancing /\ j \in Job /\ n \in Step
    BY <1>6, <1>busy DEF Advance, Advancing
  <2>2. CASE Owns(w, j)
    <3>1. /\ job' = [job EXCEPT ![j] = [job[j] EXCEPT !.beatAge = 0]]
          /\ step' = [step EXCEPT ![j] = [s \in Step |-> IF s < n THEN "COMPLETED"
                                            ELSE IF s = n THEN "RUNNING" ELSE step[j][s]]]
          /\ Goto(w, AdvanceNext[worker[w].pc])
      BY <1>6, <2>2 DEF Advance
    <3>2. [job[j] EXCEPT !.beatAge = 0] \in JobRow
      BY <2>1, Columns DEF TypeOK
    <3>3. [s \in Step |-> IF s < n THEN "COMPLETED" ELSE IF s = n THEN "RUNNING" ELSE step[j][s]]
            \in [Step -> StepStatus]
      BY <2>1, StepColumns DEF TypeOK
    <3>4. job' \in [Job -> JobRow] /\ step' \in [Job -> [Step -> StepStatus]]
      <4> HIDE DEF j, n
      <4> QED BY <2>1, <3>1, <3>2, <3>3, TableUpdate DEF TypeOK
    <3>5. LocalType'
      BY <1>busy, <2>1, <3>1, LocalMoves DEF Advancing
    <3> QED BY <1>6, <3>4, <3>5 DEF Advance, TypeOK, LocalType
  <2>3. CASE ~Owns(w, j)
    <3>1. Raise(w, "lease")
      BY <1>6, <2>3 DEF Advance
    <3>2. LocalType'
      BY <1>busy, <2>1, <3>1, LocalMoves
    <3> QED BY <1>6, <2>3, <3>2 DEF Advance, TypeOK, LocalType
  <2> QED BY <2>2, <2>3
<1>7. CASE Parse(w)
  <2>1. PICK o \in Output :
          worker' = [worker EXCEPT ![w] = [worker[w] EXCEPT !.pc = "layout", !.parsed = o]]
    BY <1>7 DEF Parse
  <2>5. [worker[w] EXCEPT !.pc = "layout", !.parsed = o] \in WorkerState
    BY <1>busy, WorkerColumns DEF LocalType
  <2>2. worker' \in [Worker -> WorkerState]
    BY <1>busy, <2>1, <2>5, TableUpdate DEF LocalType
  <2>3. worker'[w].task = worker[w].task
    BY <1>busy, <2>1 DEF LocalType, WorkerState
  <2>4. WorkersBusy'
    BY <1>7, <1>busy, <2>1, <2>3 DEF Parse, WorkersBusy
  <2> QED BY <1>7, <2>2, <2>4 DEF Parse, TypeOK
<1>8. CASE ParseFails(w)
  <2>1. CASE Raise(w, "permanent")
    BY <1>8, <1>busy, <2>1, LocalMoves DEF ParseFails, TypeOK, LocalType
  <2>2. CASE worker' = [worker EXCEPT ![w] = [worker[w] EXCEPT !.pc = "retry", !.cause = "transient"]]
    <3>4. [worker[w] EXCEPT !.pc = "retry", !.cause = "transient"] \in WorkerState
      BY <1>busy, WorkerColumns DEF LocalType
    <3>1. worker' \in [Worker -> WorkerState]
      BY <1>busy, <2>2, <3>4, TableUpdate DEF LocalType
    <3>2. worker'[w].task = worker[w].task
      BY <1>busy, <2>2 DEF LocalType, WorkerState
    <3>3. WorkersBusy'
      BY <1>8, <1>busy, <2>2, <3>2 DEF ParseFails, WorkersBusy
    <3> QED BY <1>8, <3>1, <3>3 DEF ParseFails, TypeOK
  <2> QED BY <1>8, <2>1, <2>2 DEF ParseFails
<1>9. CASE PutArtifact(w)
  <2>1. LocalType'
    BY <1>9, <1>busy, LocalMoves DEF PutArtifact
  <2>2. CASE saved[Task(w)].artifact \in {None, worker[w].parsed}
    <3>1. saved' = [saved EXCEPT ![Task(w)] = [saved[Task(w)] EXCEPT !.artifact = worker[w].parsed]]
      BY <1>9, <2>2 DEF PutArtifact, SourceFile
    <3>2. [saved[Task(w)] EXCEPT !.artifact = worker[w].parsed] \in ResultRow
      BY <1>9, <1>busy, ResultColumns DEF PutArtifact, TypeOK
    <3>3. saved' \in [Job -> ResultRow]
      BY <1>9, <1>busy, <3>1, <3>2, TableUpdate DEF PutArtifact, TypeOK
    <3> QED BY <1>9, <2>1, <3>3 DEF PutArtifact, TypeOK, LocalType
  <2>3. CASE ~(saved[Task(w)].artifact \in {None, worker[w].parsed})
    BY <1>9, <2>1, <2>3 DEF PutArtifact, TypeOK, LocalType
  <2> QED BY <2>2, <2>3
<1>10. CASE PersistSelected(w)
  <2>1. LocalType'
    BY <1>10, <1>busy, LocalMoves DEF PersistSelected
  <2>2. CASE Owns(w, Task(w)) /\ saved[Task(w)].artifact = worker[w].parsed
          /\ saved[Task(w)].selected \in {None, worker[w].parsed}
    <3>1. saved' = [saved EXCEPT ![Task(w)] = [saved[Task(w)] EXCEPT !.selected = worker[w].parsed, !.source = 1]]
      BY <1>10, <2>2 DEF PersistSelected, SourceFile
    <3>2. [saved[Task(w)] EXCEPT !.selected = worker[w].parsed, !.source = 1] \in ResultRow
      BY <1>10, <1>busy, ResultColumns DEF PersistSelected, TypeOK
    <3>3. saved' \in [Job -> ResultRow]
      BY <1>10, <1>busy, <3>1, <3>2, TableUpdate DEF PersistSelected, TypeOK
    <3> QED BY <1>10, <2>1, <3>3 DEF PersistSelected, TypeOK, LocalType
  <2>3. CASE ~(Owns(w, Task(w)) /\ saved[Task(w)].artifact = worker[w].parsed
          /\ saved[Task(w)].selected \in {None, worker[w].parsed})
    BY <1>10, <2>1, <2>3 DEF PersistSelected, TypeOK, LocalType
  <2> QED BY <2>2, <2>3
<1>11. CASE PersistResults(w)
  <2>1. CASE Owns(w, Task(w))
    <3>1. PICK v \in Verdict :
            /\ saved' = [saved EXCEPT ![Task(w)] = [saved[Task(w)] EXCEPT
                 !.items = IF @ = None THEN v ELSE @]]
            /\ worker' = [worker EXCEPT ![w] = [worker[w] EXCEPT
                 !.check = v, !.pc = IF Task(w) \in Suggesting THEN "suggest" ELSE "complete"]]
      BY <1>11, <2>1 DEF PersistResults
    <3>2. [saved[Task(w)] EXCEPT !.items = IF @ = None THEN v ELSE @] \in ResultRow
      BY <1>11, <1>busy, ResultColumns DEF PersistResults, TypeOK
    <3>3. saved' \in [Job -> ResultRow]
      BY <1>11, <1>busy, <3>1, <3>2, TableUpdate DEF PersistResults, TypeOK
    <3>4. [worker[w] EXCEPT !.check = v, !.pc = IF Task(w) \in Suggesting THEN "suggest"
                                               ELSE "complete"] \in WorkerState
      BY <1>busy, WorkerColumns DEF LocalType
    <3>5. worker' \in [Worker -> WorkerState]
      BY <1>busy, <3>1, <3>4, TableUpdate DEF LocalType
    <3>6. worker'[w].task = worker[w].task
      BY <1>busy, <3>1 DEF LocalType, WorkerState
    <3>7. WorkersBusy'
      <4>1. w \in Worker /\ worker[w].task \in Job
        BY <1>11, <1>busy DEF PersistResults
      <4>2. \A x \in Worker : worker'[x].task = worker[x].task /\ (x # w => worker'[x] = worker[x])
        BY <1>busy, <3>1, <3>6 DEF LocalType
      <4> QED BY <1>busy, <4>1, <4>2 DEF WorkersBusy
    <3> QED BY <1>11, <3>3, <3>5, <3>7 DEF PersistResults, TypeOK
  <2>2. CASE ~Owns(w, Task(w))
    BY <1>11, <1>busy, <2>2, LocalMoves DEF PersistResults, TypeOK, LocalType
  <2> QED BY <2>1, <2>2
<1>12. CASE PersistSuggestions(w)
  <2>1. LocalType'
    BY <1>12, <1>busy, LocalMoves DEF PersistSuggestions
  <2>2. CASE Owns(w, Task(w))
    <3>1. saved' = [saved EXCEPT ![Task(w)] = [saved[Task(w)] EXCEPT !.suggested = TRUE]]
      BY <1>12, <2>2 DEF PersistSuggestions, SourceFile
    <3>2. [saved[Task(w)] EXCEPT !.suggested = TRUE] \in ResultRow
      BY <1>12, <1>busy, ResultColumns DEF PersistSuggestions, TypeOK
    <3>3. saved' \in [Job -> ResultRow]
      BY <1>12, <1>busy, <3>1, <3>2, TableUpdate DEF PersistSuggestions, TypeOK
    <3> QED BY <1>12, <2>1, <3>3 DEF PersistSuggestions, TypeOK, LocalType
  <2>3. CASE ~(Owns(w, Task(w)))
    BY <1>12, <2>1, <2>3 DEF PersistSuggestions, TypeOK, LocalType
  <2> QED BY <2>2, <2>3
<1>13. CASE Complete(w)
  <2> DEFINE j == Task(w)
             status == ReviewStatus(worker[w].parsed, worker[w].check)
  <2>1. j \in Job /\ status \in Succeeded
    BY <1>13, <1>busy DEF Complete, ReviewStatus
  <2>2. LocalType'
    BY <1>13, <1>busy, LocalMoves, LocalLeave DEF Complete
  <2>3. CASE Owns(w, j)
    <3>1. /\ job' = [job EXCEPT ![j] = Settled(job[j], "COMPLETED")]
          /\ review' = [review EXCEPT ![j] = [review[j] EXCEPT !.status = status]]
          /\ step' = [step EXCEPT ![j] = [s \in Step |-> "COMPLETED"]]
          /\ ad' = [ad EXCEPT ![review[j].ad] = [ad[review[j].ad] EXCEPT !.status = status]]
      BY <1>13, <2>3 DEF Complete
    <3>2. /\ Settled(job[j], "COMPLETED") \in JobRow
          /\ [review[j] EXCEPT !.status = status] \in ReviewRow
          /\ [s \in Step |-> "COMPLETED"] \in [Step -> StepStatus]
          /\ \A a \in Ad : [ad[a] EXCEPT !.status = status] \in AdRow
      BY <2>1, SettledRow, Columns, StepColumns DEF TypeOK
    <3>3. /\ job' \in [Job -> JobRow] /\ review' \in [Job -> ReviewRow]
          /\ step' \in [Job -> [Step -> StepStatus]]
      <4> HIDE DEF j, status
      <4> QED BY <2>1, <3>1, <3>2, TableUpdate DEF TypeOK
    <3>4. ad' \in [Ad -> AdRow]
      <4> HIDE DEF j, status
      <4> QED BY <3>1, <3>2 DEF TypeOK
    <3> QED BY <1>13, <2>2, <3>3, <3>4 DEF Complete, TypeOK, LocalType
  <2>4. CASE ~Owns(w, j)
    BY <1>13, <2>2, <2>4 DEF Complete, TypeOK, LocalType
  <2> QED BY <2>3, <2>4
<1>14. CASE Retry(w)
  <2>1. LocalType'
    BY <1>14, <1>busy, LocalMoves, LocalLeave DEF Retry
  <2>2. CASE Owns(w, Task(w)) /\ ~(job[Task(w)].retries + 1 > MaxRetries)
    <3> DEFINE n == job[Task(w)].retries + 1
    <3>1. n \in 1 .. MaxRetries /\ RetryDelays[n] \in Nat
      <4>1. job[Task(w)].retries \in 0 .. MaxRetries
        BY <1>14, <1>busy DEF Retry, TypeOK, JobRow
      <4>2. MaxRetries \in Nat /\ \A k \in 1 .. MaxRetries : RetryDelays[k] \in Nat
        BY ConstantsAssumption DEF ConstantsAssumption, MaxRetries
      <4> QED BY <2>2, <4>1, <4>2
    <3>2. [Settled(job[Task(w)], "RETRY_PENDING") EXCEPT
             !.retries = n, !.wait = RetryDelays[n], !.leaseAge = StaleAfter] \in JobRow
      <4>1. Settled(job[Task(w)], "RETRY_PENDING") \in JobRow
        BY <1>14, <1>busy, SettledRow DEF Retry, TypeOK
      <4>2. n \in 0 .. MaxRetries /\ StaleAfter \in 0 .. StaleAfter
        BY <3>1, ConstantsAssumption DEF ConstantsAssumption, MaxRetries
      <4> HIDE DEF n
      <4> QED BY <3>1, <4>1, <4>2 DEF JobRow
    <3>5. /\ job' = [job EXCEPT ![Task(w)] = [Settled(job[Task(w)], "RETRY_PENDING") EXCEPT
                 !.retries = n, !.wait = RetryDelays[n], !.leaseAge = StaleAfter]]
          /\ step' = [step EXCEPT ![Task(w)] = [step[Task(w)] EXCEPT ![2] = "RETRY_PENDING"]]
          /\ review' = review
      BY <1>14, <2>2 DEF Retry
    <3>6. Task(w) \in Job /\ [step[Task(w)] EXCEPT ![2] = "RETRY_PENDING"] \in [Step -> StepStatus]
      BY <1>14, <1>busy, StepColumns DEF Retry, TypeOK
    <3>3. job' \in [Job -> JobRow]
      BY <3>2, <3>5, <3>6, TableUpdate DEF TypeOK
    <3>4. step' \in [Job -> [Step -> StepStatus]]
      BY <3>5, <3>6, TableUpdate DEF TypeOK
    <3> QED BY <1>14, <2>1, <3>3, <3>4, <3>5 DEF Retry, TypeOK, LocalType
  <2>3. CASE ~(Owns(w, Task(w)) /\ ~(job[Task(w)].retries + 1 > MaxRetries))
    <3>1. job' \in [Job -> JobRow] /\ review' \in [Job -> ReviewRow]
          /\ step' \in [Job -> [Step -> StepStatus]]
      BY <1>14, <1>busy, <2>3, FinalizeType DEF Retry, TypeOK
    <3> QED BY <1>14, <2>1, <2>3, <3>1 DEF Retry, TypeOK, LocalType
  <2> QED BY <2>2, <2>3
<1>15. CASE FailFinal(w)
  <2>1. job' \in [Job -> JobRow] /\ review' \in [Job -> ReviewRow]
        /\ step' \in [Job -> [Step -> StepStatus]]
    BY <1>15, <1>busy, FinalizeType DEF FailFinal, TypeOK
  <2>2. LocalType'
    BY <1>15, <1>busy, LocalMoves, LocalLeave DEF FailFinal
  <2> QED BY <1>15, <2>1, <2>2 DEF FailFinal, TypeOK, LocalType
<1>16. CASE DeadLetter(w)
  BY <1>16, <1>busy, LocalMoves, LocalLeave DEF DeadLetter, TypeOK, LocalType
<1>17. CASE PublishRecovered(w)
  <2>1. PICK j \in worker[w].outbox : queue' = Append(queue, j) /\ Published(w, j)
    BY <1>17 DEF PublishRecovered
  <2>6. IdleWorker \in WorkerState
    BY <1>busy, WorkerColumns DEF LocalType
  <2>2. j \in Job /\ [worker[w] EXCEPT !.outbox = worker[w].outbox \ {j}] \in WorkerState
    BY <1>busy, <2>1, WorkerColumns DEF LocalType
  <2>3. worker' \in [Worker -> WorkerState]
    <3> DEFINE r == IF worker[w].outbox \ {j} = {} THEN IdleWorker
                    ELSE [worker[w] EXCEPT !.outbox = worker[w].outbox \ {j}]
    <3>1. worker' = [worker EXCEPT ![w] = r]
      BY <2>1 DEF Published
    <3>2. r \in WorkerState
      BY <2>2, <2>6
    <3> HIDE DEF r
    <3> QED BY <1>busy, <3>1, <3>2, TableUpdate DEF LocalType
  <2>5. WorkersBusy'
    BY <1>17, <1>busy, <2>1 DEF PublishRecovered, LocalType, WorkersBusy, Published, IdleWorker, WorkerState
  <2>4. LocalType'
    BY <2>3, <2>5 DEF LocalType
  <2> QED BY <1>17, <2>1, <2>4 DEF PublishRecovered, TypeOK, LocalType
<1>18. CASE ClaimFails(w)
  BY <1>18, <1>busy, LocalMoves, LocalLeave DEF ClaimFails, TypeOK, LocalType
<1>19. CASE LoadSourceFails(w)
  BY <1>19, <1>busy, LocalMoves, LocalLeave DEF LoadSourceFails, TypeOK, LocalType
<1>20. CASE PutFails(w)
  BY <1>20, <1>busy, LocalMoves, LocalLeave DEF PutFails, TypeOK, LocalType
<1>21. CASE StepFails(w)
  BY <1>21, <1>busy, LocalMoves, LocalLeave DEF StepFails, TypeOK, LocalType
<1>22. CASE HandlerFails(w)
  BY <1>22, <1>busy, LocalMoves, LocalLeave DEF HandlerFails, TypeOK, LocalType
<1>23. CASE DeadLetterLost(w)
  BY <1>23, <1>busy, LocalMoves, LocalLeave DEF DeadLetterLost, TypeOK, LocalType
<1>24. CASE PublishRecoveredFails(w)
  <2>1. PICK j \in worker[w].outbox : Published(w, j)
    BY <1>24 DEF PublishRecoveredFails
  <2>6. IdleWorker \in WorkerState
    BY <1>busy, WorkerColumns DEF LocalType
  <2>2. j \in Job /\ [worker[w] EXCEPT !.outbox = worker[w].outbox \ {j}] \in WorkerState
    BY <1>busy, <2>1, WorkerColumns DEF LocalType
  <2>3. worker' \in [Worker -> WorkerState]
    <3> DEFINE r == IF worker[w].outbox \ {j} = {} THEN IdleWorker
                    ELSE [worker[w] EXCEPT !.outbox = worker[w].outbox \ {j}]
    <3>1. worker' = [worker EXCEPT ![w] = r]
      BY <2>1 DEF Published
    <3>2. r \in WorkerState
      BY <2>2, <2>6
    <3> HIDE DEF r
    <3> QED BY <1>busy, <3>1, <3>2, TableUpdate DEF LocalType
  <2>5. WorkersBusy'
    BY <1>24, <1>busy, <2>1 DEF PublishRecoveredFails, LocalType, WorkersBusy, Published, IdleWorker, WorkerState
  <2>4. LocalType'
    BY <2>3, <2>5 DEF LocalType
  <2> QED BY <1>24, <2>4 DEF PublishRecoveredFails, TypeOK, LocalType
<1>25. CASE Crash(w)
  BY <1>25, <1>busy, LocalMoves, LocalLeave DEF Crash, TypeOK, LocalType
<1> QED
  BY <1>1, <1>2, <1>3, <1>4, <1>5, <1>6, <1>7, <1>8, <1>9, <1>10, <1>11, <1>12, <1>13, <1>14, <1>15, <1>16, <1>17, <1>18, <1>19, <1>20, <1>21, <1>22, <1>23, <1>24, <1>25 DEF WorkerStep, WorkerFault

-----------------------------------------------------------------------------
(* What a step does to the story of one job.                               *)

SameStory(j) ==
  job'[j].status = job[j].status /\ job'[j].lockedBy = job[j].lockedBy /\ review'[j] = review[j]

\* The job goes from one of the statuses from to status, and its review to one
\* of the statuses verdicts.
Moves(j, from, status, lock, verdicts) ==
  /\ job[j].status \in from /\ job'[j].status = status /\ job'[j].lockedBy \in lock
  /\ review'[j].status \in verdicts /\ review'[j].ad = review[j].ad

Started(j) == Moves(j, Claimable, "RUNNING", WorkerIds, {"ANALYZING"})
Released(j) == \E s \in {"RETRY_PENDING", "STALE"} :
                 Moves(j, {"RUNNING"}, s, {None}, {review[j].status})
Concluded(j) == Moves(j, {"RUNNING"}, "COMPLETED", {None}, Succeeded)
Failed(j) == Moves(j, ActiveJob, "FAILED_FINAL", {None}, {"REVIEW_FAILED"})

OneMoves ==
  \/ \A k \in Job : SameStory(k)
  \/ \E j \in Job : /\ Started(j) \/ Released(j) \/ Concluded(j) \/ Failed(j)
                    /\ \A k \in Job \ {j} : SameStory(k)

KeepsLatest == \A a \in Ad : ad'[a].latest = ad[a].latest

\* Finalize moves one active job to its failure, together with its review.
LEMMA FinalizeEffect ==
  ASSUME TypeOK, NEW j \in Job, NEW c \in Cause, job[j].status \in ActiveJob, Finalize(j, c)
  PROVE  OneMoves
<1>1. job'[j] = [Settled(job[j], "FAILED_FINAL") EXCEPT !.cause = c]
  BY DEF TypeOK, Finalize
<1>2. job'[j].status = "FAILED_FINAL" /\ job'[j].lockedBy = None
  BY <1>1 DEF Settled
<1>3. review'[j].status = "REVIEW_FAILED" /\ review'[j].ad = review[j].ad
  BY DEF TypeOK, ReviewRow, Finalize
<1>4. \A k \in Job \ {j} : job'[k] = job[k] /\ review'[k] = review[k]
  BY DEF TypeOK, Finalize
<1> QED BY <1>2, <1>3, <1>4 DEF OneMoves, Failed, Moves, SameStory

\* A step of a worker moves at most one job along its lifecycle.
LEMMA WorkerEffects ==
  ASSUME TypeOK, WorkersBusy, NEW w \in Worker, WorkerStep(w) \/ WorkerFault(w)
  PROVE  OneMoves /\ KeepsLatest /\ UNCHANGED api
<1> USE LocalFields DEF jobTables, workerSide, apiSide
<1> DEFINE j == Task(w)
<1>busy. worker[w].pc \notin {"idle", "recover"} => j \in Job
  BY DEF WorkersBusy
<1>1. CASE Claim(w)
  <2>1. /\ job' = [job EXCEPT ![j] = [Settled(job[j], "RUNNING") EXCEPT !.lockedBy = WorkerId[w]]]
        /\ review' = [review EXCEPT ![j] = [review[j] EXCEPT !.status = "ANALYZING"]]
        /\ job[j].status \in Claimable /\ j \in Job
    BY <1>1, <1>busy DEF Claim, CanClaim
  <2>2. WorkerId[w] \in WorkerIds
    BY DEF WorkerIds
  <2>3. job'[j].status = "RUNNING" /\ job'[j].lockedBy \in WorkerIds
    <3>1. job'[j] = [Settled(job[j], "RUNNING") EXCEPT !.lockedBy = WorkerId[w]]
      BY <2>1 DEF TypeOK
    <3> QED BY <2>2, <3>1 DEF Settled
  <2>4. review'[j].status = "ANALYZING" /\ review'[j].ad = review[j].ad
    BY <2>1 DEF TypeOK, ReviewRow
  <2>5. \A k \in Job \ {j} : SameStory(k)
    BY <2>1 DEF TypeOK, SameStory
  <2>6. Started(j)
    BY <2>1, <2>3, <2>4 DEF Started, Moves
  <2>7. KeepsLatest /\ UNCHANGED api
    BY <1>1 DEF Claim, KeepsLatest
  <2> QED BY <2>1, <2>5, <2>6, <2>7 DEF OneMoves
<1>2. CASE ClaimIgnored(w)
  BY <1>2 DEF ClaimIgnored, OneMoves, SameStory, KeepsLatest
<1>3. CASE LoadSource(w)
  BY <1>3 DEF LoadSource, OneMoves, SameStory, KeepsLatest
<1>4. CASE SourceMissing(w)
  BY <1>4 DEF SourceMissing, OneMoves, SameStory, KeepsLatest
<1>5. CASE FailClaimError(w)
  <2>1. CASE MayFail(w, j)
    BY <1>5, <1>busy, <2>1, FinalizeEffect DEF FailClaimError, KeepsLatest, MayFail, Owns
  <2>2. CASE ~MayFail(w, j)
    BY <1>5, <2>2 DEF FailClaimError, OneMoves, SameStory, KeepsLatest
  <2> QED BY <2>1, <2>2
<1>6. CASE Advance(w)
  <2>1. CASE Owns(w, j)
    <3>1. job' = [job EXCEPT ![j] = [job[j] EXCEPT !.beatAge = 0]]
      BY <1>6, <2>1 DEF Advance
    <3>2. \A k \in Job : job'[k].status = job[k].status /\ job'[k].lockedBy = job[k].lockedBy
      BY <3>1 DEF TypeOK, JobRow
    <3> QED BY <1>6, <3>2 DEF Advance, OneMoves, SameStory, KeepsLatest
  <2>2. CASE ~Owns(w, j)
    BY <1>6, <2>2 DEF Advance, OneMoves, SameStory, KeepsLatest
  <2> QED BY <2>1, <2>2
<1>7. CASE Parse(w)
  BY <1>7 DEF Parse, OneMoves, SameStory, KeepsLatest
<1>8. CASE ParseFails(w)
  BY <1>8 DEF ParseFails, OneMoves, SameStory, KeepsLatest
<1>9. CASE PutArtifact(w)
  BY <1>9 DEF PutArtifact, OneMoves, SameStory, KeepsLatest
<1>10. CASE PersistSelected(w)
  BY <1>10 DEF PersistSelected, OneMoves, SameStory, KeepsLatest
<1>11. CASE PersistResults(w)
  BY <1>11 DEF PersistResults, OneMoves, SameStory, KeepsLatest
<1>12. CASE PersistSuggestions(w)
  BY <1>12 DEF PersistSuggestions, OneMoves, SameStory, KeepsLatest
<1>13. CASE Complete(w)
  <2>1. CASE Owns(w, j)
    <3> DEFINE status == ReviewStatus(worker[w].parsed, worker[w].check)
    <3>1. /\ job' = [job EXCEPT ![j] = Settled(job[j], "COMPLETED")]
          /\ review' = [review EXCEPT ![j] = [review[j] EXCEPT !.status = status]]
          /\ ad' = [ad EXCEPT ![review[j].ad] = [ad[review[j].ad] EXCEPT !.status = status]]
          /\ j \in Job /\ UNCHANGED api
      BY <1>13, <1>busy, <2>1 DEF Complete
    <3>2. status \in Succeeded
      BY DEF ReviewStatus
    <3>3. job'[j].status = "COMPLETED" /\ job'[j].lockedBy = None
      BY <3>1 DEF TypeOK, Settled
    <3>4. review'[j].status = status /\ review'[j].ad = review[j].ad
      <4> HIDE DEF status, j
      <4> QED BY <3>1 DEF TypeOK, ReviewRow
    <3>5. Concluded(j)
      BY <2>1, <3>2, <3>3, <3>4 DEF Concluded, Moves, Owns
    <3>6. \A k \in Job \ {j} : SameStory(k)
      BY <3>1 DEF TypeOK, SameStory
    <3>7. KeepsLatest
      <4> HIDE DEF status, j
      <4> QED BY <3>1 DEF TypeOK, AdRow, KeepsLatest
    <3> QED BY <3>1, <3>5, <3>6, <3>7 DEF OneMoves
  <2>2. CASE ~Owns(w, j)
    BY <1>13, <2>2 DEF Complete, OneMoves, SameStory, KeepsLatest
  <2> QED BY <2>1, <2>2
<1>14. CASE Retry(w)
  <2>1. CASE ~Owns(w, j)
    BY <1>14, <2>1 DEF Retry, OneMoves, SameStory, KeepsLatest
  <2>2. CASE Owns(w, j) /\ job[j].retries + 1 > MaxRetries
    BY <1>14, <1>busy, <2>2, FinalizeEffect DEF Retry, KeepsLatest, Owns
  <2>3. CASE Owns(w, j) /\ ~(job[j].retries + 1 > MaxRetries)
    <3> DEFINE row == [Settled(job[j], "RETRY_PENDING") EXCEPT !.retries = job[j].retries + 1,
                         !.wait = RetryDelays[job[j].retries + 1], !.leaseAge = StaleAfter]
    <3>1. job' = [job EXCEPT ![j] = row] /\ UNCHANGED <<review, ad, api>> /\ j \in Job
      BY <1>14, <1>busy, <2>3 DEF Retry
    <3>2. row.status = "RETRY_PENDING" /\ row.lockedBy = None
      BY DEF Settled
    <3>3. Released(j)
      <4> HIDE DEF row
      <4> QED BY <2>3, <3>1, <3>2 DEF TypeOK, Released, Moves, Owns
    <3>4. \A k \in Job \ {j} : SameStory(k)
      BY <3>1 DEF TypeOK, SameStory
    <3> QED BY <3>1, <3>3, <3>4 DEF OneMoves, KeepsLatest
  <2> QED BY <2>1, <2>2, <2>3
<1>15. CASE FailFinal(w)
  <2>1. CASE Owns(w, j)
    BY <1>15, <1>busy, <2>1, FinalizeEffect DEF FailFinal, KeepsLatest, MayFail, Owns
  <2>2. CASE ~Owns(w, j)
    BY <1>15, <2>2 DEF FailFinal, OneMoves, SameStory, KeepsLatest
  <2> QED BY <2>1, <2>2
<1>16. CASE DeadLetter(w)
  BY <1>16 DEF DeadLetter, OneMoves, SameStory, KeepsLatest
<1>17. CASE PublishRecovered(w)
  BY <1>17 DEF PublishRecovered, OneMoves, SameStory, KeepsLatest
<1>18. CASE ClaimFails(w)
  BY <1>18 DEF ClaimFails, OneMoves, SameStory, KeepsLatest
<1>19. CASE LoadSourceFails(w)
  BY <1>19 DEF LoadSourceFails, OneMoves, SameStory, KeepsLatest
<1>20. CASE PutFails(w)
  BY <1>20 DEF PutFails, OneMoves, SameStory, KeepsLatest
<1>21. CASE StepFails(w)
  BY <1>21 DEF StepFails, OneMoves, SameStory, KeepsLatest
<1>22. CASE HandlerFails(w)
  BY <1>22 DEF HandlerFails, OneMoves, SameStory, KeepsLatest
<1>23. CASE DeadLetterLost(w)
  BY <1>23 DEF DeadLetterLost, OneMoves, SameStory, KeepsLatest
<1>24. CASE PublishRecoveredFails(w)
  BY <1>24 DEF PublishRecoveredFails, OneMoves, SameStory, KeepsLatest
<1>25. CASE Crash(w)
  BY <1>25 DEF Crash, OneMoves, SameStory, KeepsLatest
<1> QED
  BY <1>1, <1>2, <1>3, <1>4, <1>5, <1>6, <1>7, <1>8, <1>9, <1>10, <1>11, <1>12, <1>13, <1>14, <1>15, <1>16, <1>17, <1>18, <1>19, <1>20, <1>21, <1>22, <1>23, <1>24, <1>25 DEF WorkerStep, WorkerFault

-----------------------------------------------------------------------------
(* The steps of API threads, administrators, queue, recovery and time.     *)

\* Requests keep the types.
LEMMA ClientTypes ==
  ASSUME TypeOK, WorkersBusy, ClientsBusy, NEW c \in Client, ApiStep(c)
  PROVE  TypeOK' /\ WorkersBusy'
<1> USE DEF jobTables, workerSide
<1>idle. /\ IdleClient \in ClientState
         /\ \A a \in Ad, j \in Job, pc \in {"add", "publish"} :
              [pc |-> pc, ad |-> a, job |-> j] \in ClientState
  BY DEF IdleClient, ClientState
<1>1. CASE Request(c)
  <2>1. PICK a \in Ad, j \in Job : api' = [api EXCEPT ![c] = [pc |-> "add", ad |-> a, job |-> j]]
    BY <1>1 DEF Request
  <2>2. api' \in [Client -> ClientState]
    BY <1>idle, <2>1, TableUpdate DEF TypeOK
  <2> QED BY <1>1, <2>2 DEF Request, TypeOK, WorkersBusy
<1>2. CASE Add(c)
  <2> DEFINE a == api[c].ad
             j == api[c].job
  <2>1. a \in Ad /\ j \in Job
    BY <1>2 DEF Add, ClientsBusy
  <2>2. /\ job' = [job EXCEPT ![j] = [job[j] EXCEPT !.status = "PENDING"]]
        /\ review' = [review EXCEPT ![j] = [status |-> "ANALYSIS_REQUESTED", ad |-> a,
                                            files |-> ad[a].files]]
        /\ ad' = [ad EXCEPT ![a] = [ad[a] EXCEPT !.latest = j, !.status = "ANALYSIS_REQUESTED"]]
        /\ api' = [api EXCEPT ![c] = [api[c] EXCEPT !.pc = "publish"]]
        /\ UNCHANGED <<step, saved, worker, deadLetter, queue, faults>>
    BY <1>2 DEF Add
  <2>3. ad[a] \in AdRow /\ api[c] \in ClientState
    BY <2>1 DEF TypeOK
  <2>4. ad[a].files \in 0 .. MaxFiles
    BY <2>3, ConstantsAssumption DEF ConstantsAssumption, AdRow
  <2>5. [job[j] EXCEPT !.status = "PENDING"] \in JobRow
    BY <2>1, Columns DEF TypeOK
  <2>6. [status |-> "ANALYSIS_REQUESTED", ad |-> a, files |-> ad[a].files] \in ReviewRow
    BY <2>1, <2>4 DEF ReviewRow
  <2>7. [ad[a] EXCEPT !.latest = j, !.status = "ANALYSIS_REQUESTED"] \in AdRow
    BY <2>1, <2>3 DEF AdRow
  <2>8. [api[c] EXCEPT !.pc = "publish"] \in ClientState
    BY <2>3 DEF ClientState
  <2>9. /\ job' \in [Job -> JobRow] /\ review' \in [Job -> ReviewRow]
        /\ ad' \in [Ad -> AdRow] /\ api' \in [Client -> ClientState]
    <3> HIDE DEF a, j
    <3> QED BY <2>1, <2>2, <2>5, <2>6, <2>7, <2>8, TableUpdate DEF TypeOK
  <2> QED BY <2>2, <2>9 DEF TypeOK, WorkersBusy
<1>3. CASE AddRefused(c)
  <2>1. api' \in [Client -> ClientState]
    BY <1>3, <1>idle, TableUpdate DEF AddRefused, TypeOK
  <2> QED BY <1>3, <2>1 DEF AddRefused, TypeOK, WorkersBusy
<1>4. CASE Publish(c)
  <2>1. api' \in [Client -> ClientState]
    BY <1>4, <1>idle, TableUpdate DEF Publish, TypeOK
  <2>2. queue' \in Seq(Job)
    BY <1>4 DEF Publish, TypeOK, ClientsBusy
  <2> QED BY <1>4, <2>1, <2>2 DEF Publish, TypeOK, WorkersBusy
<1>5. CASE PublishLost(c)
  <2>1. api' \in [Client -> ClientState]
    BY <1>5, <1>idle, TableUpdate DEF PublishLost, TypeOK
  <2> QED BY <1>5, <2>1, LocalFields DEF PublishLost, TypeOK, WorkersBusy
<1> QED BY <1>1, <1>2, <1>3, <1>4, <1>5 DEF ApiStep

\* So do revisions and deletions of advertisements.
LEMMA AdTypes ==
  ASSUME TypeOK, WorkersBusy, NEW a \in Ad, Revise(a) \/ DeleteAd(a) \/ RemoveFiles(a)
  PROVE  /\ TypeOK' /\ WorkersBusy'
         /\ KeepsLatest /\ UNCHANGED <<job, review, api>>
<1> USE DEF jobTables, workerSide
<1>1. ad[a] \in AdRow /\ ad \in [Ad -> AdRow]
  BY DEF TypeOK
<1>2. CASE Revise(a)
  <2>1. [ad[a] EXCEPT !.files = ad[a].files + 1, !.status = "REVISED"] \in AdRow
    <3>1. ad[a].files \in 1 .. MaxFiles /\ ad[a].files < MaxFiles /\ MaxFiles \in Nat
      BY <1>1, <1>2, ConstantsAssumption DEF ConstantsAssumption, Revise, AdRow
    <3>2. ad[a].files + 1 \in 1 .. MaxFiles
      BY <3>1
    <3> QED BY <1>1, <3>2 DEF AdRow
  <2>2. ad' = [ad EXCEPT ![a] = [ad[a] EXCEPT !.files = ad[a].files + 1, !.status = "REVISED"]]
    BY <1>2 DEF Revise
  <2>3. ad' \in [Ad -> AdRow] /\ KeepsLatest
    BY <1>1, <2>1, <2>2 DEF KeepsLatest, AdRow
  <2> QED BY <1>2, <2>3 DEF Revise, TypeOK, WorkersBusy
<1>3. CASE DeleteAd(a) \/ RemoveFiles(a)
  <2>1. PICK life \in {"deleted", "gone"} : ad' = [ad EXCEPT ![a] = [ad[a] EXCEPT !.life = life]]
    BY <1>3 DEF DeleteAd, RemoveFiles
  <2>2. ad' \in [Ad -> AdRow] /\ KeepsLatest
    BY <1>1, <2>1 DEF KeepsLatest, AdRow
  <2> QED BY <1>3, <2>2 DEF DeleteAd, RemoveFiles, TypeOK, WorkersBusy
<1> QED BY <1>2, <1>3

AnyMove(j) == SameStory(j) \/ Started(j) \/ Released(j) \/ Concluded(j) \/ Failed(j)

\* Deliveries, heartbeats, recovery, losses of the queue and the clock keep the
\* types; of these only recovery changes a status, and it only releases jobs.
LEMMA QueueAndTime ==
  ASSUME TypeOK, WorkersBusy,
         (\E w \in Worker : Pop(w) \/ Recover(w) \/ Heartbeat(w)) \/ RedisLoss \/ Tick \/ Stall
  PROVE  /\ TypeOK' /\ WorkersBusy'
         /\ \A k \in Job : SameStory(k) \/ Released(k)
         /\ KeepsLatest /\ UNCHANGED <<api, deadLetter>>
<1> USE LocalFields, PCs DEF jobTables, workerSide, apiSide, KeepsLatest
<1>1. ASSUME NEW w \in Worker, Pop(w)
      PROVE  TypeOK' /\ WorkersBusy' /\ UNCHANGED <<job, review, ad, api, deadLetter>>
  <2>1. Head(queue) \in Job /\ Tail(queue) \in Seq(Job)
    <3>1. queue \in Seq(Job)
      BY DEF TypeOK
    <3>2. queue # <<>>
      BY <1>1 DEF Pop
    <3> QED BY <3>1, <3>2
  <2>2. worker[w] \in WorkerState /\ worker \in [Worker -> WorkerState]
    BY DEF TypeOK
  <2>3. [worker[w] EXCEPT !.pc = "claim", !.task = Head(queue)] \in WorkerState
    BY <2>1, <2>2 DEF WorkerState
  <2>4. worker' = [worker EXCEPT ![w] = [worker[w] EXCEPT !.pc = "claim", !.task = Head(queue)]]
    BY <1>1 DEF Pop
  <2>5. worker' \in [Worker -> WorkerState]
    BY <2>2, <2>3, <2>4, TableUpdate
  <2>6. worker'[w].task \in Job
    BY <2>1, <2>2, <2>4 DEF WorkerState
  <2>7. WorkersBusy'
    BY <2>2, <2>4, <2>6 DEF WorkersBusy
  <2> QED BY <1>1, <2>1, <2>5, <2>7 DEF Pop, TypeOK
<1>2. ASSUME NEW w \in Worker, Recover(w)
      PROVE  /\ TypeOK' /\ WorkersBusy' /\ UNCHANGED <<review, ad, api, deadLetter>>
             /\ \A k \in Job : SameStory(k) \/ Released(k)
  <2>1. PICK stale \in SUBSET Job, due \in SUBSET Job :
          /\ \A k \in stale : job[k].status = "RUNNING"
          /\ job' = [k \in Job |-> IF k \in stale THEN Settled(job[k], "STALE")
                                   ELSE IF k \in due THEN [job[k] EXCEPT !.leaseAge = 0]
                                   ELSE job[k]]
          /\ worker' = [worker EXCEPT ![w] = [worker[w] EXCEPT !.pc = "recover", !.outbox = due]]
    BY <1>2 DEF Recover, Stale
  <2>2. worker[w] \in WorkerState /\ worker \in [Worker -> WorkerState]
    BY DEF TypeOK
  <2>3. [worker[w] EXCEPT !.pc = "recover", !.outbox = due] \in WorkerState
    BY <2>2 DEF WorkerState
  <2>4. worker' \in [Worker -> WorkerState] /\ WorkersBusy'
    <3>1. worker' \in [Worker -> WorkerState]
      BY <2>1, <2>2, <2>3, TableUpdate
    <3>2. worker'[w].pc = "recover" /\ \A x \in Worker \ {w} : worker'[x] = worker[x]
      BY <2>1, <2>2 DEF WorkerState
    <3> QED BY <3>1, <3>2 DEF WorkersBusy
  <2>5. \A k \in Job : /\ Settled(job[k], "STALE") \in JobRow
                       /\ [job[k] EXCEPT !.leaseAge = 0] \in JobRow /\ job[k] \in JobRow
    BY SettledRow, Columns DEF TypeOK
  <2>6. job' \in [Job -> JobRow]
    BY <2>1, <2>5
  <2>7. ASSUME NEW k \in Job PROVE SameStory(k) \/ Released(k)
    <3>1. CASE k \in stale
      <4>1. job'[k] = Settled(job[k], "STALE") /\ job[k].status = "RUNNING"
        BY <2>1, <3>1
      <4>2. job'[k].status = "STALE" /\ job'[k].lockedBy = None
        BY <4>1 DEF Settled
      <4>3. review' = review
        BY <1>2 DEF Recover
      <4> QED BY <4>1, <4>2, <4>3 DEF Released, Moves
    <3>2. CASE k \notin stale
      <4>1. job'[k].status = job[k].status /\ job'[k].lockedBy = job[k].lockedBy
        BY <2>1, <2>5, <3>2 DEF JobRow
      <4> QED BY <1>2, <4>1 DEF Recover, SameStory
    <3> QED BY <3>1, <3>2
  <2> QED BY <1>2, <2>4, <2>6, <2>7 DEF Recover, TypeOK
<1>3. ASSUME NEW w \in Worker, Heartbeat(w)
      PROVE  /\ TypeOK' /\ WorkersBusy' /\ UNCHANGED <<review, ad, api, deadLetter>>
             /\ \A k \in Job : SameStory(k)
  <2>1. Task(w) \in Job
    BY <1>3 DEF Heartbeat, WorkersBusy, Processing, Stage, Advancing
  <2>2. job' = [job EXCEPT ![Task(w)] = [job[Task(w)] EXCEPT !.beatAge = 0]]
    BY <1>3 DEF Heartbeat
  <2>3. [job[Task(w)] EXCEPT !.beatAge = 0] \in JobRow
    BY <2>1, Columns DEF TypeOK
  <2>4. job' \in [Job -> JobRow]
    BY <2>1, <2>2, <2>3, TableUpdate DEF TypeOK
  <2>5. \A k \in Job : job'[k].status = job[k].status /\ job'[k].lockedBy = job[k].lockedBy
    BY <2>2 DEF TypeOK, JobRow
  <2> QED BY <1>3, <2>4, <2>5 DEF Heartbeat, TypeOK, SameStory, WorkersBusy
<1>4. CASE RedisLoss
  <2>1. PICK n \in 1 .. Len(queue) : queue' = SubSeq(queue, 1, n - 1)
    BY <1>4 DEF RedisLoss
  <2>2. queue' \in Seq(Job)
    BY <2>1 DEF TypeOK
  <2> QED BY <1>4, <2>2 DEF RedisLoss, TypeOK, SameStory, WorkersBusy
<1>5. CASE Tick \/ Stall
  <2>1. job' = [k \in Job |-> Aged(job[k])] /\ faults' \in 0 .. MaxFaults
        /\ UNCHANGED <<review, step, saved, worker, deadLetter, api, ad, queue>>
    BY <1>5 DEF Tick, Stall, PassTime, TypeOK
  <2>2. \A k \in Job : /\ Aged(job[k]) \in JobRow /\ Aged(job[k]).status = job[k].status
                       /\ Aged(job[k]).lockedBy = job[k].lockedBy
    BY AgedRow DEF TypeOK
  <2>3. job' \in [Job -> JobRow] /\ \A k \in Job : SameStory(k)
    BY <2>1, <2>2 DEF SameStory
  <2> QED BY <2>1, <2>3 DEF TypeOK, WorkersBusy
<1> QED BY <1>1, <1>2, <1>3, <1>4, <1>5 DEF SameStory

-----------------------------------------------------------------------------
(* The invariant is inductive.                                             *)

\* A job that moves along its lifecycle takes its review with it.
LEMMA StoryKept ==
  ASSUME JobReviewAgree, ActiveIsLatest, ClientsBusy,
         \A j \in Job : AnyMove(j), KeepsLatest, UNCHANGED api
  PROVE  JobReviewAgree' /\ ActiveIsLatest' /\ ClientsBusy'
<1> USE DEF AnyMove, SameStory, Started, Released, Concluded, Failed, Moves
<1>1. JobReviewAgree'
  BY ConstantsAssumption DEF ConstantsAssumption, JobReviewAgree
<1>2. ASSUME NEW j \in Job, job'[j].status \in ActiveJob
      PROVE  review'[j].ad \in Ad /\ ad'[review'[j].ad].latest = j
  BY <1>2 DEF ActiveIsLatest, KeepsLatest
<1>3. \A j \in Job : job[j].status = "NONE" => job'[j].status = "NONE"
  OBVIOUS
<1>4. ClientsBusy'
  BY <1>3 DEF ClientsBusy
<1> QED BY <1>1, <1>2, <1>4 DEF ActiveIsLatest

\* Only add inserts a row, and it inserts a job and a review that agree; the
\* active review it did not find is the one active job it did not displace.
LEMMA ClientStory ==
  ASSUME TypeOK, JobReviewAgree, ActiveIsLatest, ClientsBusy, NEW c \in Client, ApiStep(c)
  PROVE  JobReviewAgree' /\ ActiveIsLatest' /\ ClientsBusy'
<1> USE DEF jobTables
<1>1. api \in [Client -> ClientState]
  BY DEF TypeOK
<1>2. CASE Request(c)
  <2>1. PICK a \in Ad, j \in Job :
          /\ api' = [api EXCEPT ![c] = [pc |-> "add", ad |-> a, job |-> j]]
          /\ job[j].status = "NONE" /\ \A d \in Client : api[d].job # j
    BY <1>2 DEF Request
  <2>2. UNCHANGED <<job, review, ad>>
    BY <1>2 DEF Request
  <2>3. api'[c] = [pc |-> "add", ad |-> a, job |-> j] /\ \A d \in Client \ {c} : api'[d] = api[d]
    BY <1>1, <2>1
  <2>4. ClientsBusy'
    BY <2>1, <2>2, <2>3 DEF ClientsBusy
  <2> QED BY <2>2, <2>4 DEF JobReviewAgree, ActiveIsLatest
<1>3. CASE Add(c)
  <2> DEFINE a == api[c].ad
             j == api[c].job
  <2>1. a \in Ad /\ j \in Job /\ job[j].status = "NONE" /\ \A d \in Client : api[d].job = j => d = c
    BY <1>3 DEF Add, ClientsBusy
  <2>2. /\ job' = [job EXCEPT ![j] = [job[j] EXCEPT !.status = "PENDING"]]
        /\ review' = [review EXCEPT ![j] = [status |-> "ANALYSIS_REQUESTED", ad |-> a,
                                            files |-> ad[a].files]]
        /\ ad' = [ad EXCEPT ![a] = [ad[a] EXCEPT !.latest = j, !.status = "ANALYSIS_REQUESTED"]]
        /\ api' = [api EXCEPT ![c] = [api[c] EXCEPT !.pc = "publish"]]
        /\ ~HasActiveReview(a)
    BY <1>3 DEF Add
  <2> HIDE DEF a, j
  <2>3. job'[j].status = "PENDING" /\ job'[j].lockedBy = job[j].lockedBy
    BY <2>1, <2>2 DEF TypeOK, JobRow
  <2>4. review'[j].status = "ANALYSIS_REQUESTED" /\ review'[j].ad = a
    BY <2>1, <2>2 DEF TypeOK
  <2>5. ad'[a].latest = j /\ \A b \in Ad \ {a} : ad'[b] = ad[b]
    BY <2>1, <2>2 DEF TypeOK, AdRow
  <2>6. \A k \in Job \ {j} : job'[k] = job[k] /\ review'[k] = review[k]
    BY <2>1, <2>2 DEF TypeOK
  <2>7. JobReviewAgree'
    BY <2>1, <2>3, <2>4, <2>6 DEF JobReviewAgree
  <2>8. \A k \in Job \ {j} : job[k].status \in ActiveJob => review[k].ad # a
    BY <2>2 DEF JobReviewAgree, HasActiveReview
  <2>9. ActiveIsLatest'
    BY <2>1, <2>4, <2>5, <2>6, <2>8 DEF ActiveIsLatest
  <2>10. /\ api'[c].pc = "publish" /\ api'[c].ad \in Ad /\ api'[c].job = j
         /\ \A d \in Client \ {c} : api'[d] = api[d]
    BY <1>1, <2>1, <2>2 DEF ClientState, a, j
  <2>11. ClientsBusy'
    BY <2>1, <2>6, <2>10 DEF ClientsBusy
  <2> QED BY <2>7, <2>9, <2>11
<1>4. CASE AddRefused(c) \/ Publish(c) \/ PublishLost(c)
  <2>1. api' = [api EXCEPT ![c] = IdleClient] /\ UNCHANGED <<job, review, ad>>
    BY <1>4 DEF AddRefused, Publish, PublishLost
  <2>2. /\ api'[c].pc = "idle" /\ api'[c].job \notin Job
        /\ \A d \in Client \ {c} : api'[d] = api[d]
    BY <1>1, <2>1, ConstantsAssumption DEF ConstantsAssumption, IdleClient
  <2>3. ClientsBusy'
    BY <2>1, <2>2 DEF ClientsBusy
  <2> QED BY <2>1, <2>3 DEF JobReviewAgree, ActiveIsLatest
<1> QED BY <1>2, <1>3, <1>4 DEF ApiStep

\* The empty tables satisfy the invariant.
LEMMA InitInvariant ==
  ASSUME Init
  PROVE  IInv
<1>1. TypeOK
  <2>1. NoJob \in JobRow /\ NoReview \in ReviewRow /\ NoResult \in ResultRow /\ NewAd \in AdRow
    BY ConstantsAssumption DEF ConstantsAssumption, NoJob, JobRow, NoReview, ReviewRow, NoResult,
       ResultRow, NewAd, AdRow, Cause, MaxRetries
  <2>2. IdleClient \in ClientState /\ IdleWorker \in WorkerState
    BY WorkerColumns, PCs DEF IdleClient, ClientState, IdleWorker, WorkerState, Cause
  <2>3. [s \in Step |-> "PENDING"] \in [Step -> StepStatus]
    BY DEF StepStatus
  <2> QED BY <2>1, <2>2, <2>3, ConstantsAssumption DEF ConstantsAssumption, Init, TypeOK
<1>2. WorkersBusy /\ ClientsBusy
  BY DEF Init, WorkersBusy, ClientsBusy, IdleWorker, IdleClient
<1>3. JobReviewAgree /\ ActiveIsLatest
  BY DEF Init, JobReviewAgree, ActiveIsLatest, NoJob, NoReview
<1> QED BY <1>1, <1>2, <1>3 DEF IInv

\* Every step, and a stutter, keeps the invariant.
LEMMA NextInvariant ==
  ASSUME IInv, [Next]_vars
  PROVE  IInv'
<1>1. CASE \E c \in Client : ApiStep(c)
  BY <1>1, ClientTypes, ClientStory DEF IInv
<1>2. CASE \E a \in Ad : Revise(a) \/ DeleteAd(a) \/ RemoveFiles(a)
  <2>1. TypeOK' /\ WorkersBusy' /\ KeepsLatest /\ UNCHANGED <<job, review, api>>
    BY <1>2, AdTypes DEF IInv
  <2> QED BY <2>1, StoryKept DEF IInv, AnyMove, SameStory
<1>3. CASE \E w \in Worker : WorkerStep(w) \/ WorkerFault(w)
  <2>1. TypeOK' /\ WorkersBusy' /\ OneMoves /\ KeepsLatest /\ UNCHANGED api
    BY <1>3, WorkerTypes, WorkerEffects DEF IInv
  <2> QED BY <2>1, StoryKept DEF IInv, AnyMove, OneMoves
<1>4. CASE (\E w \in Worker : Pop(w) \/ Recover(w) \/ Heartbeat(w)) \/ RedisLoss \/ Tick \/ Stall
  BY <1>4, QueueAndTime, StoryKept DEF IInv, AnyMove
<1>5. CASE UNCHANGED vars
  BY <1>5 DEF vars, IInv, TypeOK, WorkersBusy, ClientsBusy, JobReviewAgree, ActiveIsLatest
<1> QED BY <1>1, <1>2, <1>3, <1>4, <1>5 DEF Next

\* The strengthened invariant, from which the invariants of the runs follow,
\* holds in every reachable state.
THEOREM Inductive == Spec => []IInv
<1>1. Init => IInv
  BY InitInvariant
<1>2. IInv /\ [Next]_vars => IInv'
  BY NextInvariant
<1> QED BY <1>1, <1>2, PTL DEF Spec

-----------------------------------------------------------------------------
(* The theorems.                                                           *)

\* The rows, the lists and the local states of threads and workers always
\* have the values the schema and the code give them (postgres.py, jobs.py).
THEOREM TypesHold == Spec => []TypeOK
<1>1. IInv => TypeOK
  BY DEF IInv
<1> QED BY <1>1, Inductive, PTL

\* However many workers claim, retry, crash and recover, job and review tell
\* the same story (the transactions of postgres.py).
THEOREM JobAndReviewAgree == Spec => []JobReviewAgree
<1>1. IInv => JobReviewAgree
  BY DEF IInv
<1> QED BY <1>1, Inductive, PTL

\* However many threads request a review of one advertisement at once, it
\* never has two active jobs (reviews.py, uk_reviews_active_advertisement).
THEOREM OneActiveReview == Spec => []OneActiveReviewPerAd
<1>1. IInv => OneActiveReviewPerAd
  BY DEF IInv, ActiveIsLatest, OneActiveReviewPerAd
<1> QED BY <1>1, Inductive, PTL

-----------------------------------------------------------------------------
(* ReviewJobs implements ReviewLifecycle: the rows map to the phases by     *)
(* their job_status.                                                        *)

phases == [j \in Job |-> Life(j)]
adOf == [j \in Job |-> review[j].ad]
latestOf == [a \in Ad |-> ad[a].latest]

\* The phase of a job is a function of its status.
LEMMA LifeIs ==
  ASSUME NEW j \in Job
  PROVE  /\ job[j].status = "NONE" => Life(j) = "none"
         /\ job[j].status \in Claimable => Life(j) = "waiting"
         /\ job[j].status = "RUNNING" => Life(j) = "working"
         /\ job[j].status = "COMPLETED" => Life(j) = "done"
         /\ job[j].status = "FAILED_FINAL" => Life(j) = "failed"
BY DEF Life, LifeOf

\* Empty tables map to reviews that are not there yet.
LEMMA InitRefines ==
  ASSUME Init
  PROVE  Lifecycle!Init
<1>1. \A j \in Job : Life(j) = "none" /\ review[j].ad = None
  BY LifeIs DEF Init, NoJob, NoReview
<1>2. \A a \in Ad : ad[a].latest = None
  BY DEF Init, NewAd
<1> QED BY <1>1, <1>2 DEF Lifecycle!Init

\* A step that moves no job, or releases some, and leaves the latest reviews
\* alone is a stutter or a release of the abstract lifecycle.
LEMMA ReleasesRefine ==
  ASSUME \A j \in Job : SameStory(j) \/ Released(j), KeepsLatest
  PROVE  Lifecycle!Next
<1> DEFINE R == {j \in Job : Released(j)}
<1>1. \A j \in Job : review'[j].ad = review[j].ad
  BY DEF SameStory, Released, Moves
<1>2. \A j \in R : Life(j) = "working" /\ Life(j)' = "waiting"
  BY DEF Released, Moves, Life, LifeOf
<1>3. \A j \in Job \ R : Life(j)' = Life(j)
  BY DEF SameStory, Life
<1>4. \A j \in R : phases[j] = "working"
  BY <1>2 DEF phases
<1>5. phases' = [j \in Job |-> IF j \in R THEN "waiting" ELSE phases[j]]
  BY <1>2, <1>3 DEF phases
<1>6. adOf' = adOf /\ latestOf' = latestOf
  BY <1>1 DEF adOf, latestOf, KeepsLatest
<1>7. Lifecycle!ReleaseAll(R)
  BY <1>4, <1>5, <1>6 DEF Lifecycle!ReleaseAll, phases, adOf, latestOf
<1>8. R \in SUBSET Job
  OBVIOUS
<1> QED BY <1>7, <1>8 DEF Lifecycle!Next

\* A step that moves one job along its lifecycle is a step of it.
LEMMA MovesRefine ==
  ASSUME OneMoves, KeepsLatest
  PROVE  Lifecycle!Next
<1>1. CASE \A k \in Job : SameStory(k)
  BY <1>1, ReleasesRefine
<1>2. ASSUME NEW j \in Job, Started(j) \/ Released(j) \/ Concluded(j) \/ Failed(j),
             \A k \in Job \ {j} : SameStory(k)
      PROVE  Lifecycle!Next
  <2>1. adOf' = adOf /\ latestOf' = latestOf
    BY <1>2 DEF adOf, latestOf, KeepsLatest, SameStory, Started, Released, Concluded, Failed, Moves
  <2>2. \A k \in Job \ {j} : Life(k)' = Life(k)
    BY <1>2 DEF SameStory, Life
  <2>3. CASE Started(j)
    <3>1. Life(j) = "waiting" /\ Life(j)' = "working"
      BY <2>3 DEF Started, Moves, Life, LifeOf
    <3>2. phases[j] \in {"waiting"} /\ phases' = [phases EXCEPT ![j] = "working"]
      BY <2>2, <3>1 DEF phases
    <3> QED BY <2>1, <3>2 DEF Lifecycle!Next, Lifecycle!Start, Lifecycle!Become, phases, adOf, latestOf
  <2>4. CASE Released(j)
    BY <1>2, <2>4, ReleasesRefine
  <2>5. CASE Concluded(j)
    <3>1. Life(j) = "working" /\ Life(j)' = "done"
      BY <2>5 DEF Concluded, Moves, Life, LifeOf
    <3>2. phases[j] \in {"working"} /\ phases' = [phases EXCEPT ![j] = "done"]
      BY <2>2, <3>1 DEF phases
    <3> QED BY <2>1, <3>2 DEF Lifecycle!Next, Lifecycle!Conclude, Lifecycle!Become, phases, adOf, latestOf
  <2>6. CASE Failed(j)
    <3>1. Life(j) \in Lifecycle!Unfinished /\ Life(j)' = "failed"
      BY <2>6 DEF Failed, Moves, Life, LifeOf, Lifecycle!Unfinished
    <3>2. phases[j] \in Lifecycle!Unfinished /\ phases' = [phases EXCEPT ![j] = "failed"]
      BY <2>2, <3>1 DEF phases
    <3> QED BY <2>1, <3>2 DEF Lifecycle!Next, Lifecycle!Abandon, Lifecycle!Become, phases, adOf, latestOf
  <2> QED BY <1>2, <2>3, <2>4, <2>5, <2>6
<1> QED BY <1>1, <1>2 DEF OneMoves

\* The insert of add is a submission: the active review it does not find is
\* the unfinished one the lifecycle excludes.
LEMMA AddRefines ==
  ASSUME IInv, NEW c \in Client, Add(c)
  PROVE  Lifecycle!Next
<1>1. PICK a \in Ad, j \in Job : a = api[c].ad /\ j = api[c].job /\ job[j].status = "NONE"
  BY DEF Add, IInv, ClientsBusy
<1>2. /\ job' = [job EXCEPT ![j] = [job[j] EXCEPT !.status = "PENDING"]]
      /\ review' = [review EXCEPT ![j] = [status |-> "ANALYSIS_REQUESTED", ad |-> a,
                                          files |-> ad[a].files]]
      /\ ad' = [ad EXCEPT ![a] = [ad[a] EXCEPT !.latest = j, !.status = "ANALYSIS_REQUESTED"]]
      /\ ~HasActiveReview(a)
  BY <1>1 DEF Add
<1>3. Life(j) = "none" /\ Life(j)' = "waiting"
  <2>1. job'[j].status = "PENDING"
    BY <1>1, <1>2 DEF IInv, TypeOK, JobRow
  <2> QED BY <1>1, <2>1 DEF Life, LifeOf
<1>4. \A k \in Job : k # j => Life(k)' = Life(k) /\ review'[k] = review[k]
  BY <1>1, <1>2 DEF Life, IInv, TypeOK
<1>5. \A k \in Job : adOf[k] = a => phases[k] \notin Lifecycle!Unfinished
  <2>1. \A k \in Job : review[k].ad = a => job[k].status \notin ActiveJob
    BY <1>2 DEF IInv, JobReviewAgree, HasActiveReview
  <2>2. \A k \in Job : job[k].status \notin ActiveJob => Life(k) \notin Lifecycle!Unfinished
    BY DEF IInv, TypeOK, JobRow, Life, LifeOf, Lifecycle!Unfinished
  <2> QED BY <2>1, <2>2 DEF adOf, phases
<1>6. phases[j] = "none" /\ phases' = [phases EXCEPT ![j] = "waiting"]
  BY <1>1, <1>3, <1>4 DEF phases
<1>7. adOf' = [adOf EXCEPT ![j] = a]
  BY <1>1, <1>2, <1>4 DEF adOf, IInv, TypeOK
<1>8. latestOf' = [latestOf EXCEPT ![a] = j]
  <2>1. ad \in [Ad -> AdRow] /\ ad[a] \in AdRow
    BY DEF IInv, TypeOK
  <2>2. ad'[a].latest = j /\ \A b \in Ad \ {a} : ad'[b] = ad[b]
    BY <1>2, <2>1 DEF AdRow
  <2> QED BY <1>1, <2>1, <2>2 DEF latestOf
<1>9. Lifecycle!Submit(a, j)
  BY <1>5, <1>6, <1>7, <1>8 DEF Lifecycle!Submit, phases, adOf, latestOf
<1> QED BY <1>1, <1>9 DEF Lifecycle!Next

\* Every step of the rows is a step of the lifecycle or a stutter.
LEMMA NextRefines ==
  ASSUME IInv, [Next]_vars
  PROVE  [Lifecycle!Next]_(Lifecycle!vars)
<1>1. ASSUME NEW c \in Client, ApiStep(c)
      PROVE  [Lifecycle!Next]_(Lifecycle!vars)
  <2>1. CASE Add(c)
    BY <2>1, AddRefines
  <2>2. CASE ~Add(c)
    <3>1. UNCHANGED <<job, review, ad>>
      BY <1>1, <2>2 DEF ApiStep, Request, AddRefused, Publish, PublishLost, jobTables
    <3> QED BY <3>1, ReleasesRefine DEF SameStory, KeepsLatest
  <2> QED BY <2>1, <2>2
<1>2. CASE \E a \in Ad : Revise(a) \/ DeleteAd(a) \/ RemoveFiles(a)
  BY <1>2, AdTypes, ReleasesRefine DEF IInv, SameStory
<1>3. CASE \E w \in Worker : WorkerStep(w) \/ WorkerFault(w)
  BY <1>3, WorkerEffects, MovesRefine DEF IInv
<1>4. CASE (\E w \in Worker : Pop(w) \/ Recover(w) \/ Heartbeat(w)) \/ RedisLoss \/ Tick \/ Stall
  BY <1>4, QueueAndTime, ReleasesRefine DEF IInv
<1>5. CASE UNCHANGED vars
  BY <1>5 DEF vars, Lifecycle!vars, Life
<1> QED BY <1>1, <1>2, <1>3, <1>4, <1>5 DEF Next

\* The rows of PostgreSQL implement the lifecycle the service promises: at
\* most one unfinished review per advertisement, work only between a claim and
\* a release, and an end that is final (postgres.py, reviews.py).
THEOREM RowsImplementLifecycle == Spec => ImplementsLifecycle
<1>1. Init => Lifecycle!Init
  BY InitRefines
<1>2. IInv /\ [Next]_vars => [Lifecycle!Next]_(Lifecycle!vars)
  BY NextRefines
<1> QED BY <1>1, <1>2, Inductive, PTL DEF Spec, ImplementsLifecycle, Lifecycle!Spec

-----------------------------------------------------------------------------
(* What a run leaves behind (artifact, blocks, items, suggestions), its     *)
(* dead letter, and the status its advertisement shows: the invariants that *)
(* relate the tables to where the processes stand.                          *)

\* The positions of process after the parse, after persist_selected and after
\* persist_results.
HasParsed == {"layout", "put", "persist", "rule", "rag", "result", "results", "suggest",
              "complete"}
HasSelected == {"rule", "rag", "result", "results", "suggest", "complete"}
HasItems == {"suggest", "complete"}

\* A process past a stage finds what that stage stored, even after it lost the
\* lease: nothing stored is ever taken back.
Reached(w) ==
  /\ worker[w].pc \in HasParsed => worker[w].parsed \in Output
  /\ worker[w].pc \in HasSelected => saved[Task(w)].selected # None
  /\ worker[w].pc \in HasItems => saved[Task(w)].items # None
  /\ worker[w].pc = "complete" /\ Task(w) \in Suggesting => saved[Task(w)].suggested

StagesReached == \A w \in Worker : Reached(w)

\* Only a process that has just finalised a job is about to send its dead
\* letter, and none was sent before.
OneSender ==
  \A w \in Worker : worker[w].pc = "dead" =>
    /\ job[Task(w)].status = "FAILED_FINAL" /\ deadLetter[Task(w)] = 0
    /\ \A v \in Worker : worker[v].pc = "dead" /\ Task(v) = Task(w) => v = w

\* Only retry_or_dead_letter records a transient failure, and only a job that
\* has failed has a recorded cause.
Causes ==
  /\ \A w \in Worker : worker[w].pc \in {"fail", "claimError"} => worker[w].cause # "transient"
  /\ \A j \in Job : job[j].status # "FAILED_FINAL" => job[j].cause # "transient"

\* The latest review of an advertisement is a review of it.
LatestIsOwn ==
  \A a \in Ad : ad[a].latest # None =>
    review[ad[a].latest].ad = a /\ review[ad[a].latest].status # "NONE"

\* The inductive invariant: what the tables promise depends on how far the
\* processes have come and which of them is about to write.
CInv == /\ IInv /\ StagesReached /\ CheckpointCoherent
        /\ OneSender /\ Causes /\ DeadLetterSound
        /\ LatestIsOwn /\ AdStatusFollows

-----------------------------------------------------------------------------
(* Where one step leaves the processes.                                    *)

OthersStay(w) == \A x \in Worker \ {w} : worker'[x] = worker[x]

\* What each helper that moves a process does to its local state.
LEMMA Positions ==
  ASSUME TypeOK, NEW w \in Worker
  PROVE  /\ \A pc : Goto(w, pc) =>
              /\ OthersStay(w) /\ worker'[w].pc = pc
              /\ worker'[w].task = worker[w].task /\ worker'[w].parsed = worker[w].parsed
              /\ worker'[w].cause = worker[w].cause
         /\ \A c : Raise(w, c) =>
              OthersStay(w) /\ worker'[w].pc = "fail" /\ worker'[w].cause = c
         /\ \A c : RaiseInClaim(w, c) =>
              OthersStay(w) /\ worker'[w].pc = "claimError" /\ worker'[w].cause = c
         /\ Leave(w) => OthersStay(w) /\ worker'[w].pc = "idle"
<1>1. worker \in [Worker -> WorkerState] /\ worker[w] \in WorkerState
  BY DEF TypeOK
<1>2. ASSUME NEW pc, Goto(w, pc)
      PROVE  /\ OthersStay(w) /\ worker'[w].pc = pc
             /\ worker'[w].task = worker[w].task /\ worker'[w].parsed = worker[w].parsed
             /\ worker'[w].cause = worker[w].cause
  BY <1>1, <1>2 DEF Goto, OthersStay, WorkerState
<1>3. ASSUME NEW c, Raise(w, c)
      PROVE  OthersStay(w) /\ worker'[w].pc = "fail" /\ worker'[w].cause = c
  BY <1>1, <1>3 DEF Raise, OthersStay, WorkerState
<1>4. ASSUME NEW c, RaiseInClaim(w, c)
      PROVE  OthersStay(w) /\ worker'[w].pc = "claimError" /\ worker'[w].cause = c
  BY <1>1, <1>4 DEF RaiseInClaim, OthersStay, WorkerState
<1>5. Leave(w) => OthersStay(w) /\ worker'[w].pc = "idle"
  BY <1>1 DEF Leave, OthersStay, IdleWorker
<1> QED BY <1>2, <1>3, <1>4, <1>5

\* Publishing a recovered row leaves the process in its loop or in recovery.
LEMMA PublishedPosition ==
  ASSUME TypeOK, NEW w \in Worker, worker[w].pc = "recover", NEW j, Published(w, j)
  PROVE  OthersStay(w) /\ worker'[w].pc \in {"idle", "recover"}
<1>1. worker \in [Worker -> WorkerState] /\ worker[w] \in WorkerState
  BY DEF TypeOK
<1>2. \/ worker' = [worker EXCEPT ![w] = IdleWorker]
      \/ worker' = [worker EXCEPT ![w] = [worker[w] EXCEPT !.outbox = worker[w].outbox \ {j}]]
  BY DEF Published
<1>3. CASE worker' = [worker EXCEPT ![w] = IdleWorker]
  BY <1>1, <1>3 DEF OthersStay, IdleWorker
<1>4. CASE worker' = [worker EXCEPT ![w] = [worker[w] EXCEPT !.outbox = worker[w].outbox \ {j}]]
  BY <1>1, <1>4 DEF OthersStay, WorkerState
<1> QED BY <1>2, <1>3, <1>4

\* The steps that take a process off the path from the parse to complete, or
\* leave it there, and store nothing.
Aside(w) ==
  \/ Claim(w) \/ ClaimIgnored(w) \/ LoadSource(w) \/ SourceMissing(w) \/ FailClaimError(w)
  \/ ParseFails(w) \/ Retry(w) \/ FailFinal(w) \/ DeadLetter(w) \/ PublishRecovered(w)
  \/ WorkerFault(w)

\* Where a process stands that a failure has taken aside: on no way to a result.
LEMMA AsidePosition ==
  ASSUME TypeOK, NEW w \in Worker, Aside(w)
  PROVE  OthersStay(w) /\ worker'[w].pc \notin HasParsed /\ UNCHANGED saved
<1> USE Positions DEF HasParsed, jobTables
<1>1. CASE Claim(w) \/ ClaimIgnored(w) \/ LoadSource(w) \/ SourceMissing(w) \/ FailClaimError(w)
  BY <1>1 DEF Claim, ClaimIgnored, LoadSource, SourceMissing, FailClaimError
<1>2. CASE Retry(w) \/ FailFinal(w) \/ DeadLetter(w)
  BY <1>2 DEF Retry, FailFinal, DeadLetter
<1>3. CASE ParseFails(w)
  <2>1. CASE Raise(w, "permanent")
    BY <1>3, <2>1 DEF ParseFails
  <2>2. CASE worker' = [worker EXCEPT ![w] = [worker[w] EXCEPT !.pc = "retry", !.cause = "transient"]]
    BY <1>3, <2>2 DEF ParseFails, OthersStay, TypeOK, WorkerState
  <2> QED BY <1>3, <2>1, <2>2 DEF ParseFails
<1>4. CASE PublishRecovered(w) \/ PublishRecoveredFails(w)
  BY <1>4, PublishedPosition DEF PublishRecovered, PublishRecoveredFails
<1>5. CASE ClaimFails(w) \/ LoadSourceFails(w) \/ PutFails(w) \/ StepFails(w)
           \/ HandlerFails(w) \/ DeadLetterLost(w) \/ Crash(w)
  BY <1>5 DEF ClaimFails, LoadSourceFails, PutFails, StepFails, HandlerFails, DeadLetterLost, Crash
<1> QED BY <1>1, <1>2, <1>3, <1>4, <1>5 DEF Aside, WorkerFault

-----------------------------------------------------------------------------
(* Checkpoints.                                                            *)

\* What a step leaves of the results a job had.
Grown(j) ==
  /\ saved[j].selected # None => saved'[j].selected # None
  /\ saved[j].items # None => saved'[j].items # None
  /\ saved[j].suggested => saved'[j].suggested

\* A step that takes no result back, and keeps its own process's promises,
\* keeps those of all.
LEMMA OthersReached ==
  ASSUME TypeOK, WorkersBusy, StagesReached, NEW w \in Worker, OthersStay(w),
         \A j \in Job : Grown(j), Reached(w)'
  PROVE  StagesReached'
<1>1. ASSUME NEW x \in Worker \ {w} PROVE Reached(x)'
  <2>1. worker'[x] = worker[x] /\ Reached(x)
    BY DEF OthersStay, StagesReached
  <2>2. CASE worker[x].pc \in HasParsed
    <3>1. Task(x) \in Job
      BY <2>2 DEF WorkersBusy, HasParsed
    <3>2. Grown(Task(x))
      BY <3>1
    <3> QED BY <2>1, <3>2 DEF Reached, Grown
  <2>3. CASE worker[x].pc \notin HasParsed
    BY <2>1, <2>3 DEF Reached, HasParsed, HasSelected, HasItems
  <2> QED BY <2>2, <2>3
<1> QED BY <1>1 DEF StagesReached

\* Off that path a process promises nothing.
LEMMA NotReached ==
  ASSUME NEW w \in Worker, worker'[w].pc \notin HasParsed
  PROVE  Reached(w)'
BY DEF Reached, HasParsed, HasSelected, HasItems

NoneCompletes == \A j \in Job : job'[j].status = "COMPLETED" => job[j].status = "COMPLETED"

\* A step that writes no result and completes no job keeps both promises.
LEMMA ResultsUntouched ==
  ASSUME UNCHANGED saved
  PROVE  /\ \A j \in Job : Grown(j)
         /\ CheckpointCoherent /\ NoneCompletes => CheckpointCoherent'
BY DEF Grown, CheckpointCoherent, NoneCompletes

\* Finalize completes no job.
LEMMA FinalizeCompletesNone ==
  ASSUME TypeOK, NEW j \in Job, NEW c, Finalize(j, c)
  PROVE  NoneCompletes
<1>1. job'[j].status = "FAILED_FINAL" /\ \A k \in Job \ {j} : job'[k] = job[k]
  BY DEF TypeOK, Finalize, Settled
<1> QED BY <1>1 DEF NoneCompletes

\* Nor does a step that takes a process aside.
LEMMA AsideCompletesNone ==
  ASSUME TypeOK, WorkersBusy, NEW w \in Worker, Aside(w)
  PROVE  NoneCompletes
<1> USE DEF jobTables
<1>busy. worker[w].pc \notin {"idle", "recover"} => Task(w) \in Job
  BY DEF WorkersBusy
<1>1. CASE Claim(w)
  <2>1. /\ job' = [job EXCEPT ![Task(w)] = [Settled(job[Task(w)], "RUNNING") EXCEPT
                                              !.lockedBy = WorkerId[w]]]
        /\ Task(w) \in Job
    BY <1>1, <1>busy DEF Claim
  <2>2. job'[Task(w)].status = "RUNNING" /\ \A k \in Job \ {Task(w)} : job'[k] = job[k]
    BY <2>1 DEF TypeOK, Settled
  <2> QED BY <2>2 DEF NoneCompletes
<1>2. CASE FailClaimError(w) \/ FailFinal(w)
  <2>1. CASE UNCHANGED job
    BY <2>1 DEF NoneCompletes
  <2>2. CASE Finalize(Task(w), worker[w].cause)
    BY <1>2, <1>busy, <2>2, FinalizeCompletesNone DEF FailClaimError, FailFinal
  <2> QED BY <1>2, <2>1, <2>2 DEF FailClaimError, FailFinal
<1>3. CASE Retry(w)
  <2>1. CASE UNCHANGED job
    BY <2>1 DEF NoneCompletes
  <2>2. CASE Finalize(Task(w), worker[w].cause)
    BY <1>3, <1>busy, <2>2, FinalizeCompletesNone DEF Retry
  <2>3. CASE Owns(w, Task(w)) /\ ~(job[Task(w)].retries + 1 > MaxRetries)
    <3> DEFINE row == [Settled(job[Task(w)], "RETRY_PENDING") EXCEPT
                         !.retries = job[Task(w)].retries + 1,
                         !.wait = RetryDelays[job[Task(w)].retries + 1], !.leaseAge = StaleAfter]
    <3>1. job' = [job EXCEPT ![Task(w)] = row] /\ row.status = "RETRY_PENDING"
      BY <1>3, <2>3 DEF Retry, Settled
    <3> HIDE DEF row
    <3> QED BY <3>1 DEF TypeOK, NoneCompletes
  <2> QED BY <1>3, <2>1, <2>2, <2>3 DEF Retry
<1>4. CASE ClaimIgnored(w) \/ LoadSource(w) \/ SourceMissing(w) \/ ParseFails(w)
           \/ DeadLetter(w) \/ PublishRecovered(w) \/ WorkerFault(w)
  <2>1. UNCHANGED job
    BY <1>4 DEF ClaimIgnored, LoadSource, SourceMissing, ParseFails, DeadLetter, PublishRecovered,
       WorkerFault, ClaimFails, LoadSourceFails, PutFails, StepFails, HandlerFails,
       DeadLetterLost, PublishRecoveredFails, Crash
  <2> QED BY <2>1 DEF NoneCompletes
<1> QED BY <1>1, <1>2, <1>3, <1>4 DEF Aside

\* A process that stores nothing and leaves its job's row alone, or loses its
\* lease, keeps what the tables hold of every job.
LEMMA AsideCheckpoints ==
  ASSUME TypeOK, WorkersBusy, StagesReached, CheckpointCoherent, NEW w \in Worker, Aside(w)
  PROVE  StagesReached' /\ CheckpointCoherent'
<1>1. OthersStay(w) /\ worker'[w].pc \notin HasParsed /\ UNCHANGED saved
  BY AsidePosition
<1>2. Reached(w)' /\ \A j \in Job : Grown(j)
  BY <1>1, NotReached, ResultsUntouched
<1>3. CheckpointCoherent'
  BY <1>1, AsideCompletesNone, ResultsUntouched
<1> QED BY <1>1, <1>2, <1>3, OthersReached

\* One that raises keeps its promises, for it makes none any more.
LEMMA RaiseCheckpoints ==
  ASSUME TypeOK, WorkersBusy, StagesReached, CheckpointCoherent, NEW w \in Worker, NEW c,
         Raise(w, c), UNCHANGED <<job, saved>>
  PROVE  StagesReached' /\ CheckpointCoherent'
<1>1. OthersStay(w) /\ worker'[w].pc \notin HasParsed
  BY Positions DEF HasParsed
<1>2. Reached(w)' /\ \A j \in Job : Grown(j)
  BY <1>1, NotReached, ResultsUntouched
<1>3. CheckpointCoherent'
  BY ResultsUntouched DEF NoneCompletes
<1> QED BY <1>1, <1>2, <1>3, OthersReached

\* The steps from the parse to complete each find what the one before stored.
LEMMA StageCheckpoints ==
  ASSUME TypeOK, WorkersBusy, StagesReached, CheckpointCoherent, NEW w \in Worker,
         \/ Advance(w) \/ Parse(w) \/ PutArtifact(w) \/ PersistSelected(w)
         \/ PersistResults(w) \/ PersistSuggestions(w) \/ Complete(w)
  PROVE  StagesReached' /\ CheckpointCoherent'
<1> DEFINE j == Task(w)
<1>busy. worker[w].pc \notin {"idle", "recover"} => j \in Job
  BY DEF WorkersBusy
<1>here. Reached(w) /\ worker[w] \in WorkerState /\ worker \in [Worker -> WorkerState]
         /\ saved \in [Job -> ResultRow]
  BY DEF StagesReached, TypeOK
<1>raise. ASSUME NEW c, Raise(w, c), UNCHANGED <<job, saved>>
          PROVE  StagesReached' /\ CheckpointCoherent'
  BY <1>raise, RaiseCheckpoints
<1>1. CASE Advance(w)
  <2>1. CASE ~Owns(w, j)
    BY <1>1, <1>raise, <2>1 DEF Advance
  <2>2. CASE Owns(w, j)
    <3>1. /\ worker[w].pc \in Advancing /\ Goto(w, AdvanceNext[worker[w].pc]) /\ UNCHANGED saved
          /\ job' = [job EXCEPT ![j] = [job[j] EXCEPT !.beatAge = 0]]
      BY <1>1, <2>2 DEF Advance
    <3>2. /\ OthersStay(w) /\ worker'[w].pc = AdvanceNext[worker[w].pc]
          /\ worker'[w].task = worker[w].task /\ worker'[w].parsed = worker[w].parsed
      BY <3>1, Positions
    <3>3. /\ worker'[w].pc \in HasParsed => worker[w].pc \in HasParsed
          /\ worker'[w].pc \in HasSelected => worker[w].pc \in HasSelected
          /\ worker'[w].pc \notin HasItems
      BY <3>1, <3>2 DEF AdvanceNext, Advancing, HasParsed, HasSelected, HasItems
    <3>4. Reached(w)'
      BY <1>here, <3>1, <3>2, <3>3 DEF Reached, HasItems
    <3>5. NoneCompletes
      BY <3>1 DEF TypeOK, JobRow, NoneCompletes
    <3> QED BY <3>1, <3>2, <3>4, <3>5, OthersReached, ResultsUntouched
  <2> QED BY <2>1, <2>2
<1>2. CASE Parse(w)
  <2>1. PICK o \in Output :
          worker' = [worker EXCEPT ![w] = [worker[w] EXCEPT !.pc = "layout", !.parsed = o]]
    BY <1>2 DEF Parse
  <2>2. OthersStay(w) /\ worker'[w].pc = "layout" /\ worker'[w].parsed = o
    BY <1>here, <2>1 DEF OthersStay, WorkerState
  <2>3. Reached(w)'
    BY <2>2 DEF Reached, HasSelected, HasItems
  <2>4. UNCHANGED <<saved, job>>
    BY <1>2 DEF Parse, jobTables
  <2> QED BY <2>2, <2>3, <2>4, OthersReached, ResultsUntouched DEF NoneCompletes
<1>3. CASE PutArtifact(w)
  <2>1. CASE saved[j].artifact \notin {None, worker[w].parsed}
    BY <1>3, <1>raise, <2>1 DEF PutArtifact
  <2>2. CASE saved[j].artifact \in {None, worker[w].parsed}
    <3>1. /\ saved' = [saved EXCEPT ![j] = [saved[j] EXCEPT !.artifact = worker[w].parsed]]
          /\ Goto(w, "persist") /\ UNCHANGED job /\ j \in Job /\ worker[w].pc = "put"
      BY <1>3, <1>busy, <2>2 DEF PutArtifact
    <3> HIDE DEF j
    <3>2. \A k \in Job : /\ saved'[k].selected = saved[k].selected
                         /\ saved'[k].items = saved[k].items
                         /\ saved'[k].suggested = saved[k].suggested
                         /\ k # j => saved'[k] = saved[k]
      BY <1>here, <3>1 DEF ResultRow
    <3>3. saved'[j].artifact = worker[w].parsed
      BY <1>here, <3>1 DEF ResultRow
    <3>4. /\ OthersStay(w) /\ worker'[w].pc = "persist"
          /\ worker'[w].task = worker[w].task /\ worker'[w].parsed = worker[w].parsed
      BY <3>1, Positions
    <3>5. Reached(w)'
      BY <1>here, <3>1, <3>4 DEF Reached, HasParsed, HasSelected, HasItems
    <3>6. \A k \in Job : Grown(k)
      BY <3>2 DEF Grown
    <3>7. CheckpointCoherent'
      BY <2>2, <3>1, <3>2, <3>3 DEF CheckpointCoherent, j
    <3> QED BY <3>4, <3>5, <3>6, <3>7, OthersReached
  <2> QED BY <2>1, <2>2
<1>4. CASE PersistSelected(w)
  <2> DEFINE stores == /\ Owns(w, j) /\ saved[j].artifact = worker[w].parsed
                       /\ saved[j].selected \in {None, worker[w].parsed}
  <2>1. CASE ~stores
    BY <1>4, <1>raise, <2>1 DEF PersistSelected
  <2>2. CASE stores
    <3>1. /\ saved' = [saved EXCEPT ![j] = [saved[j] EXCEPT !.selected = worker[w].parsed,
                                                           !.source = 1]]
          /\ Goto(w, "rule") /\ UNCHANGED job /\ j \in Job /\ worker[w].pc = "persist"
          /\ saved[j].artifact = worker[w].parsed
      BY <1>4, <1>busy, <2>2 DEF PersistSelected, SourceFile
    <3> HIDE DEF j, stores
    <3>2. \A k \in Job : /\ saved'[k].artifact = saved[k].artifact
                         /\ saved'[k].items = saved[k].items
                         /\ saved'[k].suggested = saved[k].suggested
                         /\ k # j => saved'[k] = saved[k]
      BY <1>here, <3>1 DEF ResultRow
    <3>3. saved'[j].selected = worker[w].parsed
      BY <1>here, <3>1 DEF ResultRow
    <3>4. /\ OthersStay(w) /\ worker'[w].pc = "rule"
          /\ worker'[w].task = worker[w].task /\ worker'[w].parsed = worker[w].parsed
      BY <3>1, Positions
    <3>5. worker[w].parsed \in Output /\ worker[w].parsed # None
      BY <1>here, <3>1, ConstantsAssumption DEF ConstantsAssumption, Reached, HasParsed
    <3>6. Reached(w)'
      BY <3>3, <3>4, <3>5 DEF Reached, HasItems, j
    <3>7. \A k \in Job : Grown(k)
      BY <3>2, <3>3, <3>5 DEF Grown
    <3>8. CheckpointCoherent'
      BY <3>1, <3>2, <3>3, <3>5 DEF CheckpointCoherent
    <3> QED BY <3>4, <3>6, <3>7, <3>8, OthersReached
  <2> QED BY <2>1, <2>2
<1>5. CASE PersistResults(w)
  <2>1. CASE ~Owns(w, j)
    BY <1>5, <1>raise, <2>1 DEF PersistResults
  <2>2. CASE Owns(w, j)
    <3> DEFINE next == IF j \in Suggesting THEN "suggest" ELSE "complete"
    <3>1. PICK v \in Verdict :
            /\ saved' = [saved EXCEPT ![j] = [saved[j] EXCEPT
                           !.items = IF saved[j].items = None THEN v ELSE saved[j].items]]
            /\ worker' = [worker EXCEPT ![w] = [worker[w] EXCEPT !.check = v, !.pc = next]]
      BY <1>5, <2>2 DEF PersistResults
    <3>2. j \in Job /\ worker[w].pc = "results" /\ UNCHANGED job /\ v # None
      BY <1>5, <1>busy, ConstantsAssumption DEF ConstantsAssumption, PersistResults
    <3>3. /\ OthersStay(w) /\ worker'[w].pc = next
          /\ worker'[w].task = worker[w].task /\ worker'[w].parsed = worker[w].parsed
      <4> HIDE DEF next
      <4> QED BY <1>here, <3>1 DEF OthersStay, WorkerState
    <3>4. /\ \A k \in Job : /\ saved'[k].artifact = saved[k].artifact
                            /\ saved'[k].selected = saved[k].selected
                            /\ saved'[k].suggested = saved[k].suggested
                            /\ k # j => saved'[k] = saved[k]
          /\ saved'[j].items # None
      <4> HIDE DEF j
      <4> QED BY <1>here, <3>1, <3>2 DEF ResultRow
    <3>5. worker[w].parsed \in Output /\ saved[j].selected # None
      BY <1>here, <3>2 DEF Reached, HasParsed, HasSelected
    <3>6. Reached(w)'
      <4>1. worker'[w].task = j /\ worker'[w].parsed \in Output
            /\ saved'[j].selected # None /\ saved'[j].items # None
            /\ (worker'[w].pc = "complete" => j \notin Suggesting)
        BY <3>2, <3>3, <3>4, <3>5
      <4> QED BY <4>1 DEF Reached
    <3>7. \A k \in Job : Grown(k)
      BY <3>4 DEF Grown
    <3>8. CheckpointCoherent'
      <4> HIDE DEF j
      <4> QED BY <3>2, <3>4, <3>5 DEF CheckpointCoherent
    <3> QED BY <3>3, <3>6, <3>7, <3>8, OthersReached
  <2> QED BY <2>1, <2>2
<1>6. CASE PersistSuggestions(w)
  <2>1. CASE ~Owns(w, j)
    BY <1>6, <1>raise, <2>1 DEF PersistSuggestions
  <2>2. CASE Owns(w, j)
    <3>1. /\ saved' = [saved EXCEPT ![j] = [saved[j] EXCEPT !.suggested = TRUE]]
          /\ Goto(w, "complete") /\ UNCHANGED job /\ j \in Job /\ worker[w].pc = "suggest"
      BY <1>6, <1>busy, <2>2 DEF PersistSuggestions
    <3> HIDE DEF j
    <3>2. /\ \A k \in Job : /\ saved'[k].artifact = saved[k].artifact
                            /\ saved'[k].selected = saved[k].selected
                            /\ saved'[k].items = saved[k].items
                            /\ k # j => saved'[k] = saved[k]
          /\ saved'[j].suggested
      BY <1>here, <3>1 DEF ResultRow
    <3>4. /\ OthersStay(w) /\ worker'[w].pc = "complete"
          /\ worker'[w].task = worker[w].task /\ worker'[w].parsed = worker[w].parsed
      BY <3>1, Positions
    <3>5. worker[w].parsed \in Output /\ saved[j].selected # None /\ saved[j].items # None
      BY <1>here, <3>1 DEF Reached, HasParsed, HasSelected, HasItems, j
    <3>6. Reached(w)'
      BY <3>1, <3>2, <3>4, <3>5 DEF Reached, j
    <3>7. \A k \in Job : Grown(k)
      BY <3>2 DEF Grown
    <3>8. CheckpointCoherent'
      BY <3>1, <3>2, <3>5 DEF CheckpointCoherent
    <3> QED BY <3>4, <3>6, <3>7, <3>8, OthersReached
  <2> QED BY <2>1, <2>2
<1>7. CASE Complete(w)
  <2>1. CASE ~Owns(w, j)
    BY <1>7, <1>raise, <2>1 DEF Complete
  <2>2. CASE Owns(w, j)
    <3>1. /\ job' = [job EXCEPT ![j] = Settled(job[j], "COMPLETED")] /\ UNCHANGED saved
          /\ Leave(w) /\ j \in Job /\ worker[w].pc = "complete"
      BY <1>7, <1>busy, <2>2 DEF Complete
    <3>2. OthersStay(w) /\ worker'[w].pc \notin HasParsed
      BY <3>1, Positions DEF HasParsed
    <3>3. Reached(w)' /\ \A k \in Job : Grown(k)
      BY <3>1, <3>2, NotReached, ResultsUntouched
    <3>4. saved[j].items # None /\ (j \in Suggesting => saved[j].suggested)
      BY <1>here, <3>1 DEF Reached, HasItems
    <3>5. CheckpointCoherent'
      <4> HIDE DEF j
      <4>1. \A k \in Job \ {j} : job'[k] = job[k]
        BY <3>1 DEF TypeOK
      <4> QED BY <3>1, <3>4, <4>1 DEF CheckpointCoherent
    <3> QED BY <3>2, <3>3, <3>5, OthersReached
  <2> QED BY <2>1, <2>2
<1> QED BY <1>1, <1>2, <1>3, <1>4, <1>5, <1>6, <1>7

\* Requests, revisions, deletions, deliveries, heartbeats, recovery and time
\* store no result and complete no job.
LEMMA EnvironmentCheckpoints ==
  ASSUME TypeOK, WorkersBusy, StagesReached, CheckpointCoherent,
         \/ \E c \in Client : ApiStep(c)
         \/ \E a \in Ad : Revise(a) \/ DeleteAd(a) \/ RemoveFiles(a)
         \/ \E w \in Worker : Pop(w) \/ Recover(w) \/ Heartbeat(w)
         \/ RedisLoss \/ Tick \/ Stall
  PROVE  StagesReached' /\ CheckpointCoherent'
<1> USE DEF jobTables, workerSide, apiSide
<1>1. UNCHANGED saved
  BY DEF ApiStep, Request, Add, AddRefused, Publish, PublishLost, Revise, DeleteAd, RemoveFiles,
     Pop, Recover, Heartbeat, RedisLoss, Tick, Stall, PassTime
<1>2. NoneCompletes
  <2>1. CASE \E c \in Client : ApiStep(c)
    <3>1. CASE UNCHANGED job
      BY <3>1 DEF NoneCompletes
    <3>2. ASSUME NEW c \in Client, Add(c) PROVE NoneCompletes
      <4>1. job' = [job EXCEPT ![api[c].job] = [job[api[c].job] EXCEPT !.status = "PENDING"]]
        BY <3>2 DEF Add
      <4> QED BY <4>1 DEF TypeOK, JobRow, NoneCompletes
    <3> QED BY <2>1, <3>1, <3>2 DEF ApiStep, Request, AddRefused, Publish, PublishLost
  <2>2. CASE \E a \in Ad : Revise(a) \/ DeleteAd(a) \/ RemoveFiles(a)
    BY <2>2 DEF Revise, DeleteAd, RemoveFiles, NoneCompletes
  <2>3. CASE (\E w \in Worker : Pop(w) \/ Recover(w) \/ Heartbeat(w)) \/ RedisLoss \/ Tick \/ Stall
    BY <2>3, QueueAndTime DEF NoneCompletes, SameStory, Released, Moves
  <2> QED BY <2>1, <2>2, <2>3
<1>3. CheckpointCoherent'
  BY <1>1, <1>2, ResultsUntouched
<1>4. StagesReached'
  <2>1. CASE UNCHANGED worker
    BY <1>1, <2>1 DEF StagesReached, Reached
  <2>2. ASSUME NEW w \in Worker, Pop(w) \/ Recover(w) PROVE StagesReached'
    <3>1. worker \in [Worker -> WorkerState] /\ worker[w] \in WorkerState
      BY DEF TypeOK
    <3>2. OthersStay(w) /\ worker'[w].pc \notin HasParsed
      <4>1. PICK r : /\ worker' = [worker EXCEPT ![w] = r]
                     /\ r.pc \in {"claim", "recover"}
        <5>1. ASSUME Pop(w)
              PROVE  worker' = [worker EXCEPT ![w] = [worker[w] EXCEPT !.pc = "claim",
                                                                       !.task = Head(queue)]]
          BY <5>1 DEF Pop
        <5>2. ASSUME Recover(w)
              PROVE  \E due : worker' = [worker EXCEPT ![w] = [worker[w] EXCEPT !.pc = "recover",
                                                                                !.outbox = due]]
          BY <5>2 DEF Recover
        <5>3. \A t : [worker[w] EXCEPT !.pc = "claim", !.task = t].pc = "claim"
          BY <3>1 DEF WorkerState
        <5>4. \A due : [worker[w] EXCEPT !.pc = "recover", !.outbox = due].pc = "recover"
          BY <3>1 DEF WorkerState
        <5> QED BY <2>2, <5>1, <5>2, <5>3, <5>4
      <4> QED BY <3>1, <4>1 DEF OthersStay, HasParsed
    <3> QED BY <1>1, <3>2, NotReached, ResultsUntouched, OthersReached
  <2> QED BY <2>1, <2>2 DEF ApiStep, Request, Add, AddRefused, Publish, PublishLost, Revise, DeleteAd,
             RemoveFiles, Heartbeat, RedisLoss, Tick, Stall, PassTime
<1> QED BY <1>3, <1>4

-----------------------------------------------------------------------------
(* Dead letters and the causes of failure.                                 *)

\* What a step that finalises nothing does to the row of a job: a failed row
\* stays as it is, no other gains a cause.
Spared(j) ==
  /\ job'[j].status = "FAILED_FINAL" <=> job[j].status = "FAILED_FINAL"
  /\ job'[j].cause = job[j].cause
  /\ job[j].status = "FAILED_FINAL" => job'[j].retries = job[j].retries

Letters == OneSender /\ Causes /\ DeadLetterSound

\* A step that spares every job, sends nothing and takes no process to its
\* dead letter keeps the account.
LEMMA SparedLetters ==
  ASSUME TypeOK, WorkersBusy, Letters, NEW w \in Worker, OthersStay(w),
         \A j \in Job : Spared(j), UNCHANGED deadLetter, worker'[w].pc # "dead",
         worker'[w].pc \in {"fail", "claimError"} => worker'[w].cause # "transient"
  PROVE  Letters'
<1>1. OneSender'
  <2>1. ASSUME NEW x \in Worker, worker'[x].pc = "dead"
        PROVE  /\ job'[worker'[x].task].status = "FAILED_FINAL" /\ deadLetter'[worker'[x].task] = 0
               /\ \A v \in Worker : worker'[v].pc = "dead" /\ worker'[v].task = worker'[x].task => v = x
    <3>1. x # w /\ worker'[x] = worker[x] /\ Task(x) \in Job
      BY <2>1 DEF OthersStay, WorkersBusy
    <3>2. Spared(Task(x))
      BY <3>1
    <3> QED BY <2>1, <3>1, <3>2 DEF Letters, OneSender, Spared, OthersStay
  <2> QED BY <2>1 DEF OneSender
<1>2. Causes'
  BY DEF Letters, Causes, Spared, OthersStay
<1>3. DeadLetterSound'
  BY DEF Letters, DeadLetterSound, Spared, Causes
<1> QED BY <1>1, <1>2, <1>3 DEF Letters

\* So does one that touches no process.
LEMMA QuietLetters ==
  ASSUME Letters, WorkersBusy, \A j \in Job : Spared(j), UNCHANGED <<worker, deadLetter>>
  PROVE  Letters'
<1>1. OneSender'
  BY DEF Letters, OneSender, Spared, WorkersBusy
<1>2. Causes' /\ DeadLetterSound'
  BY DEF Letters, Causes, DeadLetterSound, Spared
<1> QED BY <1>1, <1>2 DEF Letters

\* A process that finalises a job found it active, so that no dead letter was
\* sent and no other process is about to send one.
LEMMA FinalizeLetters ==
  ASSUME TypeOK, WorkersBusy, Letters, NEW w \in Worker, Task(w) \in Job,
         job[Task(w)].status \in ActiveJob, NEW c \in Cause, Finalize(Task(w), c),
         c = "transient" => job[Task(w)].retries = MaxRetries,
         Goto(w, "dead"), UNCHANGED deadLetter
  PROVE  Letters'
<1> DEFINE j == Task(w)
<1>1. /\ job'[j].status = "FAILED_FINAL" /\ job'[j].cause = c /\ job'[j].retries = job[j].retries
      /\ \A k \in Job \ {j} : job'[k] = job[k]
  <2>1. job' = [job EXCEPT ![j] = [Settled(job[j], "FAILED_FINAL") EXCEPT !.cause = c]]
    BY DEF Finalize
  <2>2. job'[j] = [Settled(job[j], "FAILED_FINAL") EXCEPT !.cause = c]
    BY <2>1 DEF TypeOK
  <2>3. \A k \in Job \ {j} : job'[k] = job[k]
    BY <2>1 DEF TypeOK
  <2> QED BY <2>2, <2>3 DEF Settled
<1>2. OthersStay(w) /\ worker'[w].pc = "dead" /\ worker'[w].task = j
  BY Positions
<1>3. deadLetter[j] = 0
  <2>1. deadLetter[j] \in Nat /\ deadLetter[j] <= 1
    BY DEF Letters, DeadLetterSound, TypeOK
  <2>2. deadLetter[j] # 1
    BY DEF Letters, DeadLetterSound
  <2> QED BY <2>1, <2>2
<1>4. \A v \in Worker : worker[v].pc = "dead" => Task(v) # j /\ Task(v) \in Job
  BY DEF Letters, OneSender, WorkersBusy
<1> HIDE DEF j
<1>5. OneSender'
  BY <1>1, <1>2, <1>3, <1>4 DEF Letters, OneSender, OthersStay
<1>6. Causes'
  BY <1>1, <1>2 DEF Letters, Causes, OthersStay
<1>7. DeadLetterSound'
  BY <1>1, <1>3 DEF Letters, DeadLetterSound, j
<1> QED BY <1>5, <1>6, <1>7 DEF Letters

\* Writing another open or concluded row over an open one spares every job.
LEMMA RowSpared ==
  ASSUME TypeOK, NEW t \in Job, NEW row, job' = [job EXCEPT ![t] = row],
         job[t].status # "FAILED_FINAL", row.status # "FAILED_FINAL", row.cause = job[t].cause
  PROVE  \A j \in Job : Spared(j)
BY DEF TypeOK, Spared

\* The steps of a process after which it sends no letter and raises nothing it
\* may not raise.
LEMMA PassingLetters ==
  ASSUME TypeOK, WorkersBusy, Letters, NEW w \in Worker,
         \A j \in Job : Spared(j), UNCHANGED deadLetter,
         \/ \E pc : pc \notin {"dead", "fail", "claimError"} /\ Goto(w, pc)
         \/ \E c : c # "transient" /\ (Raise(w, c) \/ RaiseInClaim(w, c))
         \/ Leave(w)
  PROVE  Letters'
<1>1. /\ OthersStay(w) /\ worker'[w].pc # "dead"
      /\ worker'[w].pc \in {"fail", "claimError"} => worker'[w].cause # "transient"
  BY Positions
<1> QED BY <1>1, SparedLetters

\* No step of a process sends a second letter, or blames a transient failure
\* before the retries are used up.
LEMMA WorkerLetters ==
  ASSUME TypeOK, WorkersBusy, Letters, NEW w \in Worker, WorkerStep(w) \/ WorkerFault(w)
  PROVE  Letters'
<1> USE DEF jobTables, workerSide, apiSide
<1> DEFINE j == Task(w)
<1>busy. worker[w].pc \notin {"idle", "recover"} => j \in Job
  BY DEF WorkersBusy
<1>here. worker[w] \in WorkerState /\ worker \in [Worker -> WorkerState] /\ job \in [Job -> JobRow]
         /\ worker[w].cause \in Cause
  BY LocalFields DEF TypeOK
<1>same. UNCHANGED job => \A k \in Job : Spared(k)
  BY DEF Spared
<1>1. CASE Claim(w)
  <2>1. /\ job' = [job EXCEPT ![j] = [Settled(job[j], "RUNNING") EXCEPT !.lockedBy = WorkerId[w]]]
        /\ job[j].status \in Claimable /\ j \in Job /\ Goto(w, "load") /\ UNCHANGED deadLetter
    BY <1>1, <1>busy DEF Claim, CanClaim
  <2>2. LET row == [Settled(job[j], "RUNNING") EXCEPT !.lockedBy = WorkerId[w]]
        IN  row.status = "RUNNING" /\ row.cause = job[j].cause
    BY DEF Settled
  <2>3. \A k \in Job : Spared(k)
    BY <2>1, <2>2, RowSpared
  <2> QED BY <2>1, <2>3, PassingLetters
<1>2. CASE ClaimIgnored(w) \/ LoadSource(w) \/ SourceMissing(w) \/ ClaimFails(w)
           \/ LoadSourceFails(w) \/ PutFails(w) \/ StepFails(w) \/ HandlerFails(w)
           \/ DeadLetterLost(w) \/ Crash(w)
  <2>1. UNCHANGED <<job, deadLetter>>
    BY <1>2 DEF ClaimIgnored, LoadSource, SourceMissing, ClaimFails, LoadSourceFails, PutFails,
       StepFails, HandlerFails, DeadLetterLost, Crash
  <2>2. Goto(w, "ocr") \/ Leave(w) \/ Raise(w, "storage") \/ Raise(w, "database")
        \/ RaiseInClaim(w, "database") \/ RaiseInClaim(w, "missing") \/ RaiseInClaim(w, "storage")
    BY <1>2 DEF ClaimIgnored, LoadSource, SourceMissing, ClaimFails, LoadSourceFails, PutFails,
       StepFails, HandlerFails, DeadLetterLost, Crash
  <2> QED BY <1>same, <2>1, <2>2, PassingLetters
<1>3. CASE FailClaimError(w)
  <2>1. CASE ~MayFail(w, j)
    <3>1. UNCHANGED <<job, deadLetter>> /\ Leave(w)
      BY <1>3, <2>1 DEF FailClaimError
    <3> QED BY <1>same, <3>1, PassingLetters
  <2>2. CASE MayFail(w, j)
    <3>1. Finalize(j, worker[w].cause) /\ Goto(w, "dead") /\ UNCHANGED deadLetter /\ j \in Job
      BY <1>3, <1>busy, <2>2 DEF FailClaimError
    <3>2. worker[w].cause # "transient" /\ job[j].status \in ActiveJob
      BY <1>3, <2>2 DEF FailClaimError, Letters, Causes, MayFail, Owns
    <3> QED BY <1>here, <3>1, <3>2, FinalizeLetters
  <2> QED BY <2>1, <2>2
<1>4. CASE Advance(w)
  <2>1. CASE ~Owns(w, j)
    <3>1. UNCHANGED <<job, deadLetter>> /\ Raise(w, "lease")
      BY <1>4, <2>1 DEF Advance
    <3> QED BY <1>same, <3>1, PassingLetters
  <2>2. CASE Owns(w, j)
    <3>1. /\ job' = [job EXCEPT ![j] = [job[j] EXCEPT !.beatAge = 0]] /\ UNCHANGED deadLetter
          /\ Goto(w, AdvanceNext[worker[w].pc]) /\ worker[w].pc \in Advancing
      BY <1>4, <2>2 DEF Advance
    <3>2. AdvanceNext[worker[w].pc] \notin {"dead", "fail", "claimError"} /\ j \in Job
      BY <1>busy, <3>1 DEF AdvanceNext, Advancing
    <3>3. \A k \in Job : Spared(k)
      BY <1>here, <3>1 DEF Spared, JobRow
    <3> QED BY <3>1, <3>2, <3>3, PassingLetters
  <2> QED BY <2>1, <2>2
<1>5. CASE Parse(w) \/ ParseFails(w) \/ PersistResults(w)
  <2>1. UNCHANGED <<job, deadLetter>>
    BY <1>5 DEF Parse, ParseFails, PersistResults
  <2>2. CASE Raise(w, "permanent") \/ Raise(w, "lease")
    BY <1>same, <2>1, <2>2, PassingLetters
  <2>3. CASE ~(Raise(w, "permanent") \/ Raise(w, "lease"))
    <3>1. PICK r : worker' = [worker EXCEPT ![w] = r] /\ r.pc \in {"layout", "retry", "suggest", "complete"}
      <4>1. ASSUME Parse(w)
            PROVE  \E o : worker' = [worker EXCEPT ![w] = [worker[w] EXCEPT !.pc = "layout", !.parsed = o]]
        BY <4>1 DEF Parse
      <4>2. ASSUME ParseFails(w)
            PROVE  worker' = [worker EXCEPT ![w] = [worker[w] EXCEPT !.pc = "retry",
                                                                     !.cause = "transient"]]
        BY <2>3, <4>2 DEF ParseFails
      <4>3. ASSUME PersistResults(w)
            PROVE  \E v, pc : /\ pc \in {"suggest", "complete"}
                              /\ worker' = [worker EXCEPT ![w] = [worker[w] EXCEPT !.check = v, !.pc = pc]]
        BY <2>3, <4>3 DEF PersistResults
      <4>4. \A o : [worker[w] EXCEPT !.pc = "layout", !.parsed = o].pc = "layout"
        BY <1>here DEF WorkerState
      <4>5. [worker[w] EXCEPT !.pc = "retry", !.cause = "transient"].pc = "retry"
        BY <1>here DEF WorkerState
      <4>6. \A v, pc : [worker[w] EXCEPT !.check = v, !.pc = pc].pc = pc
        BY <1>here DEF WorkerState
      <4>7. CASE Parse(w)
        BY <4>1, <4>4, <4>7
      <4>8. CASE ParseFails(w)
        BY <4>2, <4>5, <4>8
      <4>9. CASE PersistResults(w)
        <5>1. PICK v, pc : /\ pc \in {"suggest", "complete"}
                           /\ worker' = [worker EXCEPT ![w] = [worker[w] EXCEPT !.check = v, !.pc = pc]]
          BY <4>3, <4>9
        <5> QED BY <4>6, <5>1
      <4> QED BY <1>5, <4>7, <4>8, <4>9
    <3>2. OthersStay(w) /\ worker'[w].pc \notin {"dead", "fail", "claimError"}
      BY <1>here, <3>1 DEF OthersStay
    <3> QED BY <1>same, <2>1, <3>2, SparedLetters
  <2> QED BY <2>2, <2>3
<1>6. CASE PutArtifact(w) \/ PersistSelected(w) \/ PersistSuggestions(w)
  <2>1. UNCHANGED <<job, deadLetter>>
    BY <1>6 DEF PutArtifact, PersistSelected, PersistSuggestions
  <2>2. Goto(w, "persist") \/ Goto(w, "rule") \/ Goto(w, "complete")
        \/ Raise(w, "conflict") \/ Raise(w, "lease")
    BY <1>6 DEF PutArtifact, PersistSelected, PersistSuggestions
  <2> QED BY <1>same, <2>1, <2>2, PassingLetters
<1>7. CASE Complete(w)
  <2>1. CASE ~Owns(w, j)
    <3>1. UNCHANGED <<job, deadLetter>> /\ Raise(w, "lease")
      BY <1>7, <2>1 DEF Complete
    <3> QED BY <1>same, <3>1, PassingLetters
  <2>2. CASE Owns(w, j)
    <3>1. job' = [job EXCEPT ![j] = Settled(job[j], "COMPLETED")] /\ UNCHANGED deadLetter
          /\ Leave(w) /\ j \in Job
      BY <1>7, <1>busy, <2>2 DEF Complete
    <3>2. \A k \in Job : Spared(k)
      <4>1. Settled(job[j], "COMPLETED").status = "COMPLETED"
            /\ Settled(job[j], "COMPLETED").cause = job[j].cause
        BY DEF Settled
      <4> QED BY <2>2, <3>1, <4>1, RowSpared DEF Owns
    <3> QED BY <3>1, <3>2, PassingLetters
  <2> QED BY <2>1, <2>2
<1>8. CASE Retry(w)
  <2>1. CASE ~Owns(w, j)
    <3>1. UNCHANGED <<job, deadLetter>> /\ Leave(w)
      BY <1>8, <2>1 DEF Retry
    <3> QED BY <1>same, <3>1, PassingLetters
  <2>2. CASE Owns(w, j) /\ job[j].retries + 1 > MaxRetries
    <3>1. Finalize(j, worker[w].cause) /\ Goto(w, "dead") /\ UNCHANGED deadLetter /\ j \in Job
      BY <1>8, <1>busy, <2>2 DEF Retry
    <3>2. job[j].retries = MaxRetries
      <4>1. job[j].retries \in 0 .. MaxRetries /\ MaxRetries \in Nat
        BY <1>here, <3>1, ConstantsAssumption DEF ConstantsAssumption, JobRow, MaxRetries
      <4> QED BY <2>2, <4>1
    <3> QED BY <1>here, <2>2, <3>1, <3>2, FinalizeLetters DEF Owns
  <2>3. CASE Owns(w, j) /\ ~(job[j].retries + 1 > MaxRetries)
    <3> DEFINE row == [Settled(job[j], "RETRY_PENDING") EXCEPT !.retries = job[j].retries + 1,
                         !.wait = RetryDelays[job[j].retries + 1], !.leaseAge = StaleAfter]
    <3>1. job' = [job EXCEPT ![j] = row] /\ UNCHANGED deadLetter /\ Leave(w) /\ j \in Job
      BY <1>8, <1>busy, <2>3 DEF Retry
    <3>2. row.status = "RETRY_PENDING" /\ row.cause = job[j].cause
      BY DEF Settled
    <3> HIDE DEF row
    <3>3. \A k \in Job : Spared(k)
      BY <2>3, <3>1, <3>2, RowSpared DEF Owns
    <3> QED BY <3>1, <3>3, PassingLetters
  <2> QED BY <2>1, <2>2, <2>3
<1>9. CASE FailFinal(w)
  <2>1. CASE ~Owns(w, j)
    <3>1. UNCHANGED <<job, deadLetter>> /\ Leave(w)
      BY <1>9, <2>1 DEF FailFinal
    <3> QED BY <1>same, <3>1, PassingLetters
  <2>2. CASE Owns(w, j)
    <3>1. Finalize(j, worker[w].cause) /\ Goto(w, "dead") /\ UNCHANGED deadLetter /\ j \in Job
      BY <1>9, <1>busy, <2>2 DEF FailFinal
    <3>2. worker[w].cause # "transient" /\ job[j].status \in ActiveJob
      BY <1>9, <2>2 DEF FailFinal, Letters, Causes, Owns
    <3> QED BY <1>here, <3>1, <3>2, FinalizeLetters
  <2> QED BY <2>1, <2>2
<1>10. CASE DeadLetter(w)
  <2>1. /\ deadLetter' = [deadLetter EXCEPT ![j] = deadLetter[j] + 1] /\ Leave(w)
        /\ worker[w].pc = "dead" /\ UNCHANGED job /\ j \in Job
    BY <1>10, <1>busy DEF DeadLetter
  <2>2. /\ deadLetter'[j] = 1 /\ job[j].status = "FAILED_FINAL"
        /\ \A k \in Job \ {j} : deadLetter'[k] = deadLetter[k]
    BY <2>1 DEF Letters, OneSender, TypeOK
  <2>3. OthersStay(w) /\ worker'[w].pc = "idle"
    BY <2>1, Positions
  <2>4. \A x \in Worker \ {w} : worker[x].pc = "dead" => Task(x) \in Job \ {j}
    BY <2>1 DEF Letters, OneSender, WorkersBusy
  <2>5. OneSender'
    <3> HIDE DEF j
    <3> QED BY <2>1, <2>2, <2>3, <2>4 DEF Letters, OneSender, OthersStay
  <2>6. Causes'
    BY <2>1, <2>3 DEF Letters, Causes, OthersStay
  <2>7. DeadLetterSound'
    BY <2>1, <2>2 DEF Letters, DeadLetterSound
  <2> QED BY <2>5, <2>6, <2>7 DEF Letters
<1>11. CASE PublishRecovered(w) \/ PublishRecoveredFails(w)
  <2>1. OthersStay(w) /\ worker'[w].pc \in {"idle", "recover"} /\ UNCHANGED <<job, deadLetter>>
    BY <1>11, PublishedPosition DEF PublishRecovered, PublishRecoveredFails
  <2> QED BY <1>same, <2>1, SparedLetters
<1> QED
  BY <1>1, <1>2, <1>3, <1>4, <1>5, <1>6, <1>7, <1>8, <1>9, <1>10, <1>11 DEF WorkerStep, WorkerFault

\* Requests, deliveries, heartbeats, recovery and time fail no job.
LEMMA EnvironmentLetters ==
  ASSUME TypeOK, WorkersBusy, ClientsBusy, Letters,
         \/ \E c \in Client : ApiStep(c)
         \/ \E a \in Ad : Revise(a) \/ DeleteAd(a) \/ RemoveFiles(a)
         \/ \E w \in Worker : Pop(w) \/ Recover(w) \/ Heartbeat(w)
         \/ RedisLoss \/ Tick \/ Stall
  PROVE  Letters'
<1> USE DEF jobTables, workerSide, apiSide
<1>here. worker \in [Worker -> WorkerState] /\ job \in [Job -> JobRow]
  BY DEF TypeOK
<1>same. UNCHANGED job => \A k \in Job : Spared(k)
  BY DEF Spared
<1>1. ASSUME NEW c \in Client, ApiStep(c) PROVE Letters'
  <2>1. UNCHANGED <<worker, deadLetter>>
    BY <1>1 DEF ApiStep, Request, Add, AddRefused, Publish, PublishLost
  <2>2. CASE Add(c)
    <3>1. PICK t \in Job : /\ job[t].status = "NONE"
                           /\ job' = [job EXCEPT ![t] = [job[t] EXCEPT !.status = "PENDING"]]
      BY <2>2 DEF Add, ClientsBusy
    <3>2. [job[t] EXCEPT !.status = "PENDING"].status = "PENDING"
          /\ [job[t] EXCEPT !.status = "PENDING"].cause = job[t].cause
      BY <1>here DEF JobRow
    <3>3. \A k \in Job : Spared(k)
      BY <3>1, <3>2, RowSpared
    <3> QED BY <2>1, <3>3, QuietLetters
  <2>3. CASE UNCHANGED job
    BY <1>same, <2>1, <2>3, QuietLetters
  <2> QED BY <1>1, <2>2, <2>3 DEF ApiStep, Request, AddRefused, Publish, PublishLost
<1>2. CASE (\E a \in Ad : Revise(a) \/ DeleteAd(a) \/ RemoveFiles(a)) \/ RedisLoss
  <2>1. UNCHANGED <<job, worker, deadLetter>>
    BY <1>2 DEF Revise, DeleteAd, RemoveFiles, RedisLoss
  <2> QED BY <1>same, <2>1, QuietLetters
<1>3. ASSUME NEW w \in Worker, Pop(w) PROVE Letters'
  <2>1. worker' = [worker EXCEPT ![w] = [worker[w] EXCEPT !.pc = "claim", !.task = Head(queue)]]
    BY <1>3 DEF Pop
  <2>2. [worker[w] EXCEPT !.pc = "claim", !.task = Head(queue)].pc = "claim"
    BY <1>here DEF WorkerState
  <2>3. OthersStay(w) /\ worker'[w].pc = "claim"
    BY <1>here, <2>1, <2>2 DEF OthersStay
  <2>4. UNCHANGED <<job, deadLetter>>
    BY <1>3 DEF Pop
  <2> QED BY <1>same, <2>3, <2>4, SparedLetters
<1>4. ASSUME NEW w \in Worker, Recover(w) PROVE Letters'
  <2>1. PICK stale \in SUBSET Job, due \in SUBSET Job :
          /\ \A k \in stale : job[k].status = "RUNNING"
          /\ job' = [k \in Job |-> IF k \in stale THEN Settled(job[k], "STALE")
                                   ELSE IF k \in due THEN [job[k] EXCEPT !.leaseAge = 0]
                                   ELSE job[k]]
          /\ worker' = [worker EXCEPT ![w] = [worker[w] EXCEPT !.pc = "recover", !.outbox = due]]
    BY <1>4 DEF Recover, Stale
  <2>2. [worker[w] EXCEPT !.pc = "recover", !.outbox = due].pc = "recover"
    BY <1>here DEF WorkerState
  <2>3. OthersStay(w) /\ worker'[w].pc = "recover" /\ UNCHANGED deadLetter
    BY <1>4, <1>here, <2>1, <2>2 DEF OthersStay, Recover
  <2>4. ASSUME NEW k \in Job PROVE Spared(k)
    <3>1. CASE k \in stale
      BY <2>1, <3>1 DEF Spared, Settled
    <3>2. CASE k \notin stale
      <4>1. job'[k] = job[k] \/ job'[k] = [job[k] EXCEPT !.leaseAge = 0]
        BY <2>1, <3>2
      <4> QED BY <1>here, <4>1 DEF Spared, JobRow
    <3> QED BY <3>1, <3>2
  <2> QED BY <2>3, <2>4, SparedLetters
<1>5. ASSUME NEW w \in Worker, Heartbeat(w) PROVE Letters'
  <2>1. job' = [job EXCEPT ![Task(w)] = [job[Task(w)] EXCEPT !.beatAge = 0]]
        /\ UNCHANGED <<worker, deadLetter>>
    BY <1>5 DEF Heartbeat
  <2>2. \A k \in Job : Spared(k)
    BY <1>here, <2>1 DEF Spared, JobRow
  <2> QED BY <2>1, <2>2, QuietLetters
<1>6. CASE Tick \/ Stall
  <2>1. job' = [k \in Job |-> Aged(job[k])] /\ UNCHANGED <<worker, deadLetter>>
    BY <1>6 DEF Tick, Stall, PassTime
  <2>2. \A k \in Job : Spared(k)
    BY <1>here, <2>1, AgedRow DEF Spared
  <2> QED BY <2>1, <2>2, QuietLetters
<1> QED BY <1>1, <1>2, <1>3, <1>4, <1>5, <1>6

-----------------------------------------------------------------------------
(* The status of an advertisement.                                         *)

Shown == LatestIsOwn /\ AdStatusFollows

\* A step that concludes no review and does not touch the advertisements
\* changes no outcome they show.
LEMMA QuietShown ==
  ASSUME Shown, JobReviewAgree, LatestIsOwn, TypeOK,
         \A j \in Job : AnyMove(j), NoneCompletes, UNCHANGED ad
  PROVE  Shown'
<1>1. \A j \in Job : /\ review'[j].ad = review[j].ad
                     /\ review[j].status # "NONE" => review'[j].status # "NONE"
                     /\ review[j].status \in Succeeded => review'[j].status = review[j].status
                     /\ review'[j].status \in Succeeded => review[j].status \in Succeeded
  BY DEF AnyMove, SameStory, Started, Released, Concluded, Failed, Moves, NoneCompletes,
     JobReviewAgree
<1>2. \A a \in Ad : ad[a].latest # None => ad[a].latest \in Job
  BY DEF TypeOK, AdRow
<1>3. LatestIsOwn'
  BY <1>1, <1>2 DEF Shown, LatestIsOwn
<1>4. AdStatusFollows'
  BY <1>1, <1>2 DEF Shown, AdStatusFollows
<1> QED BY <1>3, <1>4 DEF Shown

\* What touches neither reviews nor advertisements changes nothing that is shown.
LEMMA SameShown ==
  ASSUME Shown, UNCHANGED <<review, ad>>
  PROVE  Shown'
BY DEF Shown, LatestIsOwn, AdStatusFollows

\* complete writes the outcome of a job it holds, which is of the latest
\* review of its advertisement, in the same transaction as the outcome.
LEMMA CompleteShown ==
  ASSUME IInv, Shown, NEW w \in Worker, Complete(w)
  PROVE  Shown'
<1> USE DEF IInv
<1> DEFINE j == Task(w)
           status == ReviewStatus(worker[w].parsed, worker[w].check)
           a == review[j].ad
<1>1. CASE ~Owns(w, j)
  BY <1>1, SameShown DEF Complete
<1>2. CASE Owns(w, j)
  <2>1. /\ review' = [review EXCEPT ![j] = [review[j] EXCEPT !.status = status]]
        /\ ad' = [ad EXCEPT ![a] = [ad[a] EXCEPT !.status = status]]
        /\ j \in Job /\ status \in Succeeded
    <3>1. worker[w].pc = "complete" /\ j \in Job
      BY DEF Complete, WorkersBusy
    <3>2. status \in Succeeded
      BY DEF ReviewStatus
    <3>3. /\ review' = [review EXCEPT ![j] = [review[j] EXCEPT !.status = status]]
          /\ ad' = [ad EXCEPT ![a] = [ad[a] EXCEPT !.status = status]]
      BY <1>2 DEF Complete
    <3> QED BY <3>1, <3>2, <3>3
  <2>2. a \in Ad /\ ad[a].latest = j
    BY <1>2, <2>1 DEF ActiveIsLatest, Owns
  <2>3. review[j] \in ReviewRow /\ ad[a] \in AdRow /\ j # None
    BY <2>1, <2>2, ConstantsAssumption DEF ConstantsAssumption, TypeOK
  <2> HIDE DEF status, a, j
  <2>4. /\ review'[j].status = status /\ review'[j].ad = review[j].ad
        /\ \A k \in Job \ {j} : review'[k] = review[k]
    BY <2>1, <2>3 DEF TypeOK, ReviewRow
  <2>5. /\ ad'[a].status = status /\ ad'[a].latest = j
        /\ \A b \in Ad \ {a} : ad'[b] = ad[b]
    BY <2>1, <2>2, <2>3 DEF TypeOK, AdRow
  <2>6. \A b \in Ad \ {a} : ad[b].latest # None => ad[b].latest \in Job \ {j}
    BY DEF Shown, LatestIsOwn, TypeOK, AdRow, a
  <2>7. LatestIsOwn'
    <3>1. \A b \in Ad \ {a} : ad'[b].latest # None =>
            review'[ad'[b].latest].ad = b /\ review'[ad'[b].latest].status # "NONE"
      BY <2>4, <2>5, <2>6 DEF Shown, LatestIsOwn
    <3>2. review'[ad'[a].latest].ad = a /\ review'[ad'[a].latest].status # "NONE"
      <4>1. review'[j].ad = a
        BY <2>4 DEF a
      <4> QED BY <2>1, <2>4, <2>5, <4>1
    <3> QED BY <3>1, <3>2 DEF LatestIsOwn
  <2>8. AdStatusFollows'
    <3>1. ASSUME NEW b \in Ad \ {a}
          PROVE  IF ad'[b].latest # None /\ review'[ad'[b].latest].status \in Succeeded
                   THEN ad'[b].status \in {review'[ad'[b].latest].status, "REVISED"}
                   ELSE ad'[b].status \notin Succeeded
      BY <2>4, <2>5, <2>6 DEF Shown, AdStatusFollows
    <3>2. IF ad'[a].latest # None /\ review'[ad'[a].latest].status \in Succeeded
            THEN ad'[a].status \in {review'[ad'[a].latest].status, "REVISED"}
            ELSE ad'[a].status \notin Succeeded
      BY <2>1, <2>3, <2>4, <2>5
    <3> QED BY <3>1, <3>2 DEF AdStatusFollows
  <2> QED BY <2>7, <2>8 DEF Shown
<1> QED BY <1>1, <1>2

\* add makes a review that has no outcome yet the latest one.
LEMMA AddShown ==
  ASSUME IInv, Shown, NEW c \in Client, Add(c)
  PROVE  Shown'
<1> USE DEF IInv
<1> DEFINE a == api[c].ad
           j == api[c].job
<1>1. a \in Ad /\ j \in Job /\ job[j].status = "NONE" /\ review[j].status = "NONE"
  BY DEF Add, ClientsBusy, JobReviewAgree
<1>2. /\ review' = [review EXCEPT ![j] = [status |-> "ANALYSIS_REQUESTED", ad |-> a,
                                          files |-> ad[a].files]]
      /\ ad' = [ad EXCEPT ![a] = [ad[a] EXCEPT !.latest = j, !.status = "ANALYSIS_REQUESTED"]]
  BY DEF Add
<1> HIDE DEF a, j
<1>3. /\ review'[j].status = "ANALYSIS_REQUESTED" /\ review'[j].ad = a
      /\ \A k \in Job \ {j} : review'[k] = review[k]
  BY <1>1, <1>2 DEF TypeOK
<1>4. /\ ad'[a].latest = j /\ ad'[a].status = "ANALYSIS_REQUESTED"
      /\ \A b \in Ad \ {a} : ad'[b] = ad[b]
  BY <1>1, <1>2 DEF TypeOK, AdRow
<1>5. \A b \in Ad : ad[b].latest # None => ad[b].latest \in Job \ {j}
  BY <1>1 DEF Shown, LatestIsOwn, TypeOK, AdRow
<1>6. LatestIsOwn'
  BY <1>3, <1>4, <1>5 DEF Shown, LatestIsOwn
<1>7. AdStatusFollows'
  BY <1>3, <1>4, <1>5 DEF Shown, AdStatusFollows
<1> QED BY <1>6, <1>7 DEF Shown

\* A revision shows instead of the outcome; a deletion shows nothing else.
LEMMA AdShown ==
  ASSUME TypeOK, Shown, NEW a \in Ad, Revise(a) \/ DeleteAd(a) \/ RemoveFiles(a)
  PROVE  Shown'
<1>1. UNCHANGED review
  BY DEF Revise, DeleteAd, RemoveFiles, jobTables
<1>2. ad[a] \in AdRow /\ ad \in [Ad -> AdRow]
  BY DEF TypeOK
<1>3. \A b \in Ad : ad'[b].latest = ad[b].latest /\ ad'[b].status \in {ad[b].status, "REVISED"}
  <2>1. CASE Revise(a)
    <3>1. ad' = [ad EXCEPT ![a] = [ad[a] EXCEPT !.files = ad[a].files + 1, !.status = "REVISED"]]
      BY <2>1 DEF Revise
    <3> QED BY <1>2, <3>1 DEF AdRow
  <2>2. CASE DeleteAd(a) \/ RemoveFiles(a)
    <3>1. PICK life : ad' = [ad EXCEPT ![a] = [ad[a] EXCEPT !.life = life]]
      BY <2>2 DEF DeleteAd, RemoveFiles
    <3> QED BY <1>2, <3>1 DEF AdRow
  <2> QED BY <2>1, <2>2
<1>4. LatestIsOwn'
  BY <1>1, <1>3 DEF Shown, LatestIsOwn
<1>5. AdStatusFollows'
  BY <1>1, <1>3 DEF Shown, AdStatusFollows
<1> QED BY <1>4, <1>5 DEF Shown

\* Only complete gives an advertisement an outcome to show.
LEMMA WorkerShown ==
  ASSUME IInv, Shown, NEW w \in Worker, WorkerStep(w) \/ WorkerFault(w)
  PROVE  Shown'
<1> USE DEF IInv, jobTables, apiSide
<1>1. CASE Aside(w)
  <2>1. NoneCompletes /\ \A j \in Job : AnyMove(j)
    BY <1>1, AsideCompletesNone, WorkerEffects DEF OneMoves, AnyMove
  <2>2. UNCHANGED ad
    BY <1>1 DEF Aside, Claim, ClaimIgnored, LoadSource, SourceMissing, FailClaimError, ParseFails,
       Retry, FailFinal, DeadLetter, PublishRecovered, WorkerFault, ClaimFails, LoadSourceFails,
       PutFails, StepFails, HandlerFails, DeadLetterLost, PublishRecoveredFails, Crash
  <2> QED BY <2>1, <2>2, QuietShown DEF Shown
<1>2. CASE Advance(w) \/ Parse(w) \/ PutArtifact(w) \/ PersistSelected(w) \/ PersistResults(w)
           \/ PersistSuggestions(w)
  BY <1>2, SameShown DEF Advance, Parse, PutArtifact, PersistSelected, PersistResults,
     PersistSuggestions
<1>3. CASE Complete(w)
  BY <1>3, CompleteShown
<1> QED BY <1>1, <1>2, <1>3 DEF WorkerStep, Aside

\* Requests write the review and the status together; revisions, deletions, deliveries,
\* heartbeats, recovery and time leave the latest review of an advertisement what it was.
LEMMA EnvironmentShown ==
  ASSUME IInv, Shown,
         \/ \E c \in Client : ApiStep(c)
         \/ \E a \in Ad : Revise(a) \/ DeleteAd(a) \/ RemoveFiles(a)
         \/ \E w \in Worker : Pop(w) \/ Recover(w) \/ Heartbeat(w)
         \/ RedisLoss \/ Tick \/ Stall
  PROVE  Shown'
<1> USE DEF IInv, jobTables, apiSide
<1>1. ASSUME NEW c \in Client, ApiStep(c) PROVE Shown'
  BY <1>1, AddShown, SameShown DEF ApiStep, Request, AddRefused, Publish, PublishLost
<1>2. ASSUME NEW a \in Ad, Revise(a) \/ DeleteAd(a) \/ RemoveFiles(a) PROVE Shown'
  BY <1>2, AdShown
<1>3. CASE (\E w \in Worker : Pop(w) \/ Recover(w) \/ Heartbeat(w)) \/ RedisLoss \/ Tick \/ Stall
  BY <1>3, SameShown DEF Pop, Recover, Heartbeat, RedisLoss, Tick, Stall, PassTime
<1> QED BY <1>1, <1>2, <1>3

-----------------------------------------------------------------------------
(* The invariant is inductive.                                             *)

\* In the empty tables nothing is stored, failed or shown.
LEMMA InitCheckpoints ==
  ASSUME Init
  PROVE  CInv
<1>1. IInv
  BY InitInvariant
<1>2. StagesReached /\ OneSender
  BY DEF Init, IdleWorker, StagesReached, Reached, OneSender, HasParsed, HasSelected, HasItems
<1>3. CheckpointCoherent
  BY DEF Init, NoJob, NoResult, CheckpointCoherent
<1>4. Causes /\ DeadLetterSound
  BY DEF Init, IdleWorker, NoJob, Causes, DeadLetterSound
<1>5. LatestIsOwn /\ AdStatusFollows
  BY DEF Init, NewAd, LatestIsOwn, AdStatusFollows
<1> QED BY <1>1, <1>2, <1>3, <1>4, <1>5 DEF CInv

\* Every step, and a stutter, keeps the invariant.
LEMMA NextCheckpoints ==
  ASSUME CInv, [Next]_vars
  PROVE  CInv'
<1> USE DEF CInv, Letters, Shown
<1>1. IInv'
  BY NextInvariant
<1>2. ASSUME NEW w \in Worker, WorkerStep(w) \/ WorkerFault(w)
      PROVE  /\ StagesReached' /\ CheckpointCoherent'
             /\ OneSender' /\ Causes' /\ DeadLetterSound'
             /\ LatestIsOwn' /\ AdStatusFollows'
  <2>1. StagesReached' /\ CheckpointCoherent'
    BY <1>2, AsideCheckpoints, StageCheckpoints DEF IInv, WorkerStep, Aside
  <2>2. Letters'
    BY <1>2, WorkerLetters DEF IInv
  <2>3. Shown'
    BY <1>2, WorkerShown
  <2> QED BY <2>1, <2>2, <2>3
<1>3. ASSUME \/ \E c \in Client : ApiStep(c)
             \/ \E a \in Ad : Revise(a) \/ DeleteAd(a) \/ RemoveFiles(a)
             \/ \E w \in Worker : Pop(w) \/ Recover(w) \/ Heartbeat(w)
             \/ RedisLoss \/ Tick \/ Stall
      PROVE  /\ StagesReached' /\ CheckpointCoherent'
             /\ OneSender' /\ Causes' /\ DeadLetterSound'
             /\ LatestIsOwn' /\ AdStatusFollows'
  <2>1. StagesReached' /\ CheckpointCoherent'
    BY <1>3, EnvironmentCheckpoints DEF IInv
  <2>2. Letters'
    BY <1>3, EnvironmentLetters DEF IInv
  <2>3. Shown'
    BY <1>3, EnvironmentShown
  <2> QED BY <2>1, <2>2, <2>3
<1>4. CASE UNCHANGED vars
  BY <1>1, <1>4 DEF vars, StagesReached, Reached, CheckpointCoherent, OneSender, Causes,
     DeadLetterSound, LatestIsOwn, AdStatusFollows
<1> QED BY <1>1, <1>2, <1>3, <1>4 DEF Next

\* The strengthened invariant, from which the three invariants below follow, holds in
\* every reachable state (jobs.py process, postgres.py).
THEOREM CheckpointsInductive == Spec => []CInv
<1>1. Init => CInv
  BY InitCheckpoints
<1>2. CInv /\ [Next]_vars => CInv'
  BY NextCheckpoints
<1> QED BY <1>1, <1>2, PTL DEF Spec

-----------------------------------------------------------------------------
(* The theorems.                                                           *)

\* Whatever processes take a job over, resume it or go on without the lease,
\* each stored stage has the one it was made from, and a completed job lacks
\* none (persist_selected, persist_results, persist_suggestions, complete).
THEOREM CheckpointsCohere == Spec => []CheckpointCoherent
<1>1. CInv => CheckpointCoherent
  BY DEF CInv
<1> QED BY <1>1, CheckpointsInductive, PTL

\* However processes crash and jobs are recovered, a job has at most one dead
\* letter, has failed when it has one, and is given up for transient failures
\* only after all its retries (retry_or_dead_letter, fail_final).
THEOREM DeadLettersAreSound == Spec => []DeadLetterSound
<1>1. CInv => DeadLetterSound
  BY DEF CInv
<1> QED BY <1>1, CheckpointsInductive, PTL

\* However late the processes of earlier reviews finish, an advertisement
\* shows the outcome of its latest review or a later revision (complete, add,
\* add_revision).
THEOREM AdStatusIsTheLatest == Spec => []AdStatusFollows
<1>1. CInv => AdStatusFollows
  BY DEF CInv
<1> QED BY <1>1, CheckpointsInductive, PTL

-----------------------------------------------------------------------------
(* The lease of a review job (locked_by, guarded by every UPDATE of         *)
(* postgres.py) fences off every process but its holder, when the           *)
(* processes have worker_ids of their own.                                  *)

DistinctWorkerIds == \A v, w \in Worker : WorkerId[v] = WorkerId[w] => v = w

AllFenced == \A w \in Worker, j \in Job : Fenced(w, j)

\* What HoldsLease reads, and what a step must keep of a job it does not own.
Kept(j) ==
  /\ job'[j].status = job[j].status /\ job'[j].lockedBy = job[j].lockedBy
  /\ job'[j].retries = job[j].retries /\ review'[j] = review[j] /\ step'[j] = step[j]
  /\ \A column \in {"selected", "source", "items", "suggested"} :
       saved'[j][column] = saved[j][column]

\* A step that keeps the rows of a job respects every lease on it.
LEMMA KeptFenced ==
  ASSUME NEW j \in Job, Kept(j)
  PROVE  \A w \in Worker : Fenced(w, j)
BY DEF Kept, Fenced, HoldsLease

\* A process that writes the rows of one job, and either holds it or finds it
\* held by nobody, disturbs no other process.
LEMMA HolderFenced ==
  ASSUME DistinctWorkerIds, NEW x \in Worker, NEW t \in Job,
         \A k \in Job \ {t} : Kept(k), worker'[x] # worker[x],
         Owns(x, t) \/ job[t].status # "RUNNING"
  PROVE  AllFenced
<1>1. ASSUME NEW w \in Worker PROVE Fenced(w, t)
  <2>1. CASE HoldsLease(w, t)
    <3>1. WorkerId[w] = WorkerId[x]
      BY <2>1 DEF HoldsLease, Owns
    <3>2. w = x
      BY <3>1 DEF DistinctWorkerIds
    <3> QED BY <3>2 DEF Fenced
  <2>2. CASE ~HoldsLease(w, t)
    BY <2>2 DEF Fenced
  <2> QED BY <2>1, <2>2
<1>2. ASSUME NEW w \in Worker, NEW k \in Job \ {t} PROVE Fenced(w, k)
  BY <1>2, KeptFenced
<1> QED BY <1>1, <1>2 DEF AllFenced

\* A step that writes no table of a job disturbs no process.
LEMMA UnchangedKept ==
  ASSUME UNCHANGED <<job, review, step, saved>>
  PROVE  AllFenced
BY KeptFenced DEF Kept, AllFenced

\* Finalize writes the rows of one job.
LEMMA FinalizeKept ==
  ASSUME TypeOK, NEW t \in Job, NEW c \in Cause, Finalize(t, c), UNCHANGED saved
  PROVE  \A k \in Job \ {t} : Kept(k)
BY DEF Finalize, Kept, TypeOK

\* A process that moves on, or leaves, is not where it was.
LEMMA Elsewhere ==
  ASSUME TypeOK, NEW x \in Worker
  PROVE  /\ \A pc \in WorkerPC : Goto(x, pc) /\ worker[x].pc # pc => worker'[x] # worker[x]
         /\ Leave(x) /\ worker[x].pc # "idle" => worker'[x] # worker[x]
<1>1. worker \in [Worker -> WorkerState]
  BY DEF TypeOK
<1>2. \A pc \in WorkerPC : Goto(x, pc) => worker'[x].pc = pc
  BY <1>1 DEF Goto, WorkerState
<1>3. Leave(x) => worker'[x].pc = "idle"
  BY <1>1 DEF Leave, IdleWorker
<1> QED BY <1>2, <1>3

\* Every step of a worker disturbs no other: it writes a job it owns, claims or
\* finalises one that nobody runs, or writes nothing (jobs.py process).
LEMMA WorkerFenced ==
  ASSUME DistinctWorkerIds, TypeOK, WorkersBusy, NEW x \in Worker, WorkerStep(x)
  PROVE  AllFenced
<1> USE LocalFields, PCs DEF jobTables, workerSide, apiSide
<1>busy. worker[x].pc \notin {"idle", "recover"} => Task(x) \in Job
  BY DEF WorkersBusy
<1>local. worker \in [Worker -> WorkerState]
  BY DEF TypeOK
<1>0. CASE UNCHANGED <<job, review, step, saved>>
  BY <1>0, UnchangedKept
<1>1. CASE Claim(x)
  <2>1. \A k \in Job \ {Task(x)} : Kept(k)
    BY <1>1 DEF Claim, Kept, TypeOK
  <2>2. worker'[x] # worker[x] /\ Task(x) \in Job /\ job[Task(x)].status # "RUNNING"
    BY <1>1, <1>busy, Elsewhere DEF Claim, CanClaim
  <2> QED BY <2>1, <2>2, HolderFenced
<1>2. CASE FailClaimError(x) /\ MayFail(x, Task(x))
  <2>1. Finalize(Task(x), worker[x].cause) /\ Goto(x, "dead") /\ UNCHANGED saved /\ Task(x) \in Job
    BY <1>2, <1>busy DEF FailClaimError
  <2>2. worker'[x] # worker[x]
    BY <1>2, <2>1, Elsewhere DEF FailClaimError
  <2>3. Owns(x, Task(x)) \/ job[Task(x)].status # "RUNNING"
    BY <1>2 DEF MayFail
  <2> QED BY <2>1, <2>2, <2>3, FinalizeKept, HolderFenced
<1>3. CASE Advance(x) /\ Owns(x, Task(x))
  <2>1. \A k \in Job \ {Task(x)} : Kept(k)
    BY <1>3 DEF Advance, Kept, TypeOK
  <2>2. worker[x].pc \in Advancing /\ Goto(x, AdvanceNext[worker[x].pc])
    BY <1>3 DEF Advance
  <2>3. AdvanceNext[worker[x].pc] \in WorkerPC /\ AdvanceNext[worker[x].pc] # worker[x].pc
    BY <2>2 DEF AdvanceNext, Advancing
  <2>4. worker'[x] # worker[x] /\ Task(x) \in Job
    BY <2>2, <2>3, <1>busy, Elsewhere DEF Advancing
  <2> QED BY <1>3, <2>1, <2>4, HolderFenced
<1>4. CASE PutArtifact(x)
  <2>1. Task(x) \in Job
    BY <1>4, <1>busy DEF PutArtifact
  <2>2. ASSUME NEW r \in ResultRow, NEW o,
               NEW column \in {"selected", "source", "items", "suggested"}
        PROVE  [r EXCEPT !.artifact = o][column] = r[column]
    BY DEF ResultRow
  <2>3. CASE saved' = [saved EXCEPT ![Task(x)] = [saved[Task(x)] EXCEPT !.artifact = worker[x].parsed]]
    <3>1. \A k \in Job : saved[k] \in ResultRow
      BY DEF TypeOK
    <3>2. \A k \in Job : saved'[k] = saved[k]
                         \/ saved'[k] = [saved[k] EXCEPT !.artifact = worker[x].parsed]
      BY <2>1, <2>3 DEF TypeOK
    <3>3. UNCHANGED <<job, review, step>>
      BY <1>4 DEF PutArtifact
    <3>4. ASSUME NEW k \in Job, NEW column \in {"selected", "source", "items", "suggested"}
          PROVE  saved'[k][column] = saved[k][column]
      <4>1. CASE saved'[k] = saved[k]
        BY <4>1
      <4>2. CASE saved'[k] = [saved[k] EXCEPT !.artifact = worker[x].parsed]
        <5> DEFINE o == worker[x].parsed
        <5>1. [saved[k] EXCEPT !.artifact = o][column] = saved[k][column]
          <6> HIDE DEF o
          <6> QED BY <2>2, <3>1
        <5> QED BY <4>2, <5>1
      <4> QED BY <3>2, <4>1, <4>2
    <3>5. \A k \in Job : Kept(k)
      BY <3>3, <3>4 DEF Kept
    <3> QED BY <3>5, KeptFenced DEF AllFenced
  <2>4. CASE UNCHANGED saved
    BY <1>4, <2>4, UnchangedKept DEF PutArtifact
  <2> QED BY <1>4, <2>3, <2>4 DEF PutArtifact
<1>5. CASE PersistSelected(x) /\ Owns(x, Task(x))
  <2>1. \A k \in Job \ {Task(x)} : Kept(k)
    BY <1>5 DEF PersistSelected, Kept, TypeOK
  <2>2. CASE Goto(x, "rule")
    <3>1. worker'[x] # worker[x] /\ Task(x) \in Job
      BY <1>5, <2>2, <1>busy, Elsewhere DEF PersistSelected
    <3> QED BY <1>5, <2>1, <3>1, HolderFenced
  <2>3. CASE UNCHANGED saved
    BY <1>5, <2>3, UnchangedKept DEF PersistSelected
  <2> QED BY <1>5, <2>2, <2>3 DEF PersistSelected
<1>6. CASE PersistResults(x) /\ Owns(x, Task(x))
  <2>1. \A k \in Job \ {Task(x)} : Kept(k)
    BY <1>6 DEF PersistResults, Kept, TypeOK
  <2>2. worker'[x].pc \in {"suggest", "complete"} /\ worker[x].pc = "results"
    <3> DEFINE next == IF Task(x) \in Suggesting THEN "suggest" ELSE "complete"
    <3>1. worker[x].pc = "results" /\ worker[x] \in WorkerState
      BY <1>6, <1>local DEF PersistResults
    <3>2. PICK v : worker' = [worker EXCEPT ![x] = [@ EXCEPT !.check = v, !.pc = next]]
      BY <1>6 DEF PersistResults
    <3>3. worker'[x] = [worker[x] EXCEPT !.check = v, !.pc = next]
      BY <1>local, <3>2
    <3>4. worker'[x].pc = next
      BY <3>1, <3>3 DEF WorkerState
    <3> QED BY <3>1, <3>4
  <2>3. worker'[x] # worker[x] /\ Task(x) \in Job
    BY <2>2, <1>busy
  <2> QED BY <1>6, <2>1, <2>3, HolderFenced
<1>7. CASE PersistSuggestions(x) /\ Owns(x, Task(x))
  <2>1. \A k \in Job \ {Task(x)} : Kept(k)
    BY <1>7 DEF PersistSuggestions, Kept, TypeOK
  <2>2. worker'[x] # worker[x] /\ Task(x) \in Job
    BY <1>7, <1>busy, Elsewhere DEF PersistSuggestions
  <2> QED BY <1>7, <2>1, <2>2, HolderFenced
<1>8. CASE Complete(x) /\ Owns(x, Task(x))
  <2>1. \A k \in Job \ {Task(x)} : Kept(k)
    BY <1>8 DEF Complete, Kept, TypeOK
  <2>2. worker'[x] # worker[x] /\ Task(x) \in Job
    BY <1>8, <1>busy, Elsewhere DEF Complete
  <2> QED BY <1>8, <2>1, <2>2, HolderFenced
<1>9. CASE Retry(x) /\ Owns(x, Task(x))
  <2>1. Task(x) \in Job /\ worker[x].pc = "retry"
    BY <1>9, <1>busy DEF Retry
  <2>2. CASE Finalize(Task(x), worker[x].cause) /\ Goto(x, "dead")
    <3>1. worker'[x] # worker[x]
      BY <2>1, <2>2, Elsewhere
    <3>2. UNCHANGED saved
      BY <1>9 DEF Retry
    <3> QED BY <1>9, <2>1, <2>2, <3>1, <3>2, FinalizeKept, HolderFenced
  <2>3. CASE Leave(x)
    <3>1. \A k \in Job \ {Task(x)} : Kept(k)
      BY <1>9, <2>3 DEF Retry, Kept, TypeOK, Finalize
    <3>2. worker'[x] # worker[x]
      BY <2>1, <2>3, Elsewhere
    <3> QED BY <1>9, <2>1, <3>1, <3>2, HolderFenced
  <2> QED BY <1>9, <2>2, <2>3 DEF Retry
<1>10. CASE FailFinal(x) /\ Owns(x, Task(x))
  <2>1. Finalize(Task(x), worker[x].cause) /\ Goto(x, "dead") /\ UNCHANGED saved /\ Task(x) \in Job
    BY <1>10, <1>busy DEF FailFinal
  <2>2. worker'[x] # worker[x]
    BY <1>10, <2>1, Elsewhere DEF FailFinal
  <2> QED BY <1>10, <2>1, <2>2, FinalizeKept, HolderFenced
<1> QED
  BY <1>0, <1>1, <1>2, <1>3, <1>4, <1>5, <1>6, <1>7, <1>8, <1>9, <1>10
  DEF WorkerStep, ClaimIgnored, LoadSource, SourceMissing, FailClaimError, Advance, Parse,
      ParseFails, PersistSelected, PersistResults, PersistSuggestions, Complete, Retry,
      FailFinal, DeadLetter, PublishRecovered

\* Inserting a job, beating, and the passing of time take no lease away;
\* recovery takes those whose heartbeat is too old.
LEMMA OthersFenced ==
  ASSUME TypeOK, WorkersBusy, ClientsBusy,
         \/ \E c \in Client : ApiStep(c)
         \/ \E w \in Worker : Recover(w) \/ Heartbeat(w)
         \/ Tick \/ Stall
  PROVE  AllFenced
<1> USE DEF jobTables, workerSide, apiSide
<1>1. ASSUME NEW c \in Client, ApiStep(c) PROVE AllFenced
  <2>1. CASE Add(c)
    <3>1. PICK t \in Job : t = api[c].job /\ job[t].status = "NONE"
      BY <2>1 DEF Add, ClientsBusy
    <3>2. \A k \in Job \ {t} : Kept(k)
      BY <2>1, <3>1 DEF Add, Kept, TypeOK
    <3>3. \A w \in Worker : Fenced(w, t)
      BY <3>1 DEF Fenced, HoldsLease
    <3> QED BY <3>2, <3>3, KeptFenced DEF AllFenced
  <2>2. CASE ~Add(c)
    BY <1>1, <2>2, UnchangedKept DEF ApiStep, Request, AddRefused, Publish, PublishLost
  <2> QED BY <2>1, <2>2
<1>2. ASSUME NEW w \in Worker, Recover(w) PROVE AllFenced
  <2> DEFINE stale == {k \in Job : Stale(k)}
             due == stale \cup {k \in Job : Overdue(k)}
  <2>1. /\ job' = [k \in Job |-> IF k \in stale THEN Settled(job[k], "STALE")
                                 ELSE IF k \in due THEN [job[k] EXCEPT !.leaseAge = 0]
                                 ELSE job[k]]
        /\ UNCHANGED <<review, step, saved>>
    BY <1>2 DEF Recover
  <2>2. ASSUME NEW k \in Job, k \in stale, NEW x \in Worker PROVE Fenced(x, k)
    <3>1. job'[k] = Settled(job[k], "STALE") /\ Stale(k)
      BY <2>1, <2>2
    <3>2. job'[k].status = "STALE" /\ job'[k].retries = job[k].retries
      BY <3>1 DEF Settled
    <3> QED BY <2>1, <3>1, <3>2 DEF Fenced
  <2>3. ASSUME NEW k \in Job, k \notin stale PROVE Kept(k)
    <3>1. job'[k] = [job[k] EXCEPT !.leaseAge = 0] \/ job'[k] = job[k]
      BY <2>1, <2>3
    <3> HIDE DEF stale, due
    <3>2. job[k] \in JobRow
      BY DEF TypeOK
    <3>3. /\ job'[k].status = job[k].status /\ job'[k].lockedBy = job[k].lockedBy
          /\ job'[k].retries = job[k].retries
      BY <3>1, <3>2 DEF JobRow
    <3> QED BY <2>1, <3>3 DEF Kept
  <2> HIDE DEF stale, due
  <2> QED BY <2>2, <2>3, KeptFenced DEF AllFenced
<1>3. ASSUME NEW w \in Worker, Heartbeat(w) PROVE AllFenced
  <2>1. job' = [job EXCEPT ![Task(w)] = [job[Task(w)] EXCEPT !.beatAge = 0]]
        /\ UNCHANGED <<review, step, saved>>
    BY <1>3 DEF Heartbeat
  <2>2. \A k \in Job : Kept(k)
    BY <2>1 DEF Kept, TypeOK, JobRow
  <2> QED BY <2>2, KeptFenced DEF AllFenced
<1>4. CASE Tick \/ Stall
  <2>1. job' = [k \in Job |-> Aged(job[k])] /\ UNCHANGED <<review, step, saved>>
    BY <1>4 DEF Tick, Stall, PassTime
  <2>2. \A k \in Job : Kept(k)
    BY <2>1, AgedRow DEF Kept, TypeOK
  <2> QED BY <2>2, KeptFenced DEF AllFenced
<1> QED BY <1>1, <1>2, <1>3, <1>4

\* No step of the system disturbs a process that is not its actor.
LEMMA NextFenced ==
  ASSUME DistinctWorkerIds, IInv, Next
  PROVE  AllFenced
<1> USE DEF IInv
<1>1. CASE \E c \in Client : ApiStep(c)
  BY <1>1, OthersFenced
<1>2. CASE \E w \in Worker : Recover(w) \/ Heartbeat(w)
  BY <1>2, OthersFenced
<1>3. CASE Tick \/ Stall
  BY <1>3, OthersFenced
<1>4. CASE \E w \in Worker : WorkerStep(w)
  BY <1>4, WorkerFenced
<1>5. CASE (\E w \in Worker : WorkerFault(w) \/ Pop(w)) \/ RedisLoss
           \/ (\E a \in Ad : Revise(a) \/ DeleteAd(a) \/ RemoveFiles(a))
  BY <1>5, UnchangedKept
  DEF WorkerFault, ClaimFails, LoadSourceFails, PutFails, StepFails, HandlerFails,
      DeadLetterLost, PublishRecoveredFails, Crash, Pop, RedisLoss, Revise, DeleteAd,
      RemoveFiles, jobTables
<1> QED BY <1>1, <1>2, <1>3, <1>4, <1>5 DEF Next

\* While a process holds a job, no other process changes its job, review,
\* steps or results, and only recovery of a stale heartbeat may take the
\* lease away, provided no two processes share a worker_id (settings.py
\* gives every process that sets none the same one).
THEOREM LeaseHolds ==
  ASSUME DistinctWorkerIds
  PROVE  Spec => LeaseFencesOthers
<1>1. IInv /\ [Next]_vars => [AllFenced]_vars
  BY NextFenced
<1> QED BY <1>1, Inductive, PTL DEF Spec, LeaseFencesOthers, AllFenced

=============================================================================
