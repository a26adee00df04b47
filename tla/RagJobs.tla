------------------------------- MODULE RagJobs -------------------------------
(***************************************************************************)
(* The job service of the operational pipeline (rag-pipeline/rag/api/      *)
(* service.py): a JobStore of JSON files, an in-memory executor of         *)
(* queue_workers threads, attempts that may be retried, and a process      *)
(* that may die and come back.                                             *)
(*                                                                         *)
(* The files survive a crash; the executor, its threads and the callers do *)
(* not.  One action is one locked write of status.json, one subprocess, or *)
(* one call of the executor.  A client_request_id has one caller: the web  *)
(* bridge gives every review a thread and a key of its own, and the HTTP   *)
(* server runs its handlers on one event loop.                             *)
(***************************************************************************)
EXTENDS Naturals, Sequences, FiniteSets

CONSTANTS
  Key,          \* client_request_ids
  Job,          \* job ids that uuid4 may draw
  Lane,         \* threads of the executor (queue_workers)
  Planning,     \* the keys whose request has execute_model = false
  MaxAttempts,  \* max_attempts
  MaxCrashes,   \* bound: crashes of one behaviour
  MaxRetries,   \* bound: explicit retries of one behaviour
  None

VARIABLES
  status,   \* status.json of each job: state, attempt, result_file
  owner,    \* request.json of each job, as the key it was submitted under
  index,    \* .idempotency: the job of each key
  output,   \* the result files of each attempt of each job
  tasks,    \* work items of the executor
  lane,     \* local state of the executor's threads
  caller,   \* local state of the thread that serves each key
  process,  \* the service process: down, starting or up
  crashes,
  retries

vars == <<status, owner, index, output, tasks, lane, caller, process, crashes, retries>>

ASSUME ConstantsAssumption ==
  /\ Planning \subseteq Key
  /\ MaxAttempts \in Nat \ {0}
  /\ {MaxCrashes, MaxRetries} \subseteq Nat
  /\ None \notin Key \cup Job

-----------------------------------------------------------------------------
Unfinished == {"QUEUED", "RUNNING"}
Stopped == {"INPUT_REQUIRED", "FAILED", "INTERRUPTED"}
TerminalStates == {"COMPLETED", "COMPLETED_WITH_WARNINGS", "PLANNED"} \cup Stopped

Attempt == 1 .. MaxAttempts
\* A result file: not there, with pairs missing (output_failures), or with
\* every requested pair predicted.
Content == {"absent", "partial", "whole"}
NoStatus == [state |-> "NONE", attempt |-> 0, file |-> "none"]
NoOutput == [judged |-> "absent", recovered |-> "absent"]
IdleLane == [pc |-> "idle", job |-> None, attempt |-> 0]
IdleCaller == [pc |-> "idle", job |-> None]
Up == [pc |-> "up", stale |-> {}, job |-> None]

Init ==
  /\ status = [j \in Job |-> NoStatus]
  /\ owner = [j \in Job |-> None]
  /\ index = [k \in Key |-> None]
  /\ output = [j \in Job |-> [n \in Attempt |-> NoOutput]]
  /\ tasks = <<>>
  /\ lane = [l \in Lane |-> IdleLane]
  /\ caller = [k \in Key |-> IdleCaller]
  /\ process = Up
  /\ crashes = 0 /\ retries = 0

store == <<status, owner, index, output>>
bounds == <<crashes, retries>>

\* JobStore.update: the named fields change, the others stay.
SetState(j, state) == status' = [status EXCEPT ![j].state = state]

-----------------------------------------------------------------------------
(* submit and retry.                                                       *)

\* JobStore.create on a new key: request.json, status.json, then the index.
Create(k, j) ==
  /\ owner' = [owner EXCEPT ![j] = k]
  /\ status' = [status EXCEPT ![j].state = "QUEUED"]

Submit(k) ==
  /\ process.pc = "up" /\ caller[k].pc = "idle" /\ index[k] = None
  /\ \E j \in Job :
       /\ status[j].state = "NONE"
       /\ Create(k, j)
       /\ index' = [index EXCEPT ![k] = j]
       /\ caller' = [caller EXCEPT ![k] = [pc |-> "enqueue", job |-> j]]
  /\ UNCHANGED <<output, tasks, lane, process, bounds>>

\* The executor gets the job after create or update has returned.
Enqueue(k) ==
  /\ caller[k].pc = "enqueue"
  /\ tasks' = Append(tasks, caller[k].job)
  /\ caller' = [caller EXCEPT ![k] = IdleCaller]
  /\ UNCHANGED <<store, lane, process, bounds>>

\* Mutant: the state is not looked at.
RetryableAlways(j) == status[j].attempt < MaxAttempts
Retryable(j) == status[j].state \in TerminalStates /\ status[j].attempt < MaxAttempts

Retry(k) ==
  LET j == index[k] IN
  /\ process.pc = "up" /\ caller[k].pc = "idle" /\ j # None
  /\ Retryable(j) /\ retries < MaxRetries
  /\ SetState(j, "QUEUED")
  /\ caller' = [caller EXCEPT ![k] = [pc |-> "enqueue", job |-> j]]
  /\ retries' = retries + 1
  /\ UNCHANGED <<owner, index, output, tasks, lane, process, crashes>>

-----------------------------------------------------------------------------
(* One run of a job, in a thread of the executor.                          *)

Take(l) ==
  /\ lane[l].pc = "idle" /\ tasks # <<>>
  /\ lane' = [lane EXCEPT ![l] = [pc |-> "begin", job |-> Head(tasks), attempt |-> 0]]
  /\ tasks' = Tail(tasks)
  /\ UNCHANGED <<store, caller, process, bounds>>

Begin(l) ==
  LET j == lane[l].job
      n == status[j].attempt + 1 IN
  /\ lane[l].pc = "begin"
  /\ status' = [status EXCEPT ![j] = [@ EXCEPT !.state = "RUNNING", !.attempt = n]]
  /\ lane' = [lane EXCEPT ![l] = [@ EXCEPT !.pc = "prepare", !.attempt = n]]
  /\ UNCHANGED <<owner, index, output, tasks, caller, process, bounds>>

Goto(l, pc) == lane' = [lane EXCEPT ![l].pc = pc]

\* The documents are split by product before any subprocess; a document that
\* cannot be split is a ValueError.
Prepare(l) ==
  /\ lane[l].pc = "prepare"
  /\ \E pc \in {"pipeline", "input"} : Goto(l, pc)
  /\ UNCHANGED <<store, tasks, caller, process, bounds>>

\* _complete_saved_result.
CompleteSavedResult(content) == content = "whole"

\* The pipeline subprocess: it exits with 0, with an error that mentions the
\* transport or not, or is killed at the timeout (no RuntimeError).
Pipeline(l) ==
  LET j == lane[l].job
      n == lane[l].attempt
      plan == owner[j] \in Planning IN
  /\ lane[l].pc = "pipeline"
  /\ \E ending \in {"ok", "transient", "failed", "timeout"},
        content \in IF plan THEN {"absent"} ELSE Content :
       /\ ending = "ok" => plan \/ content # "absent"
       /\ output' = [output EXCEPT ![j][n].judged = content]
       /\ CASE ending = "ok" /\ plan -> Goto(l, "finish")
            [] ending = "ok" /\ ~plan -> Goto(l, "collect")
            [] ending = "timeout" -> Goto(l, "failed")
            [] ending \in {"transient", "failed"} ->
                 Goto(l, IF ~plan /\ CompleteSavedResult(content) THEN "collect" ELSE ending)
  /\ UNCHANGED <<status, owner, index, tasks, caller, process, bounds>>

\* Output failures are judged again once, in small batches; recovery-build may
\* find nothing to ask for.
Collect(l) ==
  LET j == lane[l].job
      n == lane[l].attempt IN
  /\ lane[l].pc = "collect"
  /\ \/ output[j][n].judged = "whole" /\ Goto(l, "finish") /\ UNCHANGED output
     \/ /\ output[j][n].judged = "partial"
        /\ \/ Goto(l, "finish") /\ UNCHANGED output
           \/ /\ \E content \in {"partial", "whole"} :
                   output' = [output EXCEPT ![j][n].recovered = content]
              /\ Goto(l, "finish")
           \/ \E pc \in {"transient", "failed"} : Goto(l, pc) /\ UNCHANGED output
  /\ UNCHANGED <<status, owner, index, tasks, caller, process, bounds>>

\* Mutant: the number of failures is not read again after the recovery.
StaleFailures(out) == out.judged = "whole"
\* failures after the recovery, of the file that result_file names.
NoFailures(out) == IF out.recovered # "absent" THEN out.recovered = "whole" ELSE out.judged = "whole"

Finish(l) ==
  LET j == lane[l].job
      out == output[j][lane[l].attempt]
      plan == owner[j] \in Planning IN
  /\ lane[l].pc = "finish"
  /\ status' = [status EXCEPT ![j] = [@ EXCEPT
       !.state = IF plan THEN "PLANNED"
                 ELSE IF NoFailures(out) THEN "COMPLETED" ELSE "COMPLETED_WITH_WARNINGS",
       !.file = IF plan THEN "discovery"
                ELSE IF out.recovered # "absent" THEN "recovered" ELSE "judged"]]
  /\ lane' = [lane EXCEPT ![l] = IdleLane]
  /\ UNCHANGED <<owner, index, output, tasks, caller, process, bounds>>

MayRunAgain(l) == lane[l].attempt < MaxAttempts

\* TransientPipelineError: the thread queues the job, sleeps, and submits it.
Transient(l) ==
  /\ lane[l].pc = "transient"
  /\ IF MayRunAgain(l)
       THEN SetState(lane[l].job, "QUEUED") /\ Goto(l, "sleep")
       ELSE SetState(lane[l].job, "FAILED") /\ lane' = [lane EXCEPT ![l] = IdleLane]
  /\ UNCHANGED <<owner, index, output, tasks, caller, process, bounds>>

Resubmit(l) ==
  /\ lane[l].pc = "sleep"
  /\ tasks' = Append(tasks, lane[l].job)
  /\ lane' = [lane EXCEPT ![l] = IdleLane]
  /\ UNCHANGED <<store, caller, process, bounds>>

\* ValueError, and every other exception.
Stop(l) ==
  /\ lane[l].pc \in {"input", "failed"}
  /\ SetState(lane[l].job, IF lane[l].pc = "input" THEN "INPUT_REQUIRED" ELSE "FAILED")
  /\ lane' = [lane EXCEPT ![l] = IdleLane]
  /\ UNCHANGED <<owner, index, output, tasks, caller, process, bounds>>

-----------------------------------------------------------------------------
(* Crashes and restarts.                                                   *)

Die ==
  /\ crashes < MaxCrashes
  /\ crashes' = crashes + 1
  /\ tasks' = <<>>
  /\ lane' = [l \in Lane |-> IdleLane]
  /\ caller' = [k \in Key |-> IdleCaller]
  /\ process' = [Up EXCEPT !.pc = "down"]
  /\ UNCHANGED retries

Crash == process.pc # "down" /\ Die /\ UNCHANGED store

\* The process dies inside create, after status.json and before the index.
CrashInCreate(k) ==
  /\ process.pc = "up" /\ caller[k].pc = "idle" /\ index[k] = None
  /\ \E j \in Job : status[j].state = "NONE" /\ Create(k, j)
  /\ Die /\ UNCHANGED <<index, output>>

\* Mutant: jobs without attempts left are not taken up.
AbandonedRetryable(j) == status[j].state = "RUNNING" /\ status[j].attempt < MaxAttempts
Abandoned(j) == status[j].state = "RUNNING"

\* __init__ lists the RUNNING jobs, before any thread or caller exists.
Start ==
  /\ process.pc = "down"
  /\ process' = [Up EXCEPT !.pc = "interrupt", !.stale = {j \in Job : Abandoned(j)}]
  /\ UNCHANGED <<store, tasks, lane, caller, bounds>>

\* interrupt_stale_jobs rewrites one status.json after the other ...
Interrupt ==
  /\ process.pc = "interrupt"
  /\ \E j \in process.stale : Abandoned(j) /\ SetState(j, "INTERRUPTED")
  /\ UNCHANGED <<owner, index, output, tasks, lane, caller, process, bounds>>

\* ... until none is RUNNING.
Interrupted ==
  /\ process.pc = "interrupt" /\ \A j \in process.stale : ~Abandoned(j)
  /\ process' = [process EXCEPT !.pc = "requeue"]
  /\ UNCHANGED <<store, tasks, lane, caller, bounds>>

\* A stale job that has attempts left is queued, and then submitted.
Requeue ==
  /\ process.pc = "requeue"
  /\ \E j \in process.stale :
       /\ status[j].attempt < MaxAttempts
       /\ SetState(j, "QUEUED")
       /\ process' = [pc |-> "resubmit", stale |-> process.stale \ {j}, job |-> j]
  /\ UNCHANGED <<owner, index, output, tasks, lane, caller, bounds>>

ResubmitStale ==
  /\ process.pc = "resubmit"
  /\ tasks' = Append(tasks, process.job)
  /\ process' = [process EXCEPT !.pc = "requeue", !.job = None]
  /\ UNCHANGED <<store, lane, caller, bounds>>

Started ==
  /\ process.pc = "requeue" /\ \A j \in process.stale : status[j].attempt >= MaxAttempts
  /\ process' = Up
  /\ UNCHANGED <<store, tasks, lane, caller, bounds>>

-----------------------------------------------------------------------------
LaneStep(l) ==
  \/ Take(l) \/ Begin(l) \/ Prepare(l) \/ Pipeline(l) \/ Collect(l) \/ Finish(l)
  \/ Transient(l) \/ Resubmit(l) \/ Stop(l)

Boot == Start \/ Interrupt \/ Interrupted \/ Requeue \/ ResubmitStale \/ Started

Next ==
  \/ \E k \in Key : Submit(k) \/ Enqueue(k) \/ Retry(k) \/ CrashInCreate(k)
  \/ \E l \in Lane : LaneStep(l)
  \/ Boot \/ Crash

Spec == Init /\ [][Next]_vars

\* Threads run, subprocesses end (at the timeout at the latest), a service
\* that died is started again.
FairSpec ==
  /\ Spec
  /\ \A l \in Lane : WF_vars(LaneStep(l))
  /\ \A k \in Key : WF_vars(Enqueue(k))
  /\ WF_vars(Boot)

-----------------------------------------------------------------------------
(* Properties.                                                             *)

\* The files and the local states have the values the code gives them.
TypeOK ==
  /\ status \in [Job -> [state : {"NONE"} \cup Unfinished \cup TerminalStates,
                         attempt : 0 .. MaxAttempts,
                         file : {"none", "judged", "recovered", "discovery"}]]
  /\ owner \in [Job -> Key \cup {None}]
  /\ index \in [Key -> Job \cup {None}]
  /\ output \in [Job -> [Attempt -> [judged : Content, recovered : Content]]]
  /\ tasks \in Seq(Job)
  /\ lane \in [Lane -> [pc : {"idle", "begin", "prepare", "pipeline", "collect", "finish",
                              "transient", "sleep", "input", "failed"},
                        job : Job \cup {None}, attempt : 0 .. MaxAttempts]]
  /\ caller \in [Key -> [pc : {"idle", "enqueue"}, job : Job \cup {None}]]
  /\ process \in [pc : {"down", "interrupt", "requeue", "resubmit", "up"},
                  stale : SUBSET Job, job : Job \cup {None}]
  /\ crashes \in 0 .. MaxCrashes /\ retries \in 0 .. MaxRetries

\* How many work items, threads, callers and loops are to bring j forward.
Places(j) ==
  Cardinality({i \in 1 .. Len(tasks) : tasks[i] = j})
  + Cardinality({l \in Lane : lane[l].job = j})
  + Cardinality({k \in Key : caller[k].job = j})
  + (IF process.job = j THEN 1 ELSE 0)

\* The state of a finished job tells what its result file holds: every
\* requested pair, or all but the pairs that failed the output contract, also
\* after a recovery or a failure in the tail of the pipeline (result()); and
\* however often a caller repeats its client_request_id, also after a crash
\* between the two files of create, only the job that the index answers with
\* has ever run.  Nor do two parties ever bring one job forward, who would write
\* the same files (retry, _run, the constructor).
ResultAsStated ==
  \A j \in Job :
    LET row == status[j]
        out == output[j][row.attempt]
        content == IF row.file = "recovered" THEN out.recovered ELSE out.judged IN
    /\ Places(j) <= 1
    /\ row.state = "COMPLETED" => content = "whole"
    /\ row.state = "COMPLETED_WITH_WARNINGS" => content = "partial"
    /\ row.state = "PLANNED" => row.file = "discovery"
    /\ owner[j] # None /\ row.attempt > 0 => index[owner[j]] = j

Lost(j) == status[j].state = "QUEUED" /\ Places(j) = 0

PhaseOf == [RUNNING |-> "running", COMPLETED |-> "succeeded",
            COMPLETED_WITH_WARNINGS |-> "succeeded", PLANNED |-> "succeeded",
            INPUT_REQUIRED |-> "input", FAILED |-> "failed", INTERRUPTED |-> "failed"]
Phase(k) ==
  LET j == index[k] IN
  IF j = None THEN "none"
  ELSE IF status[j].state = "QUEUED" THEN IF Lost(j) THEN "lost" ELSE "queued"
  ELSE PhaseOf[status[j].state]

Lifecycle == INSTANCE RagLifecycle
  WITH phase <- [k \in Key |-> Phase(k)],
       tries <- [k \in Key |-> IF index[k] = None THEN 0 ELSE status[index[k]].attempt]

\* Files, executor and restarts together give every key a job that runs at most
\* max_attempts times, moves in the order RagLifecycle allows, and stays
\* settled unless it is retried; a crash forgets queued jobs and no others.
ImplementsLifecycle == Lifecycle!Spec

\* A job that is queued or running ends, or a crash has made the executor
\* forget it while it was queued (max_attempts, interrupt_stale_jobs).
EveryJobEnds ==
  \A j \in Job :
    status[j].state \in Unfinished ~> status[j].state \in TerminalStates \/ Lost(j)

-----------------------------------------------------------------------------
(* What a document says and the code does not do.                          *)

\* rag-pipeline/RAG_PIPELINE.md: work under way at a restart is restored as
\* INTERRUPTED and can be retried; so once the service is up again, a job
\* that has been started is terminal or on its way.
RestartRecovers ==
  \A j \in Job :
    process.pc = "up" /\ status[j].attempt > 0 /\ status[j].state \in Unfinished => Places(j) > 0
=============================================================================
