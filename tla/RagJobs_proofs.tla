--------------------------- MODULE RagJobs_proofs ---------------------------
(***************************************************************************)
(* Theorems about RagJobs for every value of its constants: the types, what *)
(* a finished job's state says of its result, that no job is ever brought  *)
(* forward twice at a time, and that files, executor and restarts together *)
(* implement RagLifecycle.                                                 *)
(***************************************************************************)
EXTENDS RagJobs, SequenceTheorems, FiniteSetTheorems, TLAPS

-----------------------------------------------------------------------------
(* The inductive invariant.                                                *)

Indexed(j) == owner[j] \in Key /\ index[owner[j]] = j

\* The files of one job and the index agree.
RowFits(j) ==
  /\ status[j].state = "NONE" => owner[j] = None /\ status[j].attempt = 0
  /\ status[j].state # "NONE" => owner[j] \in Key
  /\ status[j].state = "QUEUED" => status[j].attempt < MaxAttempts
  /\ status[j].state \notin {"NONE", "QUEUED"} => status[j].attempt > 0
  /\ status[j].attempt > 0 => Indexed(j)

\* The state of a finished job tells what its result file holds.
ResultFits(j) ==
  LET row == status[j]
      out == output[j][row.attempt]
      content == IF row.file = "recovered" THEN out.recovered ELSE out.judged IN
  /\ row.state = "COMPLETED" => content = "whole"
  /\ row.state = "COMPLETED_WITH_WARNINGS" => content = "partial"
  /\ row.state = "PLANNED" => row.file = "discovery"

Files ==
  /\ \A j \in Job : RowFits(j) /\ ResultFits(j)
  /\ \A k \in Key : index[k] # None => owner[index[k]] = k

\* A job that somebody is to submit or to run.
Due(j) == status[j].state = "QUEUED" /\ Indexed(j)

Busy == {"prepare", "pipeline", "collect", "finish", "transient", "input", "failed"}

LaneFits(l) ==
  LET j == lane[l].job IN
  /\ lane[l].pc = "idle" <=> j = None
  /\ lane[l].pc \in {"begin", "sleep"} => Due(j)
  /\ lane[l].pc \in Busy =>
       status[j].state = "RUNNING" /\ lane[l].attempt = status[j].attempt
  /\ lane[l].pc \in {"collect", "finish"} /\ owner[j] \notin Planning =>
       output[j][lane[l].attempt].judged # "absent"

\* Only a service that is up has callers; the constructor finds no lane busy,
\* and queues jobs that are INTERRUPTED only.
ProcessFits ==
  /\ process.pc = "resubmit" <=> process.job # None
  /\ process.job # None => Due(process.job)
  /\ process.pc # "up" => \A k \in Key : caller[k].job = None
  /\ process.pc \in {"down", "interrupt"} => tasks = <<>> /\ \A l \in Lane : lane[l].job = None
  /\ process.pc \in {"down", "up"} => process.stale = {}
  /\ \A j \in process.stale :
       \/ status[j].state = "INTERRUPTED"
       \/ process.pc = "interrupt" /\ status[j].state = "RUNNING"

Locals ==
  /\ \A i \in 1 .. Len(tasks) : Due(tasks[i])
  /\ \A l \in Lane : LaneFits(l)
  /\ \A k \in Key :
       /\ caller[k].pc = "idle" <=> caller[k].job = None
       /\ caller[k].job # None => Due(caller[k].job) /\ index[k] = caller[k].job
  /\ ProcessFits

Holds(s, j) == \E i \in 1 .. Len(s) : s[i] = j
Distinct(s) == \A a, b \in 1 .. Len(s) : s[a] = s[b] => a = b

InTasks(j) == Holds(tasks, j)
InLane(j) == \E l \in Lane : lane[l].job = j
InCaller(j) == \E k \in Key : caller[k].job = j

\* Nobody else brings forward what a party has.
OnePlace ==
  /\ Distinct(tasks)
  /\ \A l1, l2 \in Lane : lane[l1].job # None /\ lane[l1].job = lane[l2].job => l1 = l2
  /\ \A j \in Job :
       /\ InTasks(j) => ~InLane(j) /\ ~InCaller(j) /\ process.job # j
       /\ InLane(j) => ~InCaller(j) /\ process.job # j

IInv == TypeOK /\ Files /\ Locals /\ OnePlace

-----------------------------------------------------------------------------
(* The executor's queue.                                                   *)

\* A job that joins a queue is in it, beside those that were, and once.
LEMMA AppendHolds ==
  ASSUME NEW s \in Seq(Job), NEW x \in Job
  PROVE  /\ Append(s, x) \in Seq(Job)
         /\ \A j : Holds(Append(s, x), j) <=> Holds(s, j) \/ j = x
         /\ Distinct(s) /\ ~Holds(s, x) => Distinct(Append(s, x))
<1>1. /\ Append(s, x) \in Seq(Job)
      /\ Len(Append(s, x)) = Len(s) + 1
      /\ \A i \in 1 .. Len(s) : Append(s, x)[i] = s[i]
      /\ Append(s, x)[Len(s) + 1] = x
      /\ Len(s) \in Nat
  BY AppendProperties, LenProperties
<1>2. 1 .. Len(s) + 1 = 1 .. Len(s) \cup {Len(s) + 1} /\ Len(s) + 1 \notin 1 .. Len(s)
  BY <1>1
<1>3. \A j : Holds(Append(s, x), j) <=> Holds(s, j) \/ j = x
  BY <1>1, <1>2 DEF Holds
<1>4. Distinct(s) /\ ~Holds(s, x) => Distinct(Append(s, x))
  BY <1>1, <1>2 DEF Holds, Distinct
<1> QED BY <1>1, <1>3, <1>4

\* A job that leaves a queue without repetitions is not in it any more.
LEMMA TailHolds ==
  ASSUME NEW s \in Seq(Job), s # <<>>, Distinct(s)
  PROVE  /\ Head(s) \in Job /\ Holds(s, Head(s))
         /\ Tail(s) \in Seq(Job)
         /\ \A j : Holds(Tail(s), j) <=> Holds(s, j) /\ j # Head(s)
         /\ Distinct(Tail(s))
<1>1. /\ Len(s) \in Nat \ {0} /\ Head(s) = s[1] /\ Head(s) \in Job
      /\ Tail(s) \in Seq(Job) /\ Len(Tail(s)) = Len(s) - 1
      /\ \A i \in 1 .. Len(s) - 1 : Tail(s)[i] = s[i + 1]
  BY HeadTailProperties, EmptySeq
<1>2. \A i \in 1 .. Len(s) - 1 : i + 1 \in 1 .. Len(s) /\ i + 1 # 1
  BY <1>1
<1>3. \A i \in 1 .. Len(s) : i # 1 => i - 1 \in 1 .. Len(s) - 1 /\ (i - 1) + 1 = i
  BY <1>1
<1>4. 1 \in 1 .. Len(s)
  BY <1>1
<1>5. \A j : Holds(Tail(s), j) => Holds(s, j) /\ j # Head(s)
  BY <1>1, <1>2, <1>4 DEF Holds, Distinct
<1>6. \A j : Holds(s, j) /\ j # Head(s) => Holds(Tail(s), j)
  BY <1>1, <1>3 DEF Holds
<1>7. Distinct(Tail(s))
  <2> SUFFICES ASSUME NEW a \in 1 .. Len(s) - 1, NEW b \in 1 .. Len(s) - 1,
                      Tail(s)[a] = Tail(s)[b]
               PROVE  a = b
    BY <1>1 DEF Distinct
  <2>1. a + 1 = b + 1
    BY <1>1, <1>2 DEF Distinct
  <2> QED BY <2>1
<1>8. Holds(s, Head(s))
  BY <1>1, <1>4 DEF Holds
<1> QED BY <1>1, <1>5, <1>6, <1>7, <1>8

\* An empty queue holds nothing.
LEMMA EmptyHolds == Distinct(<<>>) /\ \A j : ~Holds(<<>>, j)
<1>1. Len(<<>>) = 0
  OBVIOUS
<1> QED BY <1>1 DEF Distinct, Holds

-----------------------------------------------------------------------------
(* Steps of the initial state and of one lane.                             *)

\* The service starts with an empty store, no task and no process.
LEMMA InitInvariant == Init => IInv
<1> SUFFICES ASSUME Init PROVE IInv
  OBVIOUS
<1>1. TypeOK
  <2>1. <<>> \in Seq(Job)
    BY EmptySeq
  <2> QED BY <2>1, ConstantsAssumption DEF Init, TypeOK, NoStatus, NoOutput, IdleLane,
             IdleCaller, Up, Content, Unfinished, TerminalStates, Stopped
<1>2. Files
  BY DEF Init, Files, RowFits, ResultFits, NoStatus
<1>3. Locals
  <2>1. Len(tasks) = 0
    BY DEF Init
  <2> QED BY <2>1 DEF Init, Locals, LaneFits, ProcessFits, IdleLane, IdleCaller, Up, Busy
<1>4. OnePlace
  BY EmptyHolds, ConstantsAssumption
     DEF Init, OnePlace, InTasks, InLane, InCaller, IdleLane, IdleCaller, Up
<1> QED BY <1>1, <1>2, <1>3, <1>4 DEF IInv

\* A lane at work has a job, and nobody else has it.
LEMMA OwnJob ==
  ASSUME IInv, NEW l \in Lane, lane[l].pc # "idle"
  PROVE  /\ lane[l].job \in Job /\ InLane(lane[l].job)
         /\ \A m \in Lane \ {l} : lane[m].job # lane[l].job
         /\ \A i \in 1 .. Len(tasks) : tasks[i] # lane[l].job
         /\ \A k \in Key : caller[k].job # lane[l].job
         /\ process.job # lane[l].job
         /\ process.pc \notin {"down", "interrupt"}
         /\ lane[l].job \notin process.stale
<1>1. lane[l].job \in Job
  BY DEF IInv, TypeOK, Locals, LaneFits
<1>2. InLane(lane[l].job)
  BY <1>1 DEF InLane
<1>3. lane[l].pc \in {"begin", "sleep"} \cup Busy
  BY DEF IInv, TypeOK, Busy
<1>4. status[lane[l].job].state \in {"QUEUED", "RUNNING"}
  BY <1>1, <1>3 DEF IInv, Locals, LaneFits, Due
<1>5. lane[l].job # None
  BY <1>1, ConstantsAssumption
<1>6. process.pc \notin {"down", "interrupt"}
  BY <1>5 DEF IInv, Locals, ProcessFits
<1> QED BY <1>1, <1>2, <1>4, <1>5, <1>6
        DEF IInv, OnePlace, InTasks, InCaller, Holds, Locals, ProcessFits

\* What a lane does to its own job leaves everything else as it fits.
LEMMA LaneStepKeeps ==
  ASSUME IInv, NEW l \in Lane, lane[l].pc # "idle", NEW j \in Job, lane[l].job = j,
         TypeOK',
         UNCHANGED <<owner, index, tasks, caller, process>>,
         \A i \in Job \ {j} : status'[i] = status[i] /\ output'[i] = output[i],
         \A m \in Lane \ {l} : lane'[m] = lane[m],
         lane'[l].job \in {j, None},
         LaneFits(l)', RowFits(j)', ResultFits(j)'
  PROVE  IInv'
<1>1. Files'
  <2>1. \A i \in Job \ {j} : RowFits(i)' /\ ResultFits(i)'
    BY DEF IInv, Files, RowFits, ResultFits, Indexed
  <2> QED BY <2>1 DEF IInv, Files
<1>2. Locals'
  <2>1. \A i \in Job \ {j} : Due(i) => Due(i)'
    BY DEF Due, Indexed
  <2>2. \A i \in 1 .. Len(tasks) : tasks[i] \in Job \ {j}
    BY OwnJob, ElementOfSeq DEF IInv, TypeOK
  <2>3. \A m \in Lane \ {l} : LaneFits(m)'
    <3> TAKE m \in Lane \ {l}
    <3>1. CASE lane[m].job = None
      <4>1. lane[m].pc = "idle"
        BY <3>1 DEF IInv, Locals, LaneFits
      <4> QED BY <3>1, <4>1 DEF LaneFits, Busy
    <3>2. CASE lane[m].job # None
      <4>1. lane[m].job \in Job \ {j}
        BY <3>2, OwnJob DEF IInv, TypeOK
      <4>2. LaneFits(m)
        BY DEF IInv, Locals
      <4> QED BY <4>1, <4>2, <2>1 DEF LaneFits
    <3> QED BY <3>1, <3>2
  <2>4. \A k \in Key : caller[k].job # None => caller[k].job \in Job \ {j}
    BY OwnJob DEF IInv, TypeOK
  <2>5. ProcessFits'
    <3>1. process.job # None => process.job \in Job \ {j}
      BY OwnJob DEF IInv, TypeOK
    <3>2. \A i \in process.stale : i \in Job \ {j}
      BY OwnJob DEF IInv, TypeOK
    <3> QED BY <2>1, <3>1, <3>2, OwnJob DEF IInv, Locals, ProcessFits
  <2> QED BY <2>1, <2>2, <2>3, <2>4, <2>5 DEF IInv, Locals
<1>3. OnePlace'
  <2>1. \A i \in Job : InLane(i)' => InLane(i)
    BY ConstantsAssumption, OwnJob DEF InLane
  <2>2. \A l1, l2 \in Lane :
          lane'[l1].job # None /\ lane'[l1].job = lane'[l2].job => l1 = l2
    BY OwnJob DEF IInv, OnePlace
  <2> QED BY <2>1, <2>2 DEF IInv, OnePlace, InTasks, InCaller
<1> QED BY <1>1, <1>2, <1>3 DEF IInv

-----------------------------------------------------------------------------
(* The steps of one run.                                                   *)

States == {"NONE"} \cup Unfinished \cup TerminalStates
Row == [state : States, attempt : 0 .. MaxAttempts, file : {"none", "judged", "recovered", "discovery"}]
PC == {"idle", "begin", "sleep"} \cup Busy
Work == [pc : PC, job : Job \cup {None}, attempt : 0 .. MaxAttempts]

\* What the proofs below read of TypeOK.
LEMMA Typed ==
  ASSUME TypeOK
  PROVE  /\ status \in [Job -> Row] /\ lane \in [Lane -> Work]
         /\ \A j \in Job : /\ status[j].state \in States /\ status[j].attempt \in 0 .. MaxAttempts
                          /\ status[j].file \in {"none", "judged", "recovered", "discovery"}
         /\ \A l \in Lane : /\ lane[l].pc \in PC /\ lane[l].job \in Job \cup {None}
                           /\ lane[l].attempt \in 0 .. MaxAttempts
         /\ MaxAttempts \in Nat
<1>1. status \in [Job -> Row]
  BY DEF TypeOK, Row, States
<1>2. PC = {"idle", "begin", "prepare", "pipeline", "collect", "finish",
            "transient", "sleep", "input", "failed"}
  BY DEF PC, Busy
<1>3. lane \in [Lane -> Work]
  BY <1>2 DEF TypeOK, Work
<1> QED BY <1>1, <1>3, ConstantsAssumption DEF Row, Work

\* The row of one job is written; the others stay.
LEMMA RowWritten ==
  ASSUME TypeOK, NEW j \in Job, NEW row \in Row, status' = [status EXCEPT ![j] = row]
  PROVE  /\ status' \in [Job -> Row] /\ status'[j] = row
         /\ \A i \in Job \ {j} : status'[i] = status[i]
BY Typed

\* SetState moves the state of one job and leaves its attempt and its file.
LEMMA StateSet ==
  ASSUME TypeOK, NEW j \in Job, NEW s \in States, SetState(j, s)
  PROVE  /\ status' \in [Job -> Row]
         /\ status'[j].state = s /\ status'[j].attempt = status[j].attempt
         /\ status'[j].file = status[j].file
         /\ \A i \in Job \ {j} : status'[i] = status[i]
BY Typed DEF SetState, Row

\* One lane moves; the others stay.
LEMMA LaneWritten ==
  ASSUME TypeOK, NEW l \in Lane, NEW w \in Work, lane' = [lane EXCEPT ![l] = w]
  PROVE  /\ lane' \in [Lane -> Work] /\ lane'[l] = w
         /\ \A m \in Lane \ {l} : lane'[m] = lane[m]
BY Typed

\* Goto moves a lane on with the job and the attempt it has.
LEMMA Went ==
  ASSUME TypeOK, NEW l \in Lane, NEW pc \in PC, Goto(l, pc)
  PROVE  /\ lane' \in [Lane -> Work]
         /\ lane'[l].pc = pc /\ lane'[l].job = lane[l].job /\ lane'[l].attempt = lane[l].attempt
         /\ \A m \in Lane \ {l} : lane'[m] = lane[m]
BY Typed DEF Goto, Work

\* A lane that waits is a lane.
LEMMA IdleIsWork == IdleLane \in Work
BY ConstantsAssumption DEF IdleLane, Work, PC

\* The types of a step that writes rows, lanes and outputs.
LEMMA LaneStepTypes ==
  ASSUME TypeOK, status' \in [Job -> Row], lane' \in [Lane -> Work],
         output' \in [Job -> [Attempt -> [judged : Content, recovered : Content]]],
         UNCHANGED <<owner, index, tasks, caller, process, bounds>>
  PROVE  TypeOK'
BY DEF TypeOK, Row, States, Work, PC, Busy, bounds

\* _run writes RUNNING and the attempt before it starts the pipeline.
LEMMA BeginKeeps ==
  ASSUME IInv, NEW l \in Lane, Begin(l)
  PROVE  IInv'
<1> DEFINE j == lane[l].job
           n == status[j].attempt + 1
           row == [status[j] EXCEPT !.state = "RUNNING", !.attempt = n]
           w == [lane[l] EXCEPT !.pc = "prepare", !.attempt = n]
<1> USE DEF Begin
<1>1. TypeOK /\ lane[l].pc = "begin" /\ Due(j) /\ j \in Job
  BY OwnJob DEF IInv, Locals, LaneFits
<1>2. status[j].attempt \in 0 .. MaxAttempts /\ status[j].attempt < MaxAttempts /\ Indexed(j)
  BY <1>1, Typed DEF IInv, Files, RowFits, Due
<1>3. n \in 1 .. MaxAttempts
  BY <1>1, <1>2, Typed
<1>4. row \in Row /\ row.state = "RUNNING" /\ row.attempt = n
  <2>1. "RUNNING" \in States /\ n \in 0 .. MaxAttempts
    BY <1>3 DEF States, Unfinished
  <2>2. status[j] \in Row
    BY <1>1, Typed
  <2> QED BY <2>1, <2>2 DEF Row
<1>5. w \in Work /\ w.pc = "prepare" /\ w.job = j /\ w.attempt = n
  <2>1. "prepare" \in PC /\ n \in 0 .. MaxAttempts
    BY <1>3 DEF PC, Busy
  <2>2. lane[l] \in Work
    BY <1>1, Typed
  <2> QED BY <2>1, <2>2 DEF Work
<1>6. /\ status' \in [Job -> Row] /\ status'[j] = row
      /\ \A i \in Job \ {j} : status'[i] = status[i]
  BY <1>1, <1>4, RowWritten
<1>7. /\ lane' \in [Lane -> Work] /\ lane'[l] = w
      /\ \A m \in Lane \ {l} : lane'[m] = lane[m]
  BY <1>1, <1>5, LaneWritten
<1>8. TypeOK'
  BY <1>1, <1>6, <1>7, LaneStepTypes DEF TypeOK
<1> HIDE DEF row, w
<1>9. PICK i \in Job : i = j
  BY <1>1
<1>10. LaneFits(l)'
  BY <1>1, <1>4, <1>5, <1>6, <1>7, ConstantsAssumption DEF LaneFits, Busy
<1>11. RowFits(i)' /\ ResultFits(i)'
  BY <1>2, <1>3, <1>4, <1>6, <1>9 DEF RowFits, ResultFits, Indexed
<1> QED BY <1>1, <1>5, <1>6, <1>7, <1>8, <1>9, <1>10, <1>11, LaneStepKeeps

\* What a busy lane knows of its job.
LEMMA BusyJob ==
  ASSUME IInv, NEW l \in Lane, lane[l].pc \in Busy
  PROVE  /\ TypeOK /\ lane[l].pc # "idle" /\ lane[l].job \in Job
         /\ status[lane[l].job].state = "RUNNING"
         /\ lane[l].attempt = status[lane[l].job].attempt
         /\ lane[l].attempt \in Attempt
         /\ Indexed(lane[l].job)
<1>1. lane[l].pc # "idle"
  BY DEF Busy
<1>2. TypeOK /\ lane[l].job \in Job
  BY <1>1, OwnJob DEF IInv
<1>3. status[lane[l].job].state = "RUNNING" /\ lane[l].attempt = status[lane[l].job].attempt
  BY DEF IInv, Locals, LaneFits
<1>4. status[lane[l].job].attempt > 0 /\ Indexed(lane[l].job)
  BY <1>2, <1>3 DEF IInv, Files, RowFits
<1> QED BY <1>1, <1>2, <1>3, <1>4, Typed DEF Attempt

\* A lane that goes on, with or without a new output of its own attempt.
LEMMA GoesOn ==
  ASSUME IInv, NEW l \in Lane, lane[l].pc \in Busy,
         NEW pc \in Busy, Goto(l, pc),
         UNCHANGED <<status, owner, index, tasks, caller, process, bounds>>,
         output' \in [Job -> [Attempt -> [judged : Content, recovered : Content]]],
         \A i \in Job \ {lane[l].job} : output'[i] = output[i],
         pc \in {"collect", "finish"} /\ owner[lane[l].job] \notin Planning =>
           output'[lane[l].job][lane[l].attempt].judged # "absent"
  PROVE  IInv'
<1>1. PICK j \in Job : j = lane[l].job
  BY BusyJob
<1>2. /\ lane' \in [Lane -> Work] /\ lane'[l].pc = pc
      /\ lane'[l].job = j /\ lane'[l].attempt = lane[l].attempt
      /\ \A m \in Lane \ {l} : lane'[m] = lane[m]
  BY <1>1, BusyJob, Went DEF PC
<1>3. TypeOK'
  BY <1>2, BusyJob, Typed, LaneStepTypes
<1>4. LaneFits(l)'
  BY <1>1, <1>2, BusyJob, ConstantsAssumption DEF LaneFits, Busy
<1>5. RowFits(j)' /\ ResultFits(j)'
  BY <1>1, BusyJob DEF IInv, Files, RowFits, ResultFits, Indexed
<1> QED BY <1>1, <1>2, <1>3, <1>4, <1>5, BusyJob, LaneStepKeeps

\* The inputs are prepared, or refused.
LEMMA PrepareKeeps ==
  ASSUME IInv, NEW l \in Lane, Prepare(l)
  PROVE  IInv'
<1>1. PICK pc \in {"pipeline", "input"} : Goto(l, pc)
  BY DEF Prepare
<1>2. lane[l].pc \in Busy /\ pc \in Busy /\ pc \notin {"collect", "finish"}
  BY DEF Prepare, Busy
<1>3. UNCHANGED <<status, owner, index, output, tasks, caller, process, bounds>>
  BY DEF Prepare, store
<1>4. output' \in [Job -> [Attempt -> [judged : Content, recovered : Content]]]
  BY <1>3 DEF IInv, TypeOK
<1> QED BY <1>1, <1>2, <1>3, <1>4, GoesOn

\* One more file of one attempt.
LEMMA OutputWritten ==
  ASSUME TypeOK, NEW j \in Job, NEW n \in Attempt, NEW out \in [judged : Content, recovered : Content],
         output' = [output EXCEPT ![j] = [output[j] EXCEPT ![n] = out]]
  PROVE  /\ output' \in [Job -> [Attempt -> [judged : Content, recovered : Content]]]
         /\ \A i \in Job \ {j} : output'[i] = output[i]
         /\ output'[j][n] = out
<1> DEFINE Outs == [judged : Content, recovered : Content]
<1> HIDE DEF Outs
<1>1. output \in [Job -> [Attempt -> Outs]] /\ out \in Outs
  BY DEF TypeOK, Outs
<1>2. /\ output' \in [Job -> [Attempt -> Outs]]
      /\ \A i \in Job \ {j} : output'[i] = output[i]
      /\ output'[j][n] = out
  BY <1>1
<1> QED BY <1>2 DEF Outs

\* An attempt writes one of its two files; those of other attempts and jobs stay.
LEMMA JudgedOrRecovered ==
  ASSUME TypeOK, NEW j \in Job, NEW n \in Attempt, NEW content \in Content
  PROVE  /\ output' = [output EXCEPT ![j][n].judged = content] =>
              /\ output' \in [Job -> [Attempt -> [judged : Content, recovered : Content]]]
              /\ \A i \in Job \ {j} : output'[i] = output[i]
              /\ output'[j][n].judged = content
         /\ output' = [output EXCEPT ![j][n].recovered = content] =>
              /\ output' \in [Job -> [Attempt -> [judged : Content, recovered : Content]]]
              /\ \A i \in Job \ {j} : output'[i] = output[i]
              /\ output'[j][n].judged = output[j][n].judged
<1> DEFINE judged == [output[j][n] EXCEPT !.judged = content]
           recovered == [output[j][n] EXCEPT !.recovered = content]
<1>1. output[j][n] \in [judged : Content, recovered : Content]
  BY DEF TypeOK
<1>2. /\ judged \in [judged : Content, recovered : Content]
      /\ recovered \in [judged : Content, recovered : Content]
      /\ judged.judged = content /\ recovered.judged = output[j][n].judged
  BY <1>1
<1>3. /\ [output EXCEPT ![j][n].judged = content]
           = [output EXCEPT ![j] = [output[j] EXCEPT ![n] = judged]]
      /\ [output EXCEPT ![j][n].recovered = content]
           = [output EXCEPT ![j] = [output[j] EXCEPT ![n] = recovered]]
  OBVIOUS
<1> HIDE DEF judged, recovered
<1> QED BY <1>2, <1>3, OutputWritten

\* Every outcome of the pipeline only moves its lane on.
LEMMA PipelineGoes ==
  ASSUME NEW l \in Lane, Pipeline(l)
  PROVE  \E pc : Goto(l, pc)
<1>1. PICK ending \in {"ok", "transient", "failed", "timeout"},
           content \in Content \cup {"absent"} :
        CASE ending = "ok" /\ owner[lane[l].job] \in Planning -> Goto(l, "finish")
          [] ending = "ok" /\ ~(owner[lane[l].job] \in Planning) -> Goto(l, "collect")
          [] ending = "timeout" -> Goto(l, "failed")
          [] ending \in {"transient", "failed"} ->
               Goto(l, IF ~(owner[lane[l].job] \in Planning) /\ CompleteSavedResult(content)
                         THEN "collect" ELSE ending)
  BY DEF Pipeline
<1> QED BY <1>1

\* The judgment and the recovery that may follow it.
LEMMA PipelineKeeps ==
  ASSUME IInv, NEW l \in Lane, Pipeline(l)
  PROVE  IInv'
<1> DEFINE j == lane[l].job
           n == lane[l].attempt
           plan == owner[j] \in Planning
<1>1. PICK ending \in {"ok", "transient", "failed", "timeout"},
           content \in IF plan THEN {"absent"} ELSE Content :
        /\ ending = "ok" => plan \/ content # "absent"
        /\ output' = [output EXCEPT ![j][n].judged = content]
        /\ CASE ending = "ok" /\ plan -> Goto(l, "finish")
             [] ending = "ok" /\ ~plan -> Goto(l, "collect")
             [] ending = "timeout" -> Goto(l, "failed")
             [] ending \in {"transient", "failed"} ->
                  Goto(l, IF ~plan /\ CompleteSavedResult(content) THEN "collect" ELSE ending)
  BY DEF Pipeline
<1>2. lane[l].pc \in Busy /\ UNCHANGED <<status, owner, index, tasks, caller, process, bounds>>
  BY DEF Pipeline, Busy
<1>3. content \in Content
  BY <1>1 DEF Content
<1>4. /\ output' \in [Job -> [Attempt -> [judged : Content, recovered : Content]]]
      /\ \A i \in Job \ {j} : output'[i] = output[i]
      /\ output'[j][n].judged = content
  <2>1. output' = [output EXCEPT ![j][n].judged = content]
    BY <1>1
  <2>2. TypeOK /\ j \in Job /\ n \in Attempt
    BY <1>2, BusyJob
  <2> HIDE DEF j, n
  <2> QED BY <1>3, <2>1, <2>2, JudgedOrRecovered
<1>5. \E pc \in Busy : Goto(l, pc) /\ (pc \in {"collect", "finish"} /\ ~plan => content # "absent")
  <2>1. CASE ending = "ok" /\ plan
    <3>1. Goto(l, "finish")
      BY <1>1, <2>1
    <3> QED BY <2>1, <3>1 DEF Busy
  <2>2. CASE ending = "ok" /\ ~plan
    <3>1. Goto(l, "collect") /\ content # "absent"
      BY <1>1, <2>2
    <3> QED BY <3>1 DEF Busy
  <2>3. CASE ending = "timeout"
    <3>1. Goto(l, "failed")
      BY <1>1, <2>3
    <3> QED BY <3>1 DEF Busy
  <2>4. CASE ending \in {"transient", "failed"}
    <3>1. Goto(l, IF ~plan /\ CompleteSavedResult(content) THEN "collect" ELSE ending)
      BY <1>1, <2>4
    <3>2. CASE ~plan /\ content = "whole"
      <4>1. Goto(l, "collect")
        BY <3>1, <3>2 DEF CompleteSavedResult
      <4> QED BY <3>2, <4>1 DEF Busy
    <3>3. CASE ~(~plan /\ content = "whole")
      <4>1. Goto(l, ending)
        BY <3>1, <3>3 DEF CompleteSavedResult
      <4> QED BY <2>4, <4>1 DEF Busy
    <3> QED BY <3>2, <3>3
  <2> QED BY <1>1, <2>1, <2>2, <2>3, <2>4
<1> QED BY <1>2, <1>4, <1>5, GoesOn

\* The result is collected from the files of this attempt.
LEMMA CollectKeeps ==
  ASSUME IInv, NEW l \in Lane, Collect(l)
  PROVE  IInv'
<1> DEFINE j == lane[l].job
           n == lane[l].attempt
<1>1. lane[l].pc \in Busy /\ UNCHANGED <<status, owner, index, tasks, caller, process, bounds>>
  BY DEF Collect, Busy
<1>2. output[j][n].judged # "absent"
  BY DEF Collect
<1>3. /\ output' \in [Job -> [Attempt -> [judged : Content, recovered : Content]]]
      /\ \A i \in Job \ {j} : output'[i] = output[i]
      /\ output'[j][n].judged = output[j][n].judged
  <2>1. CASE UNCHANGED output
    BY <2>1 DEF IInv, TypeOK
  <2>2. CASE \E content \in {"partial", "whole"} :
               output' = [output EXCEPT ![j][n].recovered = content]
    <3>1. PICK content \in Content : output' = [output EXCEPT ![j][n].recovered = content]
      BY <2>2 DEF Content
    <3> QED BY <1>1, <3>1, BusyJob, JudgedOrRecovered
  <2> QED BY <2>1, <2>2 DEF Collect
<1>4. \E pc \in Busy : Goto(l, pc)
  BY DEF Collect, Busy
<1> QED BY <1>1, <1>2, <1>3, <1>4, GoesOn

\* The final state is written from the file that was found.
LEMMA FinishKeeps ==
  ASSUME IInv, NEW l \in Lane, Finish(l)
  PROVE  IInv'
<1> DEFINE out == output[lane[l].job][lane[l].attempt]
           plan == owner[lane[l].job] \in Planning
           state == IF plan THEN "PLANNED"
                    ELSE IF NoFailures(out) THEN "COMPLETED" ELSE "COMPLETED_WITH_WARNINGS"
           file == IF plan THEN "discovery"
                   ELSE IF out.recovered # "absent" THEN "recovered" ELSE "judged"
           row == [status[lane[l].job] EXCEPT !.state = state, !.file = file]
<1>1. lane[l].pc \in Busy /\ lane[l].pc = "finish"
  BY DEF Finish, Busy
<1>2. PICK j \in Job : j = lane[l].job
  BY <1>1, BusyJob
<1>3. UNCHANGED <<owner, index, output, tasks, caller, process, bounds>>
  BY DEF Finish
<1>4. state \in States /\ file \in {"none", "judged", "recovered", "discovery"}
  BY DEF States, TerminalStates, Stopped
<1>5. row \in Row /\ row.state = state /\ row.file = file /\ row.attempt = lane[l].attempt
  <2>1. status[j] \in Row /\ status[j].attempt = lane[l].attempt
    BY <1>1, <1>2, BusyJob, Typed
  <2> HIDE DEF state, file
  <2> QED BY <1>2, <1>4, <2>1 DEF Row
<1>6. out \in [judged : Content, recovered : Content] /\ (~plan => out.judged # "absent")
  BY <1>1, <1>2, BusyJob DEF IInv, TypeOK, Locals, LaneFits
<1>7. /\ state = "COMPLETED" => (IF file = "recovered" THEN out.recovered ELSE out.judged) = "whole"
      /\ state = "COMPLETED_WITH_WARNINGS" =>
           (IF file = "recovered" THEN out.recovered ELSE out.judged) = "partial"
      /\ state = "PLANNED" => file = "discovery"
  BY <1>6 DEF NoFailures, Content
<1>8. state \notin {"NONE", "QUEUED"}
  OBVIOUS
<1>9. /\ status' \in [Job -> Row] /\ status'[j] = row
      /\ \A i \in Job \ {j} : status'[i] = status[i]
  <2>1. status' = [status EXCEPT ![j] = row]
    BY <1>2 DEF Finish
  <2> HIDE DEF row
  <2> QED BY <1>1, <1>5, <2>1, BusyJob, RowWritten
<1>10. /\ lane' \in [Lane -> Work] /\ lane'[l] = IdleLane
       /\ \A m \in Lane \ {l} : lane'[m] = lane[m]
  BY <1>1, BusyJob, LaneWritten, IdleIsWork DEF Finish
<1> HIDE DEF state, file, row
<1>11. TypeOK'
  BY <1>1, <1>3, <1>9, <1>10, BusyJob, LaneStepTypes DEF TypeOK
<1>12. LaneFits(l)'
  BY <1>10 DEF LaneFits, IdleLane, Busy
<1>13. RowFits(j)'
  BY <1>1, <1>2, <1>3, <1>5, <1>8, <1>9, BusyJob, ConstantsAssumption
     DEF RowFits, Indexed, Attempt
<1>14. ResultFits(j)'
  BY <1>2, <1>3, <1>5, <1>7, <1>9 DEF ResultFits
<1> QED BY <1>1, <1>2, <1>3, <1>9, <1>10, <1>11, <1>12, <1>13, <1>14,
           BusyJob, LaneStepKeeps DEF IdleLane

\* A busy lane whose job is queued again or settles without a result.
LEMMA GivesUp ==
  ASSUME IInv, NEW l \in Lane, lane[l].pc \in Busy,
         NEW s \in {"QUEUED", "FAILED", "INPUT_REQUIRED"}, SetState(lane[l].job, s),
         UNCHANGED <<owner, index, output, tasks, caller, process, bounds>>,
         \/ s = "QUEUED" /\ lane[l].attempt < MaxAttempts /\ Goto(l, "sleep")
         \/ s # "QUEUED" /\ lane' = [lane EXCEPT ![l] = IdleLane]
  PROVE  IInv'
<1>1. PICK j \in Job : j = lane[l].job
  BY BusyJob
<1>2. /\ status' \in [Job -> Row]
      /\ status'[j].state = s /\ status'[j].attempt = lane[l].attempt
      /\ \A i \in Job \ {j} : status'[i] = status[i]
  BY <1>1, BusyJob, StateSet DEF States, Unfinished, TerminalStates, Stopped
<1>3. /\ lane' \in [Lane -> Work]
      /\ \A m \in Lane \ {l} : lane'[m] = lane[m]
      /\ \/ s = "QUEUED" /\ lane[l].attempt < MaxAttempts /\ lane'[l].pc = "sleep" /\ lane'[l].job = j
         \/ s # "QUEUED" /\ lane'[l] = IdleLane
  <2>1. CASE s = "QUEUED"
    <3>1. "sleep" \in PC
      BY DEF PC
    <3> QED BY <1>1, <2>1, <3>1, BusyJob, Went
  <2>2. CASE s # "QUEUED"
    BY <2>2, BusyJob, LaneWritten, IdleIsWork
  <2> QED BY <2>1, <2>2
<1>4. TypeOK'
  BY <1>2, <1>3, BusyJob, LaneStepTypes DEF TypeOK
<1>5. LaneFits(l)'
  BY <1>1, <1>2, <1>3, BusyJob, ConstantsAssumption DEF LaneFits, IdleLane, Busy, Due, Indexed
<1>6. RowFits(j)' /\ ResultFits(j)'
  <2>1. lane[l].attempt > 0
    BY BusyJob, ConstantsAssumption DEF Attempt
  <2> QED BY <1>1, <1>2, <1>3, <2>1, BusyJob DEF RowFits, ResultFits, Indexed
<1> QED BY <1>1, <1>2, <1>3, <1>4, <1>5, <1>6, BusyJob, LaneStepKeeps DEF IdleLane

\* A transient failure queues a job with attempts left again, and fails the others.
LEMMA TransientKeeps ==
  ASSUME IInv, NEW l \in Lane, Transient(l)
  PROVE  IInv'
<1>1. lane[l].pc \in Busy /\ UNCHANGED <<owner, index, output, tasks, caller, process, bounds>>
  BY DEF Transient, Busy
<1>2. CASE MayRunAgain(l)
  BY <1>1, <1>2, GivesUp DEF Transient, MayRunAgain
<1>3. CASE ~MayRunAgain(l)
  BY <1>1, <1>3, GivesUp DEF Transient
<1> QED BY <1>2, <1>3

\* INPUT_REQUIRED or FAILED is written, and the lane is free.
LEMMA StopKeeps ==
  ASSUME IInv, NEW l \in Lane, Stop(l)
  PROVE  IInv'
<1>1. lane[l].pc \in Busy /\ UNCHANGED <<owner, index, output, tasks, caller, process, bounds>>
  BY DEF Stop, Busy
<1> QED BY <1>1, GivesUp DEF Stop

-----------------------------------------------------------------------------
(* Jobs that change hands: the files stay as they are.                     *)

\* What only reads the store keeps the story of its files and what is due.
LEMMA StoreKept ==
  ASSUME IInv, UNCHANGED store
  PROVE  Files' /\ \A j : Due(j) => Due(j)'
BY DEF IInv, Files, RowFits, ResultFits, Indexed, Due, store

\* A due job that nobody has joins the tasks and keeps the invariant.
LEMMA JoinsTasks ==
  ASSUME IInv, NEW x \in Job, Due(x), ~InTasks(x),
         UNCHANGED store, UNCHANGED bounds,
         tasks' = Append(tasks, x),
         lane' \in [Lane -> Work], \A l \in Lane : lane'[l] \in {lane[l], IdleLane},
         caller' \in [Key -> [pc : {"idle", "enqueue"}, job : Job \cup {None}]],
         \A k \in Key : caller'[k] \in {caller[k], IdleCaller},
         process.pc \notin {"down", "interrupt"},
         \/ process' = process
         \/ process.pc = "resubmit" /\ process' = [process EXCEPT !.pc = "requeue", !.job = None],
         \A l \in Lane : lane'[l].job # x,
         \A k \in Key : caller'[k].job # x,
         process'.job # x
  PROVE  IInv'
<1>1. /\ tasks' \in Seq(Job) /\ Distinct(tasks')
      /\ \A j : Holds(tasks', j) <=> Holds(tasks, j) \/ j = x
  BY AppendHolds DEF IInv, TypeOK, OnePlace, InTasks
<1>2. TypeOK'
  <2>1. process' \in [pc : {"down", "interrupt", "requeue", "resubmit", "up"},
                      stale : SUBSET Job, job : Job \cup {None}]
    BY DEF IInv, TypeOK
  <2>2. lane' \in [Lane -> [pc : {"idle", "begin", "prepare", "pipeline", "collect", "finish",
                              "transient", "sleep", "input", "failed"},
                        job : Job \cup {None}, attempt : 0 .. MaxAttempts]]
    <3>1. PC = {"idle", "begin", "prepare", "pipeline", "collect", "finish",
                "transient", "sleep", "input", "failed"}
      BY DEF PC, Busy
    <3> QED BY <3>1 DEF Work
  <2> QED BY <1>1, <2>1, <2>2 DEF IInv, TypeOK, store, bounds
<1>3. Files' /\ \A j : Due(j) => Due(j)'
  BY StoreKept
<1>4. Locals'
  <2>1. (\A i \in 1 .. Len(tasks) : Due(tasks[i]))'
    <3> SUFFICES ASSUME NEW i \in 1 .. Len(tasks') PROVE Due(tasks[i])'
      OBVIOUS
    <3>1. Holds(tasks', tasks'[i])
      BY DEF Holds
    <3>2. Due(tasks'[i])
      BY <1>1, <3>1 DEF Holds, IInv, Locals
    <3> QED BY <1>3, <3>2 DEF Due, Indexed
  <2>2. \A l \in Lane : LaneFits(l)'
    <3> TAKE l \in Lane
    <3>1. CASE lane'[l] = IdleLane
      BY <3>1 DEF LaneFits, IdleLane, Busy
    <3>2. CASE lane'[l] = lane[l]
      BY <1>3, <3>2 DEF LaneFits, IInv, Locals, store
    <3> QED BY <3>1, <3>2
  <2>3. ProcessFits'
    <3>1. CASE process' = process
      BY <1>3, <3>1 DEF IInv, Locals, ProcessFits, IdleCaller, store
    <3>2. CASE process.pc = "resubmit" /\ process' = [process EXCEPT !.pc = "requeue", !.job = None]
      <4>1. process'.pc = "requeue" /\ process'.job = None /\ process'.stale = process.stale
        BY <3>2 DEF IInv, TypeOK
      <4> QED BY <3>2, <4>1 DEF IInv, Locals, ProcessFits, IdleCaller, store
    <3> QED BY <3>1, <3>2
  <2>4. (\A k \in Key :
           /\ caller[k].pc = "idle" <=> caller[k].job = None
           /\ caller[k].job # None => Due(caller[k].job) /\ index[k] = caller[k].job)'
    <3> SUFFICES ASSUME NEW k \in Key
                 PROVE  (/\ caller[k].pc = "idle" <=> caller[k].job = None
                         /\ caller[k].job # None => Due(caller[k].job) /\ index[k] = caller[k].job)'
      OBVIOUS
    <3>1. CASE caller'[k] = IdleCaller
      BY <3>1 DEF IdleCaller
    <3>2. CASE caller'[k] = caller[k]
      BY <3>2 DEF IInv, Locals, store, Due, Indexed
    <3> QED BY <3>1, <3>2
  <2> QED BY <2>1, <2>2, <2>3, <2>4 DEF Locals
<1>5. OnePlace'
  <2>1. \A l \in Lane : lane'[l].job \in {lane[l].job, None}
    BY DEF IdleLane
  <2>2. \A k \in Key : caller'[k].job \in {caller[k].job, None}
    BY DEF IdleCaller
  <2>3. process'.job \in {process.job, None}
    BY DEF IInv, TypeOK
  <2>4. None \notin Job
    BY ConstantsAssumption
  <2>5. \A l1, l2 \in Lane :
          lane'[l1].job # None /\ lane'[l1].job = lane'[l2].job => l1 = l2
    BY <2>1 DEF IInv, OnePlace
  <2>7. Distinct(tasks)'
    BY <1>1 DEF Distinct
  <2>8. ASSUME NEW j \in Job
        PROVE  (/\ InTasks(j) => ~InLane(j) /\ ~InCaller(j) /\ process.job # j
                /\ InLane(j) => ~InCaller(j) /\ process.job # j)'
    <3>1. /\ InTasks(j) => ~InLane(j) /\ ~InCaller(j) /\ process.job # j
          /\ InLane(j) => ~InCaller(j) /\ process.job # j
      BY DEF IInv, OnePlace
    <3>2. /\ InLane(j)' => InLane(j) /\ j # x
          /\ InCaller(j)' => InCaller(j) /\ j # x
          /\ process'.job = j => process.job = j /\ j # x
          /\ InTasks(j)' => InTasks(j) \/ j = x
      BY <1>1, <2>1, <2>2, <2>3, <2>4 DEF InLane, InCaller, InTasks
    <3> QED BY <3>1, <3>2
  <2> QED BY <2>5, <2>7, <2>8 DEF OnePlace
<1> QED BY <1>2, <1>3, <1>4, <1>5 DEF IInv

\* A transient failure hands its job to the executor again.
LEMMA ResubmitKeeps ==
  ASSUME IInv, NEW l \in Lane, Resubmit(l)
  PROVE  IInv'
<1>1. PICK x \in Job : x = lane[l].job
  BY OwnJob DEF Resubmit
<1>2. lane[l].pc = "sleep" /\ Due(x)
  BY <1>1 DEF Resubmit, IInv, Locals, LaneFits
<1>3. /\ ~InTasks(x) /\ process.pc \notin {"down", "interrupt"} /\ process.job # x
      /\ \A m \in Lane \ {l} : lane[m].job # x
      /\ \A k \in Key : caller[k].job # x
  BY <1>1, <1>2, OwnJob DEF InTasks, Holds
<1>4. /\ lane' \in [Lane -> Work] /\ lane'[l] = IdleLane
      /\ \A m \in Lane \ {l} : lane'[m] = lane[m]
  BY LaneWritten, IdleIsWork DEF Resubmit, IInv
<1>5. \A m \in Lane : lane'[m] \in {lane[m], IdleLane} /\ lane'[m].job # x
  BY <1>3, <1>4, ConstantsAssumption DEF IdleLane
<1>6. /\ tasks' = Append(tasks, x) /\ caller' = caller /\ process' = process
      /\ UNCHANGED store /\ UNCHANGED bounds
  BY <1>1 DEF Resubmit
<1>7. caller \in [Key -> [pc : {"idle", "enqueue"}, job : Job \cup {None}]]
  BY DEF IInv, TypeOK
<1> QED BY <1>2, <1>3, <1>4, <1>5, <1>6, <1>7, JoinsTasks

\* A request hands the job it has written to the executor.
LEMMA EnqueueKeeps ==
  ASSUME IInv, NEW k \in Key, Enqueue(k)
  PROVE  IInv'
<1>1. caller[k].job # None
  BY DEF Enqueue, IInv, Locals
<1>2. PICK x \in Job : x = caller[k].job
  BY <1>1 DEF IInv, TypeOK
<1>3. Due(x) /\ index[k] = x /\ process.pc = "up"
  BY <1>1, <1>2 DEF IInv, Locals, ProcessFits
<1>4. InCaller(x)
  BY <1>2 DEF InCaller
<1>5. ~InTasks(x) /\ ~InLane(x)
  BY <1>4 DEF IInv, OnePlace
<1>6. process.job # x
  BY <1>1, <1>2, <1>3 DEF IInv, Locals, ProcessFits
<1>7. \A m \in Key \ {k} : caller[m].job # x
  BY <1>1, <1>2, <1>3 DEF IInv, Files, Locals
<1>8. /\ caller' \in [Key -> [pc : {"idle", "enqueue"}, job : Job \cup {None}]]
      /\ caller'[k] = IdleCaller /\ \A m \in Key \ {k} : caller'[m] = caller[m]
  BY DEF Enqueue, IInv, TypeOK, IdleCaller
<1>9. \A m \in Key : caller'[m] \in {caller[m], IdleCaller} /\ caller'[m].job # x
  BY <1>7, <1>8, ConstantsAssumption DEF IdleCaller
<1>10. /\ tasks' = Append(tasks, x) /\ lane' = lane /\ process' = process
       /\ UNCHANGED store /\ UNCHANGED bounds
  BY <1>2 DEF Enqueue
<1>11. lane' \in [Lane -> Work] /\ \A m \in Lane : lane'[m] \in {lane[m], IdleLane} /\ lane'[m].job # x
  BY <1>5, <1>10, Typed DEF IInv, InLane
<1> QED BY <1>3, <1>5, <1>6, <1>8, <1>9, <1>10, <1>11, JoinsTasks

\* A restart hands the jobs it has found interrupted to the executor.
LEMMA ResubmitStaleKeeps ==
  ASSUME IInv, ResubmitStale
  PROVE  IInv'
<1>1. process.pc = "resubmit" /\ process.job # None
  BY DEF ResubmitStale, IInv, Locals, ProcessFits
<1>2. PICK x \in Job : x = process.job
  BY <1>1 DEF IInv, TypeOK
<1>3. Due(x) /\ \A k \in Key : caller[k].job # x
  BY <1>1, <1>2, ConstantsAssumption DEF IInv, Locals, ProcessFits
<1>4. ~InTasks(x) /\ ~InLane(x)
  BY <1>2 DEF IInv, OnePlace
<1>5. /\ tasks' = Append(tasks, x) /\ lane' = lane /\ caller' = caller
      /\ UNCHANGED store /\ UNCHANGED bounds
      /\ process' = [process EXCEPT !.pc = "requeue", !.job = None]
  BY <1>2 DEF ResubmitStale
<1>6. process'.job # x
  BY <1>5, ConstantsAssumption DEF IInv, TypeOK
<1>7. lane' \in [Lane -> Work] /\ \A m \in Lane : lane'[m] \in {lane[m], IdleLane} /\ lane'[m].job # x
  BY <1>4, <1>5, Typed DEF IInv, InLane
<1>8. caller' \in [Key -> [pc : {"idle", "enqueue"}, job : Job \cup {None}]]
  BY <1>5 DEF IInv, TypeOK
<1> QED BY <1>1, <1>3, <1>4, <1>5, <1>6, <1>7, <1>8, JoinsTasks

\* A lane takes the first task.
LEMMA TakeKeeps ==
  ASSUME IInv, NEW l \in Lane, Take(l)
  PROVE  IInv'
<1> DEFINE x == Head(tasks)
           w == [pc |-> "begin", job |-> x, attempt |-> 0]
<1>1. /\ x \in Job /\ Holds(tasks, x)
      /\ tasks' \in Seq(Job) /\ Distinct(tasks')
      /\ \A j : Holds(tasks', j) <=> Holds(tasks, j) /\ j # x
  BY TailHolds DEF Take, IInv, TypeOK, OnePlace
<1>2. Due(x) /\ ~InLane(x) /\ ~InCaller(x) /\ process.job # x
  BY <1>1 DEF IInv, Locals, OnePlace, InTasks, Holds
<1>3. UNCHANGED store /\ UNCHANGED <<caller, process, bounds>> /\ tasks # <<>>
  BY DEF Take
<1>4. w \in Work /\ w.pc = "begin" /\ w.job = x
  BY <1>1, ConstantsAssumption DEF Work, PC
<1>5. /\ lane' \in [Lane -> Work] /\ lane'[l] = w
      /\ \A m \in Lane \ {l} : lane'[m] = lane[m]
  BY <1>4, LaneWritten DEF Take, IInv
<1> HIDE DEF w
<1>6. TypeOK'
  <2>1. lane' \in [Lane -> [pc : {"idle", "begin", "prepare", "pipeline", "collect", "finish",
                              "transient", "sleep", "input", "failed"},
                        job : Job \cup {None}, attempt : 0 .. MaxAttempts]]
    <3>1. PC = {"idle", "begin", "prepare", "pipeline", "collect", "finish",
                "transient", "sleep", "input", "failed"}
      BY DEF PC, Busy
    <3> QED BY <1>5, <3>1 DEF Work
  <2> QED BY <1>1, <1>3, <2>1 DEF IInv, TypeOK, store, bounds
<1>7. Files' /\ \A j : Due(j) => Due(j)'
  BY <1>3, StoreKept
<1>8. Locals'
  <2>1. (\A i \in 1 .. Len(tasks) : Due(tasks[i]))'
    <3> SUFFICES ASSUME NEW i \in 1 .. Len(tasks') PROVE Due(tasks[i])'
      OBVIOUS
    <3>1. Holds(tasks', tasks'[i])
      BY DEF Holds
    <3>2. Due(tasks'[i])
      BY <1>1, <3>1 DEF Holds, IInv, Locals
    <3> QED BY <1>3, <3>2 DEF Due, Indexed, store
  <2>2. \A m \in Lane : LaneFits(m)'
    <3> TAKE m \in Lane
    <3>1. CASE m = l
      BY <1>1, <1>2, <1>3, <1>4, <1>5, <3>1, ConstantsAssumption
         DEF LaneFits, Busy, Due, Indexed, store
    <3>2. CASE m # l
      BY <1>3, <1>5, <1>7, <3>2 DEF LaneFits, IInv, Locals, store
    <3> QED BY <3>1, <3>2
  <2>3. ProcessFits'
    <3>1. process.pc \notin {"down", "interrupt"}
      BY <1>3 DEF IInv, Locals, ProcessFits
    <3> QED BY <1>3, <1>7, <3>1 DEF IInv, Locals, ProcessFits, store
  <2>4. (\A k \in Key :
           /\ caller[k].pc = "idle" <=> caller[k].job = None
           /\ caller[k].job # None => Due(caller[k].job) /\ index[k] = caller[k].job)'
    BY <1>3 DEF IInv, Locals, store, Due, Indexed
  <2> QED BY <2>1, <2>2, <2>3, <2>4 DEF Locals
<1>9. OnePlace'
  <2>2. \A l1, l2 \in Lane :
          lane'[l1].job # None /\ lane'[l1].job = lane'[l2].job => l1 = l2
    BY <1>2, <1>4, <1>5 DEF IInv, OnePlace, InLane
  <2>3. Distinct(tasks)'
    BY <1>1 DEF Distinct
  <2>5. ASSUME NEW j \in Job
        PROVE  (/\ InTasks(j) => ~InLane(j) /\ ~InCaller(j) /\ process.job # j
                /\ InLane(j) => ~InCaller(j) /\ process.job # j)'
    <3>1. /\ InTasks(j) => ~InLane(j) /\ ~InCaller(j) /\ process.job # j
          /\ InLane(j) => ~InCaller(j) /\ process.job # j
      BY DEF IInv, OnePlace
    <3>2. /\ InTasks(j)' => InTasks(j) /\ j # x
          /\ InLane(j)' => InLane(j) \/ j = x
      BY <1>1, <1>4, <1>5 DEF InTasks, InLane
    <3>3. (InCaller(j)' => InCaller(j)) /\ process'.job = process.job
      BY <1>3 DEF InCaller
    <3> QED BY <1>2, <3>1, <3>2, <3>3
  <2> QED BY <2>2, <2>3, <2>5 DEF OnePlace
<1> QED BY <1>6, <1>7, <1>8, <1>9 DEF IInv

-----------------------------------------------------------------------------
(* Jobs that are queued: submitted, retried, or found at a start.          *)

\* Nobody has a job that is neither queued nor running.
LEMMA NobodyHas ==
  ASSUME IInv, NEW x \in Job, status[x].state \notin {"QUEUED", "RUNNING"}
  PROVE  /\ ~InTasks(x) /\ ~InLane(x) /\ process.job # x
         /\ \A i \in 1 .. Len(tasks) : tasks[i] # x
         /\ \A l \in Lane : lane[l].job # x
         /\ \A k \in Key : caller[k].job # x
<1>1. \A i \in 1 .. Len(tasks) : tasks[i] # x
  BY DEF IInv, Locals, Due
<1>2. \A l \in Lane : lane[l].job # x
  <2> SUFFICES ASSUME NEW l \in Lane, lane[l].job = x PROVE FALSE
    OBVIOUS
  <2>1. lane[l].pc # "idle" /\ LaneFits(l)
    BY ConstantsAssumption DEF IInv, Locals, LaneFits
  <2>2. lane[l].pc \in {"begin", "sleep"} \cup Busy
    BY <2>1, Typed DEF IInv, PC
  <2> QED BY <2>1, <2>2 DEF LaneFits, Due
<1>3. \A k \in Key : caller[k].job # x
  BY ConstantsAssumption DEF IInv, Locals, Due
<1>4. process.job # x
  BY ConstantsAssumption DEF IInv, Locals, ProcessFits, Due
<1> QED BY <1>1, <1>2, <1>3, <1>4 DEF InTasks, InLane, Holds

\* The job x is queued, and the files of the others stay.
Queues(x) ==
  /\ status' = [status EXCEPT ![x].state = "QUEUED"]
  /\ UNCHANGED <<output, tasks, lane>>
  /\ \A i \in Job \ {x} : owner'[i] = owner[i] /\ (Indexed(i) => Indexed(i)')

\* A row that is queued again is due, and takes nothing from the others.
LEMMA QueuesKeeps ==
  ASSUME IInv, NEW x \in Job, status[x].state \notin {"QUEUED", "RUNNING"},
         status[x].attempt < MaxAttempts, Queues(x), Indexed(x)',
         (\A k \in Key : index[k] # None => owner[index[k]] = k)'
  PROVE  /\ status' \in [Job -> Row]
         /\ Files' /\ Due(x)' /\ \A i \in Job \ {x} : Due(i) => Due(i)'
         /\ (\A i \in 1 .. Len(tasks) : Due(tasks[i]))'
         /\ (\A l \in Lane : LaneFits(l))'
<1>1. /\ status' \in [Job -> Row]
      /\ status'[x].state = "QUEUED" /\ status'[x].attempt = status[x].attempt
      /\ \A i \in Job \ {x} : status'[i] = status[i]
  BY StateSet DEF Queues, SetState, IInv, States, Unfinished
<1>2. Files'
  <2>1. RowFits(x)' /\ ResultFits(x)'
    BY <1>1 DEF RowFits, ResultFits, Indexed
  <2>2. \A i \in Job \ {x} : RowFits(i)' /\ ResultFits(i)'
    <3> SUFFICES ASSUME NEW i \in Job \ {x} PROVE RowFits(i)' /\ ResultFits(i)'
      OBVIOUS
    <3>1. status'[i] = status[i] /\ owner'[i] = owner[i] /\ output'[i] = output[i]
          /\ (Indexed(i) => Indexed(i)')
      BY <1>1 DEF Queues
    <3> QED BY <3>1 DEF IInv, Files, RowFits, ResultFits
  <2> QED BY <2>1, <2>2 DEF Files
<1>3. Due(x)'
  BY <1>1 DEF Due
<1>4. ASSUME NEW i \in Job \ {x}, Due(i)
      PROVE  Due(i)'
  <2>1. status'[i] = status[i] /\ Indexed(i)'
    BY <1>1, <1>4 DEF Due, Queues
  <2> QED BY <1>4, <2>1 DEF Due
<1>5. (\A i \in 1 .. Len(tasks) : Due(tasks[i]))'
  <2> SUFFICES ASSUME NEW i \in 1 .. Len(tasks') PROVE Due(tasks[i])'
    OBVIOUS
  <2>1. tasks' = tasks
    BY DEF Queues
  <2>2. PICK t \in Job \ {x} : t = tasks[i]
    BY <2>1, NobodyHas, ElementOfSeq DEF IInv, TypeOK
  <2>3. Due(t)'
    BY <1>4, <2>1, <2>2 DEF IInv, Locals
  <2> QED BY <2>1, <2>2, <2>3 DEF Due, Indexed
<1>6. (\A l \in Lane : LaneFits(l))'
  <2> SUFFICES ASSUME NEW l \in Lane PROVE LaneFits(l)'
    OBVIOUS
  <2>1. lane' = lane /\ LaneFits(l)
    BY DEF Queues, IInv, Locals
  <2>2. CASE lane[l].job = None
    BY <2>1, <2>2 DEF LaneFits, Busy
  <2>3. CASE lane[l].job # None
    <3>1. PICK t \in Job \ {x} : t = lane[l].job
      BY <2>3, NobodyHas, Typed DEF IInv
    <3>2. /\ Due(t) => Due(t)'
          /\ status'[t] = status[t] /\ owner'[t] = owner[t] /\ output'[t] = output[t]
      BY <1>1, <1>4 DEF Queues
    <3>3. Due(lane[l].job)' <=> Due(t)'
      BY <2>1, <3>1 DEF Due, Indexed
    <3>4. Due(lane[l].job) <=> Due(t)
      BY <3>1
    <3> QED BY <2>1, <3>1, <3>2, <3>3, <3>4 DEF LaneFits
  <2> QED BY <2>2, <2>3
<1> QED BY <1>1, <1>2, <1>3, <1>4, <1>5, <1>6

\* The thread that serves k takes x, which nobody has, to the executor.
LEMMA CallerTakes ==
  ASSUME IInv, NEW k \in Key, NEW x \in Job, process.pc = "up", caller[k].pc = "idle",
         status[x].state \notin {"QUEUED", "RUNNING"}, status[x].attempt < MaxAttempts,
         Queues(x), Indexed(x)', index'[k] = x,
         \A m \in Key \ {k} : index'[m] = index[m],
         (\A m \in Key : index[m] # None => owner[index[m]] = m)',
         caller' = [caller EXCEPT ![k] = [pc |-> "enqueue", job |-> x]],
         process' = process, owner' \in [Job -> Key \cup {None}], index' \in [Key -> Job \cup {None}],
         crashes' = crashes, retries' \in 0 .. MaxRetries
  PROVE  IInv'
<1>1. /\ status' \in [Job -> Row]
      /\ Files' /\ Due(x)' /\ \A i \in Job \ {x} : Due(i) => Due(i)'
      /\ (\A i \in 1 .. Len(tasks) : Due(tasks[i]))'
      /\ (\A l \in Lane : LaneFits(l))'
  BY QueuesKeeps
<1>2. /\ caller' \in [Key -> [pc : {"idle", "enqueue"}, job : Job \cup {None}]]
      /\ caller'[k].pc = "enqueue" /\ caller'[k].job = x
      /\ \A m \in Key \ {k} : caller'[m] = caller[m]
  BY DEF IInv, TypeOK
<1>3. TypeOK'
  BY <1>1, <1>2 DEF IInv, TypeOK, Queues, Row, States
<1>4. Locals'
  <2>1. (\A m \in Key :
           /\ caller[m].pc = "idle" <=> caller[m].job = None
           /\ caller[m].job # None => Due(caller[m].job) /\ index[m] = caller[m].job)'
    <3> SUFFICES ASSUME NEW m \in Key
                 PROVE  (/\ caller[m].pc = "idle" <=> caller[m].job = None
                         /\ caller[m].job # None => Due(caller[m].job) /\ index[m] = caller[m].job)'
      OBVIOUS
    <3>1. CASE m = k
      BY <1>1, <1>2, <3>1, ConstantsAssumption DEF Due, Indexed
    <3>2. CASE m # k
      <4>1. caller'[m] = caller[m] /\ index'[m] = index[m]
        BY <1>2, <3>2
      <4>2. /\ caller[m].pc = "idle" <=> caller[m].job = None
            /\ caller[m].job # None => Due(caller[m].job) /\ index[m] = caller[m].job
        BY DEF IInv, Locals
      <4>3. CASE caller[m].job = None
        BY <4>1, <4>2, <4>3
      <4>4. CASE caller[m].job # None
        <5>1. PICK t \in Job \ {x} : t = caller[m].job
          BY <4>4, NobodyHas DEF IInv, TypeOK
        <5>2. Due(t)'
          BY <1>1, <4>2, <4>4, <5>1
        <5> QED BY <4>1, <4>2, <4>4, <5>1, <5>2 DEF Due, Indexed
      <4> QED BY <4>3, <4>4
    <3> QED BY <3>1, <3>2
  <2>2. ProcessFits'
    BY DEF IInv, Locals, ProcessFits
  <2> QED BY <1>1, <2>1, <2>2 DEF Locals
<1>5. OnePlace'
  <2>1. ASSUME NEW j \in Job
        PROVE  (/\ InTasks(j) => ~InLane(j) /\ ~InCaller(j) /\ process.job # j
                /\ InLane(j) => ~InCaller(j) /\ process.job # j)'
    <3>1. /\ InTasks(j) => ~InLane(j) /\ ~InCaller(j) /\ process.job # j
          /\ InLane(j) => ~InCaller(j) /\ process.job # j
      BY DEF IInv, OnePlace
    <3>2. /\ InTasks(j)' <=> InTasks(j)
          /\ InLane(j)' <=> InLane(j)
          /\ InCaller(j)' => InCaller(j) \/ j = x
      BY <1>2 DEF Queues, InTasks, InLane, InCaller
    <3> QED BY <3>1, <3>2, NobodyHas
  <2> QED BY <2>1 DEF IInv, OnePlace, Queues
<1> QED BY <1>1, <1>3, <1>4, <1>5 DEF IInv

\* submit finds the job of its key, or creates one.
LEMMA SubmitKeeps ==
  ASSUME IInv, NEW k \in Key, Submit(k)
  PROVE  IInv'
<1>1. PICK x \in Job : /\ status[x].state = "NONE" /\ Create(k, x)
                      /\ index' = [index EXCEPT ![k] = x]
                      /\ caller' = [caller EXCEPT ![k] = [pc |-> "enqueue", job |-> x]]
  BY DEF Submit
<1>2. status[x].attempt = 0 /\ owner[x] = None
  BY <1>1 DEF IInv, Files, RowFits
<1>3. /\ owner' \in [Job -> Key \cup {None}] /\ owner'[x] = k
      /\ \A i \in Job \ {x} : owner'[i] = owner[i]
      /\ index' \in [Key -> Job \cup {None}] /\ index'[k] = x
      /\ \A m \in Key \ {k} : index'[m] = index[m]
  BY <1>1 DEF IInv, TypeOK, Create
<1>4. Indexed(x)'
  BY <1>3 DEF Indexed
<1>5. index[k] = None /\ process.pc = "up" /\ caller[k].pc = "idle"
      /\ UNCHANGED <<output, tasks, lane, process, bounds>>
  BY DEF Submit
<1>6. \A i \in Job \ {x} : Indexed(i) => Indexed(i)'
  BY <1>3, <1>5, ConstantsAssumption DEF Indexed
<1>7. Queues(x)
  BY <1>1, <1>3, <1>5, <1>6 DEF Queues, Create
<1>8. (\A m \in Key : index[m] # None => owner[index[m]] = m)'
  BY <1>1, <1>2, <1>3, ConstantsAssumption DEF IInv, TypeOK, Files
<1>9. 0 < MaxAttempts /\ retries' \in 0 .. MaxRetries /\ crashes' = crashes
  BY <1>5, ConstantsAssumption DEF IInv, TypeOK, bounds
<1> QED BY <1>1, <1>2, <1>3, <1>4, <1>5, <1>7, <1>8, <1>9, CallerTakes

\* retry queues a job that has ended, and no other.
LEMMA RetryKeeps ==
  ASSUME IInv, NEW k \in Key, Retry(k)
  PROVE  IInv'
<1>1. PICK x \in Job : /\ x = index[k] /\ Retryable(x) /\ SetState(x, "QUEUED")
                      /\ caller' = [caller EXCEPT ![k] = [pc |-> "enqueue", job |-> x]]
  BY DEF Retry, IInv, TypeOK
<1>2. /\ process.pc = "up" /\ caller[k].pc = "idle" /\ retries < MaxRetries
      /\ retries' = retries + 1 /\ UNCHANGED <<owner, index, output, tasks, lane, process, crashes>>
  BY DEF Retry
<1>3. status[x].state \notin {"QUEUED", "RUNNING"} /\ status[x].attempt < MaxAttempts
  BY <1>1 DEF Retryable, TerminalStates, Stopped
<1>4. owner[x] = k
  BY <1>1, ConstantsAssumption DEF IInv, Files
<1>5. Indexed(x)' /\ \A i \in Job \ {x} : owner'[i] = owner[i] /\ (Indexed(i) => Indexed(i)')
  BY <1>1, <1>2, <1>4 DEF Indexed
<1>6. Queues(x)
  BY <1>1, <1>2, <1>5 DEF Queues, SetState
<1>7. /\ (\A m \in Key : index[m] # None => owner[index[m]] = m)'
      /\ owner' \in [Job -> Key \cup {None}] /\ index' \in [Key -> Job \cup {None}]
  BY <1>2 DEF IInv, Files, TypeOK
<1>8. retries' \in 0 .. MaxRetries
  BY <1>2, ConstantsAssumption DEF IInv, TypeOK
<1>9. index'[k] = x /\ \A m \in Key \ {k} : index'[m] = index[m]
  BY <1>1, <1>2
<1> QED BY <1>1, <1>2, <1>3, <1>5, <1>6, <1>7, <1>8, <1>9, CallerTakes

\* The restart queues an interrupted job with attempts left.
LEMMA RequeueKeeps ==
  ASSUME IInv, Requeue
  PROVE  IInv'
<1>1. PICK x \in process.stale :
        /\ status[x].attempt < MaxAttempts /\ SetState(x, "QUEUED")
        /\ process' = [pc |-> "resubmit", stale |-> process.stale \ {x}, job |-> x]
  BY DEF Requeue
<1>2. process.pc = "requeue" /\ UNCHANGED <<owner, index, output, tasks, lane, caller, bounds>>
  BY DEF Requeue
<1>3. x \in Job /\ status[x].state = "INTERRUPTED"
  BY <1>2 DEF IInv, TypeOK, Locals, ProcessFits
<1>4. Indexed(x)
  <2>1. status[x].attempt > 0
    BY <1>3 DEF IInv, Files, RowFits
  <2> QED BY <1>3, <2>1 DEF IInv, Files, RowFits
<1>5. Indexed(x)' /\ \A i \in Job \ {x} : owner'[i] = owner[i] /\ (Indexed(i) => Indexed(i)')
  BY <1>2, <1>4 DEF Indexed
<1>6. Queues(x)
  BY <1>1, <1>2, <1>5 DEF Queues, SetState
<1>7. (\A m \in Key : index[m] # None => owner[index[m]] = m)'
  BY <1>2 DEF IInv, Files
<1>8. /\ status' \in [Job -> Row]
      /\ Files' /\ Due(x)' /\ \A i \in Job \ {x} : Due(i) => Due(i)'
      /\ (\A i \in 1 .. Len(tasks) : Due(tasks[i]))'
      /\ (\A l \in Lane : LaneFits(l))'
  BY <1>1, <1>3, <1>5, <1>6, <1>7, QueuesKeeps
<1>9. /\ process'.pc = "resubmit" /\ process'.job = x /\ process'.stale = process.stale \ {x}
      /\ process' \in [pc : {"down", "interrupt", "requeue", "resubmit", "up"},
                       stale : SUBSET Job, job : Job \cup {None}]
  BY <1>1, <1>3 DEF IInv, TypeOK
<1>10. TypeOK'
  BY <1>2, <1>8, <1>9 DEF IInv, TypeOK, Row, States, bounds
<1>11. \A k \in Key : caller[k].job = None
  BY <1>2 DEF IInv, Locals, ProcessFits
<1>12. ProcessFits'
  <2>1. \A j \in process'.stale : status'[j].state = "INTERRUPTED"
    BY <1>1, <1>2, <1>3, <1>9 DEF IInv, TypeOK, Locals, ProcessFits, SetState
  <2>2. Due(process.job)'
    BY <1>8, <1>9 DEF Due, Indexed
  <2> QED BY <1>2, <1>3, <1>9, <1>11, <2>1, <2>2, ConstantsAssumption DEF ProcessFits
<1>13. Locals'
  BY <1>2, <1>8, <1>11, <1>12 DEF IInv, Locals
<1>14. OnePlace'
  <2>1. ASSUME NEW j \in Job
        PROVE  (/\ InTasks(j) => ~InLane(j) /\ ~InCaller(j) /\ process.job # j
                /\ InLane(j) => ~InCaller(j) /\ process.job # j)'
    <3>1. /\ InTasks(j)' <=> InTasks(j)
          /\ InLane(j)' <=> InLane(j)
          /\ ~InCaller(j)'
      BY <1>2, <1>11, ConstantsAssumption DEF InTasks, InLane, InCaller
    <3>2. InTasks(j) => ~InLane(j)
      BY DEF IInv, OnePlace
    <3> QED BY <1>3, <1>9, <3>1, <3>2, NobodyHas
  <2> QED BY <1>2, <2>1 DEF IInv, OnePlace
<1> QED BY <1>8, <1>10, <1>13, <1>14 DEF IInv

-----------------------------------------------------------------------------
(* Crashes and starts.                                                     *)

\* A dead service leaves its files, and nobody at work.
LEMMA DieKeeps ==
  ASSUME IInv, Die, Files',
         status' \in [Job -> Row], owner' \in [Job -> Key \cup {None}],
         UNCHANGED <<index, output>>
  PROVE  IInv'
<1>1. TypeOK'
  <2>1. crashes' \in 0 .. MaxCrashes
    BY ConstantsAssumption DEF IInv, TypeOK, Die
  <2>2. <<>> \in Seq(Job)
    BY EmptySeq
  <2>3. lane' \in [Lane -> [pc : {"idle", "begin", "prepare", "pipeline", "collect", "finish",
                              "transient", "sleep", "input", "failed"},
                        job : Job \cup {None}, attempt : 0 .. MaxAttempts]]
    BY ConstantsAssumption DEF Die, IdleLane
  <2>4. caller' \in [Key -> [pc : {"idle", "enqueue"}, job : Job \cup {None}]]
    BY DEF Die, IdleCaller
  <2>5. process' \in [pc : {"down", "interrupt", "requeue", "resubmit", "up"},
                     stale : SUBSET Job, job : Job \cup {None}]
    BY DEF Die, Up
  <2>6. tasks' = <<>> /\ retries' = retries
    BY DEF Die
  <2> QED BY <2>1, <2>2, <2>3, <2>4, <2>5, <2>6 DEF IInv, TypeOK, Row, States
<1>2. Locals'
  <2>1. Len(tasks') = 0
    BY DEF Die
  <2> QED BY <2>1 DEF Die, Locals, LaneFits, ProcessFits, IdleLane, IdleCaller, Up, Busy
<1>3. OnePlace'
  <2>1. Distinct(tasks)' /\ \A j \in Job : ~Holds(tasks', j)
    BY EmptyHolds DEF Die, Distinct
  <2>2. ASSUME NEW j \in Job
        PROVE  (/\ InTasks(j) => ~InLane(j) /\ ~InCaller(j) /\ process.job # j
                /\ InLane(j) => ~InCaller(j) /\ process.job # j)'
    <3>1. ~InTasks(j)'
      BY <2>1 DEF InTasks
    <3>2. ~InLane(j)'
      BY ConstantsAssumption DEF Die, InLane, IdleLane
    <3> QED BY <3>1, <3>2
  <2>3. \A l \in Lane : lane'[l].job = None
    BY DEF Die, IdleLane
  <2> QED BY <2>1, <2>2, <2>3 DEF OnePlace
<1> QED BY <1>1, <1>2, <1>3 DEF IInv

\* A crash takes lanes, tasks and callers, and leaves the files.
LEMMA CrashKeeps ==
  ASSUME IInv, Crash
  PROVE  IInv'
<1>1. Files'
  BY StoreKept DEF Crash
<1>2. status' \in [Job -> Row] /\ owner' \in [Job -> Key \cup {None}]
  BY Typed DEF Crash, store, IInv, TypeOK
<1> QED BY <1>1, <1>2, DieKeeps DEF Crash, store

\* A crash between the row of a job and its index entry.
LEMMA CrashInCreateKeeps ==
  ASSUME IInv, NEW k \in Key, CrashInCreate(k)
  PROVE  IInv'
<1>1. PICK x \in Job : status[x].state = "NONE" /\ Create(k, x)
  BY DEF CrashInCreate
<1>2. UNCHANGED <<index, output>> /\ index[k] = None
  BY DEF CrashInCreate
<1>3. status[x].attempt = 0 /\ owner[x] = None
  BY <1>1 DEF IInv, Files, RowFits
<1>4. /\ status' \in [Job -> Row]
      /\ status'[x].state = "QUEUED" /\ status'[x].attempt = 0
      /\ \A i \in Job \ {x} : status'[i] = status[i]
  BY <1>1, <1>3, StateSet DEF Create, SetState, IInv, States, Unfinished
<1>5. /\ owner' \in [Job -> Key \cup {None}] /\ owner'[x] = k
      /\ \A i \in Job \ {x} : owner'[i] = owner[i]
  BY <1>1 DEF Create, IInv, TypeOK
<1>6. Files'
  <2>1. RowFits(x)' /\ ResultFits(x)'
    BY <1>4, <1>5, ConstantsAssumption DEF RowFits, ResultFits
  <2>2. \A i \in Job \ {x} : RowFits(i)' /\ ResultFits(i)'
    <3> SUFFICES ASSUME NEW i \in Job \ {x} PROVE RowFits(i)' /\ ResultFits(i)'
      OBVIOUS
    <3>1. status'[i] = status[i] /\ owner'[i] = owner[i] /\ output'[i] = output[i] /\ index' = index
      BY <1>2, <1>4, <1>5
    <3> QED BY <3>1 DEF IInv, Files, RowFits, ResultFits, Indexed
  <2>3. \A m \in Key : index'[m] # None => owner'[index'[m]] = m
    <3> SUFFICES ASSUME NEW m \in Key, index[m] # None PROVE owner'[index[m]] = m
      BY <1>2
    <3>1. owner[index[m]] = m /\ index[m] \in Job
      BY DEF IInv, TypeOK, Files
    <3>2. index[m] # x
      BY <1>3, <3>1, ConstantsAssumption
    <3> QED BY <1>5, <3>1, <3>2
  <2> QED BY <2>1, <2>2, <2>3 DEF Files
<1> QED BY <1>2, <1>4, <1>5, <1>6, DieKeeps DEF CrashInCreate

\* Only the local state of the constructor moves.
LEMMA ProcessMoves ==
  ASSUME IInv, UNCHANGED store, UNCHANGED <<tasks, lane, caller, bounds>>,
         process' \in [pc : {"down", "interrupt", "requeue", "resubmit", "up"},
                      stale : SUBSET Job, job : Job \cup {None}],
         process'.job = None, ProcessFits'
  PROVE  IInv'
<1>1. TypeOK'
  BY DEF IInv, TypeOK, store, bounds
<1>2. Files'
  BY StoreKept
<1>3. Locals'
  <2>1. (\A i \in 1 .. Len(tasks) : Due(tasks[i]))'
    BY DEF IInv, Locals, Due, Indexed, store
  <2>2. (\A l \in Lane : LaneFits(l))'
    BY DEF IInv, Locals, LaneFits, Due, Indexed, store
  <2>3. (\A k \in Key :
           /\ caller[k].pc = "idle" <=> caller[k].job = None
           /\ caller[k].job # None => Due(caller[k].job) /\ index[k] = caller[k].job)'
    BY DEF IInv, Locals, store, Due, Indexed
  <2> QED BY <2>1, <2>2, <2>3 DEF Locals
<1>4. OnePlace'
  BY ConstantsAssumption DEF IInv, OnePlace, InTasks, InLane, InCaller
<1> QED BY <1>1, <1>2, <1>3, <1>4 DEF IInv

\* The restart reads which jobs were abandoned.
LEMMA StartKeeps ==
  ASSUME IInv, Start
  PROVE  IInv'
<1>1. process.pc = "down" /\ UNCHANGED store /\ UNCHANGED <<tasks, lane, caller, bounds>>
  BY DEF Start
<1>2. /\ process'.pc = "interrupt" /\ process'.job = None
      /\ process'.stale = {j \in Job : Abandoned(j)}
      /\ process' \in [pc : {"down", "interrupt", "requeue", "resubmit", "up"},
                       stale : SUBSET Job, job : Job \cup {None}]
  BY DEF Start, Up
<1>3. ProcessFits'
  BY <1>1, <1>2 DEF IInv, Locals, ProcessFits, Abandoned, store
<1> QED BY <1>1, <1>2, <1>3, ProcessMoves

\* The restart has interrupted the last of them.
LEMMA InterruptedKeeps ==
  ASSUME IInv, Interrupted
  PROVE  IInv'
<1>1. process.pc = "interrupt" /\ UNCHANGED store /\ UNCHANGED <<tasks, lane, caller, bounds>>
  BY DEF Interrupted
<1>2. /\ process'.pc = "requeue" /\ process'.stale = process.stale /\ process'.job = process.job
      /\ process' \in [pc : {"down", "interrupt", "requeue", "resubmit", "up"},
                       stale : SUBSET Job, job : Job \cup {None}]
  BY DEF Interrupted, IInv, TypeOK
<1>3. process.job = None
  BY <1>1 DEF IInv, Locals, ProcessFits
<1>4. ProcessFits'
  BY <1>1, <1>2, <1>3 DEF IInv, Locals, ProcessFits, Interrupted, Abandoned, store
<1> QED BY <1>1, <1>2, <1>3, <1>4, ProcessMoves

\* The restart has handed the last of them to the executor.
LEMMA StartedKeeps ==
  ASSUME IInv, Started
  PROVE  IInv'
<1>1. process.pc = "requeue" /\ UNCHANGED store /\ UNCHANGED <<tasks, lane, caller, bounds>>
  BY DEF Started
<1>2. /\ process'.pc = "up" /\ process'.stale = {} /\ process'.job = None
      /\ process' \in [pc : {"down", "interrupt", "requeue", "resubmit", "up"},
                       stale : SUBSET Job, job : Job \cup {None}]
  BY DEF Started, Up
<1>3. ProcessFits'
  BY <1>1, <1>2 DEF ProcessFits
<1> QED BY <1>1, <1>2, <1>3, ProcessMoves

\* The restart writes INTERRUPTED over a row that was RUNNING.
LEMMA InterruptKeeps ==
  ASSUME IInv, Interrupt
  PROVE  IInv'
<1>1. PICK x \in process.stale : Abandoned(x) /\ SetState(x, "INTERRUPTED")
  BY DEF Interrupt
<1>2. process.pc = "interrupt" /\ UNCHANGED <<owner, index, output, tasks, lane, caller, process, bounds>>
  BY DEF Interrupt
<1>3. x \in Job /\ status[x].state = "RUNNING"
  BY <1>1 DEF IInv, TypeOK, Abandoned
<1>4. /\ status' \in [Job -> Row]
      /\ status'[x].state = "INTERRUPTED" /\ status'[x].attempt = status[x].attempt
      /\ \A i \in Job \ {x} : status'[i] = status[i]
  BY <1>1, <1>3, StateSet DEF IInv, States, TerminalStates, Stopped
<1>5. TypeOK'
  BY <1>2, <1>4 DEF IInv, TypeOK, Row, States, bounds
<1>6. Files'
  <2>1. RowFits(x)' /\ ResultFits(x)'
    BY <1>2, <1>3, <1>4 DEF IInv, Files, RowFits, ResultFits, Indexed
  <2>2. \A i \in Job \ {x} : RowFits(i)' /\ ResultFits(i)'
    BY <1>2, <1>4 DEF IInv, Files, RowFits, ResultFits, Indexed
  <2> QED BY <1>2, <2>1, <2>2 DEF IInv, Files
<1>7. /\ tasks = <<>> /\ \A l \in Lane : lane[l].job = None
      /\ \A k \in Key : caller[k].job = None
      /\ process.job = None
  BY <1>2 DEF IInv, Locals, ProcessFits
<1>8. Locals'
  <2>1. Len(tasks') = 0
    BY <1>2, <1>7
  <2>2. (\A l \in Lane : LaneFits(l))'
    BY <1>2, <1>7 DEF IInv, Locals, LaneFits, Busy
  <2>3. ProcessFits'
    BY <1>2, <1>4, <1>7 DEF IInv, TypeOK, Locals, ProcessFits
  <2> QED BY <1>2, <1>7, <2>1, <2>2, <2>3 DEF IInv, Locals
<1>9. OnePlace'
  BY <1>2 DEF IInv, OnePlace, InTasks, InLane, InCaller
<1> QED BY <1>5, <1>6, <1>8, <1>9 DEF IInv

-----------------------------------------------------------------------------
(* The theorems.                                                           *)

\* Every step of the service keeps the invariant.
LEMMA NextInvariant == IInv /\ [Next]_vars => IInv'
<1> SUFFICES ASSUME IInv, [Next]_vars PROVE IInv'
  OBVIOUS
<1>1. CASE UNCHANGED vars
  <2>1. UNCHANGED store /\ UNCHANGED <<tasks, lane, caller, bounds>> /\ process' = process
    BY <1>1 DEF vars, store, bounds
  <2> QED BY <2>1 DEF IInv, TypeOK, Files, RowFits, ResultFits, Indexed, Locals, LaneFits,
                      ProcessFits, Due, OnePlace, InTasks, InLane, InCaller, store, bounds
<1>2. ASSUME NEW k \in Key, Submit(k) \/ Enqueue(k) \/ Retry(k) \/ CrashInCreate(k)
      PROVE  IInv'
  BY <1>2, SubmitKeeps, EnqueueKeeps, RetryKeeps, CrashInCreateKeeps
<1>3. ASSUME NEW l \in Lane, LaneStep(l)
      PROVE  IInv'
  BY <1>3, TakeKeeps, BeginKeeps, PrepareKeeps, PipelineKeeps, CollectKeeps, FinishKeeps,
     TransientKeeps, ResubmitKeeps, StopKeeps DEF LaneStep
<1>4. CASE Boot
  BY <1>4, StartKeeps, InterruptKeeps, InterruptedKeeps, RequeueKeeps, ResubmitStaleKeeps,
     StartedKeeps DEF Boot
<1>5. CASE Crash
  BY <1>5, CrashKeeps
<1> QED BY <1>1, <1>2, <1>3, <1>4, <1>5 DEF Next

\* The files, the local states and the places of the jobs agree in every step.
THEOREM Inductive == Spec => []IInv
<1>1. Spec => Init /\ [][Next]_vars
  BY DEF Spec
<1> QED BY <1>1, InitInvariant, NextInvariant, PTL

\* The files and the local states have the values the code gives them.
THEOREM TypesHold == Spec => []TypeOK
<1>1. IInv => TypeOK
  BY DEF IInv
<1> QED BY <1>1, Inductive, PTL

\* A set of which two elements are never different has at most one.
LEMMA AtMostOne ==
  ASSUME NEW S, \A a, b \in S : a = b
  PROVE  /\ IsFiniteSet(S) /\ Cardinality(S) \in {0, 1}
         /\ Cardinality(S) = 0 <=> S = {}
<1>1. CASE S = {}
  BY <1>1, FS_EmptySet
<1>2. CASE S # {}
  <2>1. PICK a \in S : TRUE
    BY <1>2
  <2>2. S = {a}
    BY <2>1
  <2>3. IsFiniteSet({a}) /\ Cardinality({a}) = 1
    BY FS_Singleton
  <2> QED BY <1>2, <2>2, <2>3
<1> QED BY <1>1, <1>2

\* The jobs that somebody has.
Held == {j \in Job : InTasks(j) \/ InLane(j) \/ InCaller(j) \/ process.job = j}

\* A job is in at most one place of the process: the tasks, a lane, a caller or the restart.
LEMMA PlacesAre ==
  ASSUME IInv, NEW j \in Job
  PROVE  /\ Places(j) \in {0, 1}
         /\ Places(j) = 0 <=> j \notin Held
<1> DEFINE T == {i \in 1 .. Len(tasks) : tasks[i] = j}
           L == {l \in Lane : lane[l].job = j}
           C == {k \in Key : caller[k].job = j}
           p == IF process.job = j THEN 1 ELSE 0
<1>1. j # None
  BY ConstantsAssumption
<1>2. Cardinality(T) \in {0, 1} /\ (Cardinality(T) = 0 <=> ~InTasks(j))
  <2>1. \A a, b \in T : a = b
    BY DEF IInv, OnePlace, Distinct
  <2>2. T = {} <=> ~InTasks(j)
    BY DEF InTasks, Holds
  <2> HIDE DEF T
  <2> QED BY <2>1, <2>2, AtMostOne
<1>3. Cardinality(L) \in {0, 1} /\ (Cardinality(L) = 0 <=> ~InLane(j))
  <2>1. \A a, b \in L : a = b
    BY <1>1 DEF IInv, OnePlace
  <2>2. L = {} <=> ~InLane(j)
    BY DEF InLane
  <2> HIDE DEF L
  <2> QED BY <2>1, <2>2, AtMostOne
<1>4. Cardinality(C) \in {0, 1} /\ (Cardinality(C) = 0 <=> ~InCaller(j))
  <2>1. \A a, b \in C : a = b
    BY <1>1 DEF IInv, Locals, Files
  <2>2. C = {} <=> ~InCaller(j)
    BY DEF InCaller
  <2> HIDE DEF C
  <2> QED BY <2>1, <2>2, AtMostOne
<1>5. /\ InTasks(j) => ~InLane(j) /\ ~InCaller(j) /\ process.job # j
      /\ InLane(j) => ~InCaller(j) /\ process.job # j
      /\ InCaller(j) => process.job # j
  BY <1>1 DEF IInv, OnePlace, InCaller, Locals, ProcessFits
<1>6. Places(j) = Cardinality(T) + Cardinality(L) + Cardinality(C) + p
  BY DEF Places
<1> HIDE DEF T, L, C
<1> QED BY <1>2, <1>3, <1>4, <1>5, <1>6 DEF Held

\* The state of a finished job tells what its result file holds, only the job
\* that the index answers with has ever run, and nobody brings forward a job
\* that another party has: so no two threads write the files of one attempt.
THEOREM ResultsAreAsStated == Spec => []ResultAsStated
<1>1. IInv => ResultAsStated
  <2> SUFFICES ASSUME IInv, NEW j \in Job
               PROVE  /\ Places(j) <= 1
                      /\ ResultFits(j)
                      /\ owner[j] # None /\ status[j].attempt > 0 => index[owner[j]] = j
    BY DEF ResultAsStated, ResultFits
  <2>1. Places(j) <= 1
    BY PlacesAre
  <2>2. ResultFits(j) /\ RowFits(j)
    BY DEF IInv, Files
  <2> QED BY <2>1, <2>2 DEF RowFits, Indexed
<1> QED BY <1>1, Inductive, PTL

-----------------------------------------------------------------------------
(* RagJobs implements RagLifecycle.                                        *)

phase == [k \in Key |-> Phase(k)]
tries == [k \in Key |-> IF index[k] = None THEN 0 ELSE status[index[k]].attempt]

\* The phase of a key, by its job's state and whether anybody has the job.
PhasesFit ==
  \A k \in Key :
    /\ index[k] = None => Phase(k) = "none"
    /\ index[k] # None =>
         LET j == index[k] IN
         /\ status[j].state = "QUEUED" => Phase(k) = IF j \in Held THEN "queued" ELSE "lost"
         /\ status[j].state = "RUNNING" => Phase(k) = "running"
         /\ status[j].state \in {"COMPLETED", "COMPLETED_WITH_WARNINGS", "PLANNED"} =>
              Phase(k) = "succeeded"
         /\ status[j].state = "INPUT_REQUIRED" => Phase(k) = "input"
         /\ status[j].state \in {"FAILED", "INTERRUPTED"} => Phase(k) = "failed"

\* The lifecycle sees a state that fits the row and the place of each job.
LEMMA PhaseIs == IInv => PhasesFit
<1> SUFFICES ASSUME IInv PROVE PhasesFit
  OBVIOUS
<1>1. \A k \in Key : index[k] # None => index[k] \in Job
  BY DEF IInv, TypeOK
<1>2. \A k \in Key : index[k] # None =>
        (status[index[k]].state = "QUEUED" => (Lost(index[k]) <=> index[k] \notin Held))
  BY <1>1, PlacesAre DEF Lost
<1> QED BY <1>2 DEF PhasesFit, Phase, PhaseOf

\* The same of the state after a step.
LEMMA PhaseWillBe == IInv' => PhasesFit'
BY PhaseIs, PTL

\* A key whose job keeps its state, its attempts and its holder stays as it is.
LEMMA KeyStays ==
  ASSUME IInv, IInv', NEW k \in Key, index'[k] = index[k],
         index[k] # None =>
           /\ status'[index[k]].state = status[index[k]].state
           /\ status'[index[k]].attempt = status[index[k]].attempt
           /\ status[index[k]].state = "QUEUED" => (index[k] \in Held' <=> index[k] \in Held)
  PROVE  phase'[k] = phase[k] /\ tries'[k] = tries[k]
<1>1. tries'[k] = tries[k]
  BY DEF tries
<1>2. Phase(k)' = Phase(k)
  <2>1. CASE index[k] = None
    BY <2>1 DEF Phase
  <2>2. CASE index[k] # None
    <3>1. status'[index'[k]].state = status[index[k]].state
      BY <2>2
    <3>2. CASE status[index[k]].state # "QUEUED"
      BY <2>2, <3>1, <3>2 DEF Phase
    <3>3. CASE status[index[k]].state = "QUEUED"
      <4>1. index[k] \in Job
        BY <2>2 DEF IInv, TypeOK
      <4>2. Phase(k) = IF index[k] \in Held THEN "queued" ELSE "lost"
        BY <2>2, <3>3, PhaseIs DEF PhasesFit
      <4>3. Phase(k)' = IF index[k] \in Held' THEN "queued" ELSE "lost"
        BY <2>2, <3>1, <3>3, PhaseWillBe DEF PhasesFit
      <4> QED BY <2>2, <3>3, <4>2, <4>3
    <3> QED BY <3>2, <3>3
  <2> QED BY <2>1, <2>2
<1> QED BY <1>1, <1>2 DEF phase

\* A step that no key's job shows.
LEMMA Stutters ==
  ASSUME IInv, IInv', index' = index, status' = status, Held' = Held
  PROVE  UNCHANGED Lifecycle!vars
<1>1. \A k \in Key : phase'[k] = phase[k] /\ tries'[k] = tries[k]
  BY KeyStays
<1>2. phase' = phase /\ tries' = tries
  BY <1>1 DEF phase, tries
<1> QED BY <1>2 DEF Lifecycle!vars, phase, tries

\* A step that only the job of k shows.
LEMMA OneKey ==
  ASSUME IInv, IInv', NEW k \in Key, NEW j \in Job, index'[k] = j,
         \A m \in Key \ {k} : index'[m] = index[m],
         \A i \in Job \ {j} : status'[i] = status[i],
         Held' \ {j} = Held \ {j}
  PROVE  /\ phase' = [phase EXCEPT ![k] = phase'[k]]
         /\ tries' = [tries EXCEPT ![k] = tries'[k]]
<1>1. ASSUME NEW m \in Key \ {k}
      PROVE  phase'[m] = phase[m] /\ tries'[m] = tries[m]
  <2>1. index'[m] = index[m] /\ index[m] # j
    BY ConstantsAssumption DEF IInv, Files
  <2>2. index[m] # None => index[m] \in Job \ {j}
    BY <2>1 DEF IInv, TypeOK
  <2> QED BY <2>1, <2>2, KeyStays
<1>2. /\ phase = [m \in Key |-> phase[m]] /\ phase' = [m \in Key |-> phase'[m]]
      /\ tries = [m \in Key |-> tries[m]] /\ tries' = [m \in Key |-> tries'[m]]
  BY DEF phase, tries
<1>3. /\ phase' = [m \in Key |-> IF m = k THEN phase'[k] ELSE phase[m]]
      /\ tries' = [m \in Key |-> IF m = k THEN tries'[k] ELSE tries[m]]
  BY <1>1, <1>2
<1>4. /\ phase' = [[m \in Key |-> phase[m]] EXCEPT ![k] = phase'[k]]
      /\ tries' = [[m \in Key |-> tries[m]] EXCEPT ![k] = tries'[k]]
  BY <1>3
<1> QED BY <1>2, <1>4

\* What lanes, callers and the constructor have, after a step of a lane.
LEMMA HeldByLane ==
  ASSUME IInv, NEW l \in Lane, lane[l].pc # "idle", NEW j \in Job, j = lane[l].job,
         UNCHANGED <<tasks, caller, process>>,
         \A m \in Lane \ {l} : lane'[m] = lane[m]
  PROVE  /\ j \in Held
         /\ lane'[l].job = j => Held' = Held
         /\ lane'[l].job = None => Held' = Held \ {j}
<1>1. j \in Held
  BY DEF Held, InLane
<1>2. ASSUME lane'[l].job = j
      PROVE  Held' = Held
  BY <1>2 DEF Held, InTasks, InLane, InCaller
<1>3. ASSUME lane'[l].job = None
      PROVE  Held' = Held \ {j}
  <2> SUFFICES ASSUME NEW i \in Job PROVE i \in Held' <=> i \in Held /\ i # j
    BY DEF Held
  <2>1. InTasks(i)' <=> InTasks(i)
    BY DEF InTasks
  <2>2. InCaller(i)' <=> InCaller(i)
    BY DEF InCaller
  <2>3. InLane(i)' <=> InLane(i) /\ i # j
    BY <1>3, OwnJob, ConstantsAssumption DEF InLane
  <2>4. ~InTasks(j) /\ ~InCaller(j) /\ process.job # j
    BY OwnJob DEF InTasks, InCaller, Holds
  <2> QED BY <2>1, <2>2, <2>3, <2>4 DEF Held
<1> QED BY <1>1, <1>2, <1>3

\* A job that stays the job of its key, and is the only one that moves.
LEMMA OneMoves ==
  ASSUME IInv, IInv', NEW j \in Job, Indexed(j), UNCHANGED <<owner, index>>,
         \A i \in Job \ {j} : status'[i] = status[i],
         Held' \ {j} = Held \ {j}
  PROVE  /\ owner[j] \in Key
         /\ phase' = [phase EXCEPT ![owner[j]] = Phase(owner[j])']
         /\ tries' = [tries EXCEPT ![owner[j]] = status'[j].attempt]
         /\ phase[owner[j]] = Phase(owner[j]) /\ tries[owner[j]] = status[j].attempt
         /\ index[owner[j]] = j /\ j # None
<1>1. PICK k \in Key : k = owner[j]
  BY DEF Indexed
<1>2. index[k] = j /\ index'[k] = j /\ j # None
  BY <1>1, ConstantsAssumption DEF Indexed
<1>3. /\ phase' = [phase EXCEPT ![k] = phase'[k]]
      /\ tries' = [tries EXCEPT ![k] = tries'[k]]
  BY <1>2, OneKey
<1>4. phase'[k] = Phase(k)' /\ phase[k] = Phase(k)
  BY DEF phase
<1>5. tries'[k] = status'[j].attempt /\ tries[k] = status[j].attempt
  BY <1>2 DEF tries
<1>6. Phase(owner[j])' = Phase(k)'
  BY <1>1 DEF Phase
<1> QED BY <1>1, <1>2, <1>3, <1>4, <1>5, <1>6

\* The phases of the one job that moves.
LEMMA PhaseOfOne ==
  ASSUME IInv, IInv', NEW j \in Job, Indexed(j), UNCHANGED <<owner, index>>
  PROVE  /\ status[j].state = "QUEUED" /\ j \in Held => Phase(owner[j]) = "queued"
         /\ status[j].state = "RUNNING" => Phase(owner[j]) = "running"
         /\ status[j].state \in TerminalStates => Phase(owner[j]) \in Lifecycle!Settled
         /\ status'[j].state = "QUEUED" /\ j \in Held' => Phase(owner[j])' = "queued"
         /\ status'[j].state = "RUNNING" => Phase(owner[j])' = "running"
         /\ status'[j].state \in TerminalStates => Phase(owner[j])' \in Lifecycle!Settled
<1>1. PICK k \in Key : k = owner[j]
  BY DEF Indexed
<1>2. index[k] = j /\ index'[k] = j /\ j # None
  BY <1>1, ConstantsAssumption DEF Indexed
<1>3. Phase(owner[j])' = Phase(k)'
  BY <1>1 DEF Phase
<1>4. /\ status[j].state = "QUEUED" /\ j \in Held => Phase(k) = "queued"
      /\ status[j].state = "RUNNING" => Phase(k) = "running"
      /\ status[j].state \in TerminalStates => Phase(k) \in Lifecycle!Settled
  BY <1>2, PhaseIs DEF PhasesFit, TerminalStates, Stopped, Lifecycle!Settled
<1>5. /\ status'[j].state = "QUEUED" /\ j \in Held' => Phase(k)' = "queued"
      /\ status'[j].state = "RUNNING" => Phase(k)' = "running"
      /\ status'[j].state \in TerminalStates => Phase(k)' \in Lifecycle!Settled
  BY <1>2, PhaseWillBe DEF PhasesFit, TerminalStates, Stopped, Lifecycle!Settled
<1> QED BY <1>1, <1>3, <1>4, <1>5

\* A job that is queued by somebody, started or settled makes the abstract step.
LEMMA MovesRefine ==
  ASSUME IInv, IInv', NEW j \in Job, Indexed(j), UNCHANGED <<owner, index>>,
         \A i \in Job \ {j} : status'[i] = status[i],
         Held' \ {j} = Held \ {j},
         \/ /\ status[j].state = "QUEUED" /\ j \in Held /\ status'[j].state = "RUNNING"
            /\ status[j].attempt < MaxAttempts /\ status'[j].attempt = status[j].attempt + 1
         \/ /\ status[j].state = "RUNNING" \/ status[j].state \in TerminalStates
            /\ status'[j].state = "QUEUED" /\ j \in Held'
            /\ status[j].attempt < MaxAttempts /\ status'[j].attempt = status[j].attempt
         \/ /\ status[j].state = "RUNNING" /\ status'[j].state \in TerminalStates
            /\ status'[j].attempt = status[j].attempt
  PROVE  Lifecycle!Next
<1> DEFINE k == owner[j]
<1>1. /\ k \in Key
      /\ phase' = [phase EXCEPT ![k] = Phase(k)'] /\ tries' = [tries EXCEPT ![k] = status'[j].attempt]
      /\ phase[k] = Phase(k) /\ tries[k] = status[j].attempt
  BY OneMoves
<1>2. /\ status[j].state = "QUEUED" /\ j \in Held => Phase(k) = "queued"
      /\ status[j].state = "RUNNING" => Phase(k) = "running"
      /\ status[j].state \in TerminalStates => Phase(k) \in Lifecycle!Settled
      /\ status'[j].state = "QUEUED" /\ j \in Held' => Phase(k)' = "queued"
      /\ status'[j].state = "RUNNING" => Phase(k)' = "running"
      /\ status'[j].state \in TerminalStates => Phase(k)' \in Lifecycle!Settled
  BY PhaseOfOne
<1>3. CASE /\ status[j].state = "QUEUED" /\ j \in Held /\ status'[j].state = "RUNNING"
           /\ status[j].attempt < MaxAttempts /\ status'[j].attempt = status[j].attempt + 1
  <2>1. tries[k] < MaxAttempts /\ phase[k] \in {"queued"} /\ phase' = [phase EXCEPT ![k] = "running"]
        /\ tries' = [tries EXCEPT ![k] = tries[k] + 1]
    BY <1>1, <1>2, <1>3
  <2>2. PICK m \in Key : m = k
    BY <1>1
  <2>3. Lifecycle!Start(m)
    BY <2>1, <2>2 DEF Lifecycle!Start, Lifecycle!Become, phase, tries
  <2> QED BY <2>3 DEF Lifecycle!Next
<1>4. CASE /\ status[j].state = "RUNNING" \/ status[j].state \in TerminalStates
           /\ status'[j].state = "QUEUED" /\ j \in Held'
           /\ status[j].attempt < MaxAttempts /\ status'[j].attempt = status[j].attempt
  <2>1. tries[k] < MaxAttempts /\ phase' = [phase EXCEPT ![k] = "queued"]
        /\ phase[k] \in {"running"} \cup Lifecycle!Settled
    BY <1>1, <1>2, <1>4
  <2>2. tries' = tries
    BY <1>1, <1>4 DEF tries
  <2>3. Lifecycle!Again(k) \/ Lifecycle!Retry(k)
    BY <2>1, <2>2 DEF Lifecycle!Again, Lifecycle!Retry, Lifecycle!Become, phase, tries
  <2> QED BY <1>1, <2>3 DEF Lifecycle!Next
<1>5. CASE /\ status[j].state = "RUNNING" /\ status'[j].state \in TerminalStates
           /\ status'[j].attempt = status[j].attempt
  <2>1. PICK outcome \in Lifecycle!Settled : outcome = Phase(k)'
    BY <1>2, <1>5
  <2>2. phase[k] \in {"running"} /\ phase' = [phase EXCEPT ![k] = outcome]
    BY <1>1, <1>2, <1>5, <2>1
  <2>3. tries' = tries
    BY <1>1, <1>5 DEF tries
  <2>4. Lifecycle!Settle(k, outcome)
    BY <2>2, <2>3 DEF Lifecycle!Settle, Lifecycle!Become, phase, tries
  <2> QED BY <1>1, <2>1, <2>4 DEF Lifecycle!Next
<1> QED BY <1>3, <1>4, <1>5

\* One run of a job.
LEMMA LaneRefines ==
  ASSUME IInv, IInv', NEW l \in Lane, LaneStep(l)
  PROVE  Lifecycle!Next \/ UNCHANGED Lifecycle!vars
<1>1. CASE Take(l)
  <2>1. /\ Head(tasks) \in Job /\ Holds(tasks, Head(tasks))
        /\ \A j : Holds(Tail(tasks), j) <=> Holds(tasks, j) /\ j # Head(tasks)
    BY <1>1, TailHolds DEF Take, IInv, TypeOK, OnePlace
  <2>2. /\ lane'[l].job = Head(tasks) /\ lane[l].job = None
        /\ \A m \in Lane \ {l} : lane'[m] = lane[m]
    BY <1>1 DEF Take, IInv, TypeOK, Locals, LaneFits
  <2>3. tasks' = Tail(tasks) /\ UNCHANGED <<status, index, caller, process>>
    BY <1>1 DEF Take, store
  <2>4. Held' = Held
    <3> SUFFICES ASSUME NEW i \in Job PROVE i \in Held' <=> i \in Held
      BY DEF Held
    <3>1. InTasks(i)' <=> InTasks(i) /\ i # Head(tasks)
      BY <2>1, <2>3 DEF InTasks
    <3>2. InLane(i)' <=> InLane(i) \/ i = Head(tasks)
      BY <2>2, ConstantsAssumption DEF InLane
    <3>3. InTasks(Head(tasks))
      BY <2>1 DEF InTasks
    <3>4. InCaller(i)' <=> InCaller(i)
      BY <2>3 DEF InCaller
    <3> QED BY <2>3, <3>1, <3>2, <3>3, <3>4 DEF Held
  <2> QED BY <2>3, <2>4, Stutters
<1>2. CASE lane[l].pc # "idle"
  <2>1. PICK j \in Job : j = lane[l].job
    BY <1>2, OwnJob
  <2>2. lane[l].pc \in Busy => /\ status[j].state = "RUNNING" /\ Indexed(j)
                              /\ lane[l].attempt = status[j].attempt
    BY <2>1, BusyJob
  <2>3. CASE Begin(l)
    <3> DEFINE w == [lane[l] EXCEPT !.pc = "prepare", !.attempt = status[j].attempt + 1]
               row == [status[j] EXCEPT !.state = "RUNNING", !.attempt = status[j].attempt + 1]
    <3>1. UNCHANGED <<owner, index, tasks, caller, process>> /\ Due(j)
      BY <2>1, <2>3 DEF Begin, IInv, Locals, LaneFits
    <3>2. /\ lane'[l].job = j /\ \A m \in Lane \ {l} : lane'[m] = lane[m]
          /\ status'[j].state = "RUNNING" /\ status'[j].attempt = status[j].attempt + 1
          /\ \A i \in Job \ {j} : status'[i] = status[i]
      BY <2>1, <2>3 DEF Begin, IInv, TypeOK
    <3>3. j \in Held /\ Held' = Held
      BY <1>2, <2>1, <3>1, <3>2, HeldByLane
    <3>4. status[j].state = "QUEUED" /\ Indexed(j) /\ status[j].attempt < MaxAttempts
      BY <3>1 DEF Due, IInv, Files, RowFits
    <3> QED BY <3>1, <3>2, <3>3, <3>4, MovesRefine
  <2>4. CASE Prepare(l) \/ Pipeline(l) \/ Collect(l)
    <3>1. UNCHANGED <<status, index, tasks, caller, process>>
      BY <2>4 DEF Prepare, Pipeline, Collect, store
    <3>2. \E pc : Goto(l, pc)
      <4>1. CASE Prepare(l)
        BY <4>1 DEF Prepare
      <4>2. CASE Collect(l)
        BY <4>2 DEF Collect
      <4>3. CASE Pipeline(l)
        BY <4>3, PipelineGoes
      <4> QED BY <2>4, <4>1, <4>2, <4>3
    <3>3. lane'[l].job = j /\ \A m \in Lane \ {l} : lane'[m] = lane[m]
      BY <2>1, <3>2 DEF Goto, IInv, TypeOK
    <3>4. Held' = Held
      BY <1>2, <2>1, <3>1, <3>3, HeldByLane
    <3> QED BY <3>1, <3>4, Stutters
  <2>5. CASE Finish(l)
    <3>1. UNCHANGED <<owner, index, tasks, caller, process>> /\ lane[l].pc \in Busy
      BY <2>5 DEF Finish, Busy
    <3>2. /\ lane'[l].job = None /\ \A m \in Lane \ {l} : lane'[m] = lane[m]
          /\ status'[j].state \in TerminalStates /\ status'[j].attempt = status[j].attempt
          /\ \A i \in Job \ {j} : status'[i] = status[i]
      <4>1. PICK s \in TerminalStates, f \in {"discovery", "recovered", "judged"} :
              status' = [status EXCEPT ![j] = [status[j] EXCEPT !.state = s, !.file = f]]
        <5>1. {"PLANNED", "COMPLETED", "COMPLETED_WITH_WARNINGS"} \subseteq TerminalStates
          BY DEF TerminalStates
        <5> QED BY <2>1, <2>5, <5>1 DEF Finish
      <4>2. lane' = [lane EXCEPT ![l] = IdleLane]
        BY <2>5 DEF Finish
      <4> QED BY <4>1, <4>2, Typed DEF IInv, IdleLane, Row
    <3>3. Held' = Held \ {j}
      BY <1>2, <2>1, <3>1, <3>2, HeldByLane
    <3> QED BY <2>2, <3>1, <3>2, <3>3, MovesRefine
  <2>6. CASE Transient(l) \/ Stop(l)
    <3>1. UNCHANGED <<owner, index, tasks, caller, process>> /\ lane[l].pc \in Busy
      BY <2>6 DEF Transient, Stop, Busy
    <3>2. PICK s \in {"QUEUED", "FAILED", "INPUT_REQUIRED"} :
            /\ SetState(j, s)
            /\ \/ s = "QUEUED" /\ lane[l].attempt < MaxAttempts /\ Goto(l, "sleep")
               \/ s # "QUEUED" /\ lane' = [lane EXCEPT ![l] = IdleLane]
      BY <2>1, <2>6 DEF Transient, Stop, MayRunAgain
    <3>3. /\ status'[j].state = s /\ status'[j].attempt = status[j].attempt
          /\ \A i \in Job \ {j} : status'[i] = status[i]
      BY <3>2, StateSet DEF IInv, States, Unfinished, TerminalStates, Stopped
    <3>4. \A m \in Lane \ {l} : lane'[m] = lane[m]
      BY <3>2 DEF Goto, IInv, TypeOK
    <3>5. s = "QUEUED" => lane'[l].job = j /\ status[j].attempt < MaxAttempts
      BY <2>1, <2>2, <3>1, <3>2 DEF Goto, IInv, TypeOK
    <3>6. s # "QUEUED" => lane'[l].job = None
      BY <3>2 DEF IdleLane, IInv, TypeOK
    <3>7. CASE s = "QUEUED"
      <4>1. j \in Held /\ Held' = Held
        BY <1>2, <2>1, <3>1, <3>4, <3>5, <3>7, HeldByLane
      <4> QED BY <2>2, <3>1, <3>3, <3>5, <3>7, <4>1, MovesRefine
    <3>8. CASE s # "QUEUED"
      <4>1. Held' = Held \ {j}
        BY <1>2, <2>1, <3>1, <3>4, <3>6, <3>8, HeldByLane
      <4>2. status'[j].state \in TerminalStates
        BY <3>3, <3>8 DEF TerminalStates, Stopped
      <4> QED BY <2>2, <3>1, <3>3, <4>1, <4>2, MovesRefine
    <3> QED BY <3>7, <3>8
  <2>7. CASE Resubmit(l)
    <3>1. tasks' = Append(tasks, j) /\ UNCHANGED <<status, index, caller, process>>
      BY <2>1, <2>7 DEF Resubmit, store
    <3>2. lane'[l].job = None /\ \A m \in Lane \ {l} : lane'[m] = lane[m]
      BY <2>7 DEF Resubmit, IInv, TypeOK, IdleLane
    <3>3. \A i : Holds(tasks', i) <=> Holds(tasks, i) \/ i = j
      BY <3>1, AppendHolds DEF IInv, TypeOK
    <3>4. Held' = Held
      <4> SUFFICES ASSUME NEW i \in Job PROVE i \in Held' <=> i \in Held
        BY DEF Held
      <4>1. InTasks(i)' <=> InTasks(i) \/ i = j
        BY <3>3 DEF InTasks
      <4>2. InLane(i)' <=> InLane(i) /\ i # j
        BY <1>2, <2>1, <3>2, OwnJob, ConstantsAssumption DEF InLane
      <4>3. InLane(j)
        BY <2>1 DEF InLane
      <4>4. InCaller(i)' <=> InCaller(i)
        BY <3>1 DEF InCaller
      <4> QED BY <3>1, <4>1, <4>2, <4>3, <4>4 DEF Held
    <3> QED BY <3>1, <3>4, Stutters
  <2> QED BY <1>1, <2>3, <2>4, <2>5, <2>6, <2>7 DEF LaneStep
<1>3. lane[l].pc = "idle" => Take(l)
  BY DEF LaneStep, Begin, Prepare, Pipeline, Collect, Finish, Transient, Resubmit, Stop
<1> QED BY <1>1, <1>2, <1>3

\* Callers.
LEMMA CallerRefines ==
  ASSUME IInv, IInv', NEW k \in Key, Submit(k) \/ Enqueue(k) \/ Retry(k)
  PROVE  Lifecycle!Next \/ UNCHANGED Lifecycle!vars
<1>1. CASE Submit(k)
  <2>1. PICK x \in Job : /\ status[x].state = "NONE" /\ Create(k, x)
                        /\ index' = [index EXCEPT ![k] = x]
                        /\ caller' = [caller EXCEPT ![k] = [pc |-> "enqueue", job |-> x]]
    BY <1>1 DEF Submit
  <2>2. index[k] = None /\ UNCHANGED <<tasks, lane, process>> /\ caller[k].pc = "idle"
    BY <1>1 DEF Submit
  <2>3. /\ index'[k] = x /\ \A m \in Key \ {k} : index'[m] = index[m]
        /\ caller'[k].job = x /\ caller[k].job = None
        /\ \A m \in Key \ {k} : caller'[m] = caller[m]
    BY <2>1, <2>2 DEF IInv, TypeOK, Locals
  <2>4. /\ status'[x].state = "QUEUED" /\ status'[x].attempt = status[x].attempt
        /\ \A i \in Job \ {x} : status'[i] = status[i]
    BY <2>1, StateSet DEF Create, SetState, IInv, States, Unfinished
  <2>5. status[x].attempt = 0
    BY <2>1 DEF IInv, Files, RowFits
  <2>6. x \in Held' /\ Held' \ {x} = Held \ {x}
    <3>1. x \in Held'
      BY <2>3 DEF Held, InCaller
    <3>2. ASSUME NEW i \in Job \ {x}
          PROVE  i \in Held' <=> i \in Held
      <4>1. InTasks(i)' <=> InTasks(i)
        BY <2>2 DEF InTasks
      <4>2. InLane(i)' <=> InLane(i)
        BY <2>2 DEF InLane
      <4>3. InCaller(i)' <=> InCaller(i)
        BY <2>3, ConstantsAssumption DEF InCaller
      <4> QED BY <2>2, <4>1, <4>2, <4>3 DEF Held
    <3> QED BY <3>1, <3>2 DEF Held
  <2>7. /\ phase' = [phase EXCEPT ![k] = phase'[k]]
        /\ tries' = [tries EXCEPT ![k] = tries'[k]]
    BY <2>3, <2>4, <2>6, OneKey
  <2>8. phase[k] = "none" /\ phase'[k] = "queued"
    BY <2>2, <2>3, <2>4, <2>6, PhaseIs, PhaseWillBe, ConstantsAssumption DEF PhasesFit, phase
  <2>9. tries' = tries
    <3>1. tries[k] = 0 /\ tries'[k] = 0
      BY <2>2, <2>3, <2>4, <2>5, ConstantsAssumption DEF tries
    <3> QED BY <2>7, <3>1 DEF tries
  <2>10. Lifecycle!Accept(k)
    BY <2>7, <2>8, <2>9 DEF Lifecycle!Accept, Lifecycle!Become, phase, tries
  <2> QED BY <2>10 DEF Lifecycle!Next
<1>2. CASE Enqueue(k)
  <2>1. caller[k].job # None
    BY <1>2 DEF Enqueue, IInv, Locals
  <2>2. PICK x \in Job : x = caller[k].job
    BY <2>1 DEF IInv, TypeOK
  <2>3. /\ tasks' = Append(tasks, x) /\ UNCHANGED <<status, index, lane, process>>
        /\ caller'[k].job = None /\ \A m \in Key \ {k} : caller'[m] = caller[m]
    BY <1>2, <2>2 DEF Enqueue, IInv, TypeOK, store, IdleCaller
  <2>4. \A i : Holds(tasks', i) <=> Holds(tasks, i) \/ i = x
    BY <2>3, AppendHolds DEF IInv, TypeOK
  <2>5. Held' = Held
    <3> SUFFICES ASSUME NEW i \in Job PROVE i \in Held' <=> i \in Held
      BY DEF Held
    <3>1. InTasks(i)' <=> InTasks(i) \/ i = x
      BY <2>4 DEF InTasks
    <3>2. InCaller(i)' \/ i = x <=> InCaller(i)
      BY <2>2, <2>3, ConstantsAssumption DEF InCaller
    <3>3. InLane(i)' <=> InLane(i)
      BY <2>3 DEF InLane
    <3> QED BY <2>3, <3>1, <3>2, <3>3 DEF Held
  <2> QED BY <2>3, <2>5, Stutters
<1>3. CASE Retry(k)
  <2>1. PICK x \in Job : /\ x = index[k] /\ Retryable(x) /\ SetState(x, "QUEUED")
                        /\ caller' = [caller EXCEPT ![k] = [pc |-> "enqueue", job |-> x]]
    <3>1. index[k] \in Job
      BY <1>3 DEF Retry, IInv, TypeOK
    <3> QED BY <1>3, <3>1 DEF Retry
  <2>2. UNCHANGED <<owner, index, tasks, lane, process>> /\ caller[k].pc = "idle"
    BY <1>3 DEF Retry
  <2>3. /\ status[x].state \in TerminalStates /\ status[x].attempt < MaxAttempts
        /\ status'[x].state = "QUEUED" /\ status'[x].attempt = status[x].attempt
        /\ \A i \in Job \ {x} : status'[i] = status[i]
    BY <2>1, StateSet DEF Retryable, IInv, States, Unfinished
  <2>4. Indexed(x)
    BY <2>1, ConstantsAssumption DEF IInv, Files, Indexed
  <2>5. /\ caller'[k].job = x /\ caller[k].job = None
        /\ \A m \in Key \ {k} : caller'[m] = caller[m]
    BY <2>1, <2>2 DEF IInv, TypeOK, Locals
  <2>6. x \in Held' /\ Held' \ {x} = Held \ {x}
    <3>1. x \in Held'
      BY <2>5 DEF Held, InCaller
    <3>2. ASSUME NEW i \in Job \ {x}
          PROVE  i \in Held' <=> i \in Held
      <4>1. InTasks(i)' <=> InTasks(i)
        BY <2>2 DEF InTasks
      <4>2. InLane(i)' <=> InLane(i)
        BY <2>2 DEF InLane
      <4>3. InCaller(i)' <=> InCaller(i)
        BY <2>5, ConstantsAssumption DEF InCaller
      <4> QED BY <2>2, <4>1, <4>2, <4>3 DEF Held
    <3> QED BY <3>1, <3>2 DEF Held
  <2> QED BY <2>2, <2>3, <2>4, <2>6, MovesRefine
<1> QED BY <1>1, <1>2, <1>3

\* The constructor.
LEMMA BootRefines ==
  ASSUME IInv, IInv', Boot
  PROVE  Lifecycle!Next \/ UNCHANGED Lifecycle!vars
<1>1. CASE Start \/ Interrupted \/ Started
  <2>1. UNCHANGED <<status, index, tasks, lane, caller>>
    BY <1>1 DEF Start, Interrupted, Started, store
  <2>2. process.job = None /\ process'.job = None
    <3>1. process.pc \in {"down", "interrupt", "requeue"}
      BY <1>1 DEF Start, Interrupted, Started
    <3>2. process.job = None
      BY <3>1 DEF IInv, Locals, ProcessFits
    <3>3. process'.pc \in {"interrupt", "requeue", "up"}
      <4>1. CASE Start
        BY <4>1 DEF Start, Up
      <4>2. CASE Interrupted
        <5>1. process' = [process EXCEPT !.pc = "requeue"]
          BY <4>2 DEF Interrupted
        <5> QED BY <5>1 DEF IInv, TypeOK
      <4>3. CASE Started
        BY <4>3 DEF Started, Up
      <4> QED BY <1>1, <4>1, <4>2, <4>3
    <3>4. process'.job = None
      BY <3>3 DEF IInv, Locals, ProcessFits
    <3> QED BY <3>2, <3>4
  <2>3. Held' = Held
    BY <2>1, <2>2, ConstantsAssumption DEF Held, InTasks, InLane, InCaller
  <2> QED BY <2>1, <2>3, Stutters
<1>2. CASE Interrupt
  <2>1. PICK x \in process.stale : Abandoned(x) /\ SetState(x, "INTERRUPTED")
    BY <1>2 DEF Interrupt
  <2>2. UNCHANGED <<owner, index, tasks, lane, caller, process>>
    BY <1>2 DEF Interrupt
  <2>3. x \in Job /\ status[x].state = "RUNNING"
    BY <2>1 DEF IInv, TypeOK, Abandoned
  <2>4. /\ status'[x].state \in TerminalStates /\ status'[x].attempt = status[x].attempt
        /\ \A i \in Job \ {x} : status'[i] = status[i]
    BY <2>1, <2>3, StateSet DEF IInv, States, TerminalStates, Stopped
  <2>5. Indexed(x)
    BY <2>3 DEF IInv, Files, RowFits
  <2>6. Held' = Held
    BY <2>2 DEF Held, InTasks, InLane, InCaller
  <2> QED BY <2>2, <2>3, <2>4, <2>5, <2>6, MovesRefine
<1>3. CASE Requeue
  <2>1. PICK x \in process.stale :
          /\ status[x].attempt < MaxAttempts /\ SetState(x, "QUEUED")
          /\ process' = [pc |-> "resubmit", stale |-> process.stale \ {x}, job |-> x]
    BY <1>3 DEF Requeue
  <2>2. process.pc = "requeue" /\ UNCHANGED <<owner, index, tasks, lane, caller>>
    BY <1>3 DEF Requeue
  <2>3. x \in Job /\ status[x].state \in TerminalStates
    BY <2>2 DEF IInv, TypeOK, Locals, ProcessFits, TerminalStates, Stopped
  <2>4. /\ status'[x].state = "QUEUED" /\ status'[x].attempt = status[x].attempt
        /\ \A i \in Job \ {x} : status'[i] = status[i]
    BY <2>1, <2>3, StateSet DEF IInv, States, Unfinished
  <2>5. status[x].state \notin {"NONE", "QUEUED"}
    BY <2>3 DEF TerminalStates, Stopped
  <2>6. Indexed(x)
    BY <2>3, <2>5 DEF IInv, Files, RowFits
  <2>7. process'.job = x /\ process.job = None
    BY <2>1, <2>2 DEF IInv, Locals, ProcessFits
  <2>8. x \in Held' /\ Held' \ {x} = Held \ {x}
    BY <2>2, <2>3, <2>7, ConstantsAssumption DEF Held, InTasks, InLane, InCaller
  <2> QED BY <2>1, <2>2, <2>3, <2>4, <2>6, <2>8, MovesRefine
<1>4. CASE ResubmitStale
  <2>1. process.pc = "resubmit" /\ process.job # None
    BY <1>4 DEF ResubmitStale, IInv, Locals, ProcessFits
  <2>2. PICK x \in Job : x = process.job
    BY <2>1 DEF IInv, TypeOK
  <2>3. tasks' = Append(tasks, x) /\ UNCHANGED <<status, index, lane, caller>> /\ process'.job = None
    BY <1>4, <2>2 DEF ResubmitStale, IInv, TypeOK, store
  <2>4. \A i : Holds(tasks', i) <=> Holds(tasks, i) \/ i = x
    BY <2>3, AppendHolds DEF IInv, TypeOK
  <2>5. Held' = Held
    <3> SUFFICES ASSUME NEW i \in Job PROVE i \in Held' <=> i \in Held
      BY DEF Held
    <3>1. InTasks(i)' <=> InTasks(i) \/ i = x
      BY <2>4 DEF InTasks
    <3>2. (InCaller(i)' <=> InCaller(i)) /\ (InLane(i)' <=> InLane(i))
      BY <2>3 DEF InCaller, InLane
    <3> QED BY <2>2, <2>3, <3>1, <3>2, ConstantsAssumption DEF Held
  <2> QED BY <2>3, <2>5, Stutters
<1> QED BY <1>1, <1>2, <1>3, <1>4 DEF Boot

\* A crash makes the service forget the jobs that are queued and no others,
\* also a crash inside create, whose job no index knows.
LEMMA CrashRefines ==
  ASSUME IInv, IInv', Crash \/ \E k \in Key : CrashInCreate(k)
  PROVE  Lifecycle!Next
<1>1. Die /\ index' = index
  BY DEF Crash, CrashInCreate, store
<1>2. Held' = {}
  <2> SUFFICES ASSUME NEW i \in Job PROVE i \notin Held'
    BY DEF Held
  <2>1. ~InTasks(i)'
    BY <1>1, EmptyHolds DEF Die, InTasks, Holds
  <2>2. ~InLane(i)' /\ ~InCaller(i)' /\ process'.job # i
    BY <1>1, ConstantsAssumption DEF Die, InLane, InCaller, IdleLane, IdleCaller, Up
  <2> QED BY <2>1, <2>2 DEF Held
<1>3. ASSUME NEW k \in Key, index[k] # None
      PROVE  status'[index[k]] = status[index[k]]
  <2>1. index[k] \in Job /\ status[index[k]].state # "NONE"
    BY <1>3, ConstantsAssumption DEF IInv, TypeOK, Files, RowFits
  <2>2. CASE Crash
    BY <2>2 DEF Crash, store
  <2>3. CASE \E m \in Key : CrashInCreate(m)
    <3>1. PICK x \in Job : status[x].state = "NONE" /\ status' = [status EXCEPT ![x].state = "QUEUED"]
      BY <2>3 DEF CrashInCreate, Create
    <3> QED BY <2>1, <3>1 DEF IInv, TypeOK
  <2> QED BY <2>2, <2>3
<1>4. ASSUME NEW k \in Key
      PROVE  /\ tries'[k] = tries[k]
             /\ phase'[k] = IF phase[k] = "queued" THEN "lost" ELSE phase[k]
  <2>1. CASE index[k] = None
    BY <1>1, <2>1, PhaseIs, PhaseWillBe DEF PhasesFit, phase, tries
  <2>2. CASE index[k] # None /\ status[index[k]].state = "QUEUED"
    <3>1. /\ phase[k] = IF index[k] \in Held THEN "queued" ELSE "lost"
          /\ phase'[k] = "lost"
      BY <1>1, <1>2, <1>3, <2>2, PhaseIs, PhaseWillBe DEF PhasesFit, phase
    <3> QED BY <1>1, <1>3, <2>2, <3>1 DEF tries
  <2>3. CASE index[k] # None /\ status[index[k]].state # "QUEUED"
    <3>1. tries'[k] = tries[k] /\ phase'[k] = phase[k]
      BY <1>1, <1>3, <2>3, KeyStays
    <3>2. phase[k] # "queued"
      <4>1. index[k] \in Job /\ status[index[k]].state # "NONE"
        BY <2>3, ConstantsAssumption DEF IInv, TypeOK, Files, RowFits
      <4>2. status[index[k]].state \in States
        BY <4>1, Typed DEF IInv
      <4> QED BY <2>3, <4>1, <4>2, PhaseIs
              DEF PhasesFit, phase, States, Unfinished, TerminalStates, Stopped
    <3> QED BY <3>1, <3>2
  <2> QED BY <2>1, <2>2, <2>3
<1>5. phase' = [k \in Key |-> IF phase[k] = "queued" THEN "lost" ELSE phase[k]] /\ tries' = tries
  BY <1>4 DEF phase, tries
<1>6. Lifecycle!Crash
  BY <1>5 DEF Lifecycle!Crash, phase, tries
<1> QED BY <1>6 DEF Lifecycle!Next

\* An empty store is an empty lifecycle.
LEMMA InitRefines == Init => Lifecycle!Init
<1> SUFFICES ASSUME Init PROVE Lifecycle!Init
  OBVIOUS
<1>1. \A k \in Key : index[k] = None
  BY DEF Init
<1>2. \A k \in Key : Phase(k) = "none"
  BY <1>1 DEF Phase
<1> QED BY <1>1, <1>2 DEF Lifecycle!Init

\* Every step of the service is a step of the lifecycle or a stutter.
LEMMA NextRefines == IInv /\ IInv' /\ [Next]_vars => [Lifecycle!Next]_Lifecycle!vars
<1> SUFFICES ASSUME IInv, IInv', [Next]_vars PROVE Lifecycle!Next \/ UNCHANGED Lifecycle!vars
  OBVIOUS
<1>1. CASE UNCHANGED vars
  <2>1. index' = index /\ status' = status /\ Held' = Held
    BY <1>1 DEF vars, Held, InTasks, InLane, InCaller
  <2> QED BY <2>1, Stutters
<1>2. ASSUME NEW k \in Key, Submit(k) \/ Enqueue(k) \/ Retry(k)
      PROVE  Lifecycle!Next \/ UNCHANGED Lifecycle!vars
  BY <1>2, CallerRefines
<1>3. ASSUME NEW l \in Lane, LaneStep(l)
      PROVE  Lifecycle!Next \/ UNCHANGED Lifecycle!vars
  BY <1>3, LaneRefines
<1>4. CASE Boot
  BY <1>4, BootRefines
<1>5. CASE Crash \/ \E k \in Key : CrashInCreate(k)
  BY <1>5, CrashRefines
<1> QED BY <1>1, <1>2, <1>3, <1>4, <1>5 DEF Next

\* Files, executor, callers, crashes and restarts together give every key a job
\* that runs at most max_attempts times, in the order RagLifecycle allows.
THEOREM FilesImplementLifecycle == Spec => ImplementsLifecycle
<1>1. Spec => Init /\ [][Next]_vars
  BY DEF Spec
<1> QED BY <1>1, Inductive, InitRefines, NextRefines, PTL DEF ImplementsLifecycle, Lifecycle!Spec
=============================================================================
