--------------------------- MODULE Standards_proofs ---------------------------
(***************************************************************************)
(* Proofs about Standards for every number of standards, files, API        *)
(* processes, chunks, versions, operations and faults: the versions of a   *)
(* standard are one history, a file has one standard, what the rows call   *)
(* indexed is indexed, and what was retired stays hidden.                  *)
(***************************************************************************)
EXTENDS Standards, FiniteSetTheorems, SequenceTheorems, TLAPS

Places == {"idle", "update", "save", "retire", "job", "index", "parse", "create"} \cup Backends \cup Indexing
Statuses == {"PENDING", "EXCLUDED", "ACTIVE", "FAILED"}
Text == Sources \cup {"none"}
Row == [active : BOOLEAN, current : Nat, source : Text, parsed : BOOLEAN]
Version == [n : Nat, dates : Dates \cup {NoDates}, status : [Backends -> Statuses]]
Job == [std : StandardIds, i : Nat, targets : SUBSET Backends, state : {"RUNNING", "SUCCEEDED", "FAILED"}]
Keys == StandardIds \X Nat \X ToSet(Chunks)
Operation ==
  [at : Places, std : StandardIds \cup {"none"}, copy : Row, n : Nat, dates : Dates \cup {NoDates},
   source : Text, parsed : BOOLEAN, i : Nat, targets : SUBSET Backends, job : Nat, next : Nat,
   outcome : {"SUCCEEDED", "FAILED"}, status : [Backends -> Statuses], alone : BOOLEAN]

TypeOK ==
  /\ row \in [StandardIds -> Row]
  /\ history \in [StandardIds -> Seq(Version)]
  /\ jobs \in Seq(Job)
  /\ index \in [Backends -> [held : SUBSET Keys, shown : SUBSET Keys]]
  /\ proc \in [Processes -> Operation]
  /\ ops \in Nat /\ faults \in Nat
  /\ torn \subseteq StandardIds /\ retired \subseteq StandardIds
  /\ stripped \subseteq Text /\ orphaned \subseteq Nat

-----------------------------------------------------------------------------
(* The inductive invariant *)

\* The places of an operation that has read the row, and of one that reindexes.
HasCopy == {"update", "save", "retire", "job"} \cup Backends \cup Indexing
Reindexing == {"job"} \cup Indexing

\* An operation is on a standard that is there, and what it has read of the
\* versions stays.
Placed(op) ==
  /\ op.at \notin {"idle", "create"} => op.std \in Present
  /\ op.at = "create" => op.std = "none" /\ op.source # "none"
  /\ op.at \in HasCopy => op.copy.current \in DOMAIN history[op.std]
  /\ op.at \in {"update", "save"} => op.n = op.copy.current + 1
  /\ op.at = "save" => op.n \in DOMAIN history[op.std]
  /\ op.at \in Reindexing => op.i \in DOMAIN history[op.std]

Numbered(s) ==
  /\ \A i \in DOMAIN history[s] : history[s][i].n = i
  /\ IF row[s] = NoRow THEN history[s] = <<>> ELSE row[s].current \in DOMAIN history[s]

\* No two operations that have added a version have added the same one.
SavesApart ==
  \A p, q \in Processes :
    /\ p # q /\ proc[p].at = "save" /\ proc[q].at = "save" /\ proc[p].std = proc[q].std
    => proc[p].n # proc[q].n

RowNamesNewest(s) ==
  \/ row[s].current = Len(history[s])
  \/ s \in torn
  \/ \E p \in Processes : proc[p].at = "save" /\ proc[p].std = s /\ proc[p].n = Len(history[s])

Versions ==
  /\ \A s \in StandardIds : Numbered(s)
  /\ \A p \in Processes : Placed(proc[p])
  /\ SavesApart
  /\ \A s \in Present : RowNamesNewest(s)

\* What a reindexing has written so far.
Wrote(op) ==
  /\ \A b \in Backends : op.status[b] = "ACTIVE" => KeysOf(op.std, op.i) \subseteq index[b].held
  /\ op.at \in {"vectors", "keywords"} => op.outcome = "SUCCEEDED"
  /\ op.at = "vectors" =>
       /\ op.next \in DOMAIN Chunks
       /\ "QDRANT" \in op.targets =>
            \A k \in 1..(op.next - 1) : Key(op.std, op.i, Chunks[k]) \in index["QDRANT"].held
  /\ op.at = "keywords" /\ "QDRANT" \in op.targets => KeysOf(op.std, op.i) \subseteq index["QDRANT"].held
  /\ op.at \in {"chunks", "end"} /\ op.outcome = "SUCCEEDED" =>
       \A b \in op.targets : KeysOf(op.std, op.i) \subseteq index[b].held

\* The job that a reindexing works on is its own.
OwnJob(op) ==
  /\ op.job \in DOMAIN jobs
  /\ jobs[op.job] = [std |-> op.std, i |-> op.i, targets |-> op.targets, state |-> "RUNNING"]

Indexed ==
  /\ \A p \in Processes : proc[p].at \in Indexing => Wrote(proc[p]) /\ OwnJob(proc[p])
  /\ \A p, q \in Processes :
       p # q /\ proc[p].at \in Indexing /\ proc[q].at \in Indexing => proc[p].job # proc[q].job
  /\ \A j \in DOMAIN jobs :
       /\ jobs[j].i \in DOMAIN history[jobs[j].std]
       /\ jobs[j].state = "RUNNING" =>
            j \in orphaned \/ \E p \in Processes : proc[p].at \in Indexing /\ proc[p].job = j
       /\ jobs[j].state = "SUCCEEDED" =>
            \A b \in jobs[j].targets : KeysOf(jobs[j].std, jobs[j].i) \subseteq index[b].held
  /\ \A s \in StandardIds : \A i \in DOMAIN history[s], b \in Backends :
       history[s][i].status[b] = "ACTIVE" => KeysOf(s, i) \subseteq index[b].held

\* A backend finds nothing of a standard.
Gone(s, b) == \A k \in index[b].shown : k[1] # s

\* A deactivation that nothing overlaps has the standard for itself.
Undisturbed(p) ==
  proc[p].alone /\ proc[p].at \in {"retire"} \cup Backends =>
    /\ \A q \in Processes \ {p} : Busy(q) => proc[q].std # proc[p].std
    /\ proc[p].at \in Backends => ~row[proc[p].std].active
    /\ proc[p].at = "QDRANT" => Gone(proc[p].std, "OPENSEARCH")

\* Nobody holds a retired standard for active.
Retired(s) ==
  /\ s \in Present /\ ~row[s].active
  /\ \A b \in Backends : Gone(s, b)
  /\ \A p \in Processes : proc[p].at \in HasCopy /\ proc[p].std = s =>
       ~proc[p].copy.active /\ proc[p].at \notin {"update", "save"}

Hiding ==
  /\ \A p \in Processes : Undisturbed(p)
  /\ \A s \in retired : Retired(s)

\* The hash of a source is lost, or there was none.
Dropped == stripped \cup {"none"}

\* What an operation has read of the source is so, or both have lost it.
Sourced(op) ==
  /\ op.at \in HasCopy /\ op.copy.source # row[op.std].source => {op.copy.source, row[op.std].source} \subseteq Dropped
  /\ op.at \in {"update", "save"} => op.source \in {op.copy.source} \cup Dropped
  /\ op.at = "parse" /\ op.source # row[op.std].source => {op.source, row[op.std].source} \subseteq Dropped
  /\ op.at = "create" => Existing(op.source) = {} \/ op.source \in stripped

Registered ==
  /\ \A p \in Processes : Sourced(proc[p]) /\ (proc[p].at = "create" => p = Ingestor)
  /\ OneStandardPerSource

IInv == TypeOK /\ Versions /\ Indexed /\ Hiding /\ Registered

-----------------------------------------------------------------------------
(* Types *)

LEMMA IdleTyped ==
  /\ NoRow \in Row /\ Pending \in [Backends -> Statuses] /\ Idle \in Operation
  /\ \A at \in {"update", "retire", "job", "index", "parse", "create"}, s \in StandardIds \cup {"none"} :
       Op(at, s) \in Operation
<1>1. NoRow \in Row
  BY DEF NoRow, Row, Text
<1>2. Pending \in [Backends -> Statuses]
  BY DEF Pending, Statuses
<1>3. Idle \in Operation
  BY <1>1, <1>2 DEF Idle, Operation, Places, Text
<1>4. \A at \in Places, s \in StandardIds \cup {"none"} : Op(at, s) \in Operation
  BY <1>3 DEF Op, Operation
<1>5. {"update", "retire", "job", "index", "parse", "create"} \subseteq Places
  BY DEF Places
<1> QED BY <1>1, <1>2, <1>3, <1>4, <1>5

\* An operation that begins keeps what the others do, and their types.
SameWork(q) ==
  LET was == proc[q]
      is == proc'[q]
  IN /\ is.at = was.at /\ is.std = was.std /\ is.copy = was.copy /\ is.n = was.n /\ is.source = was.source
     /\ is.i = was.i /\ is.targets = was.targets /\ is.job = was.job /\ is.next = was.next
     /\ is.outcome = was.outcome /\ is.status = was.status
     /\ is.alone => was.alone

LEMMA BeginIs ==
  ASSUME TypeOK, NEW p \in Processes, NEW op \in Operation, Begin(p, op)
  PROVE  /\ proc' \in [Processes -> Operation]
         /\ \E alone \in BOOLEAN : proc'[p] = [op EXCEPT !.alone = alone]
         /\ \A q \in Processes \ {p} : SameWork(q)
         /\ \A q \in Processes \ {p} : Busy(q) /\ proc[q].std = op.std => ~proc'[q].alone
         /\ ~Busy(p) /\ proc'[p].alone => \A q \in Processes \ {p} : Busy(q) => proc[q].std # op.std
<1> DEFINE others == {q \in Processes \ {p} : Busy(q) /\ proc[q].std = op.std}
           alone == others = {} /\ (Busy(p) => proc[p].alone)
<1>1. proc' = [q \in Processes |-> IF q = p THEN [op EXCEPT !.alone = alone]
                 ELSE IF q \in others THEN [proc[q] EXCEPT !.alone = FALSE] ELSE proc[q]]
  BY DEF Begin
<1>2. alone \in BOOLEAN
  BY DEF TypeOK, Operation
<1> HIDE DEF alone
<1>3. [op EXCEPT !.alone = alone] \in Operation /\ [op EXCEPT !.alone = alone].alone = alone
  BY <1>2 DEF Operation
<1>4. ASSUME NEW q \in Processes \ {p}
      PROVE  /\ proc'[q] \in Operation /\ SameWork(q)
             /\ Busy(q) /\ proc[q].std = op.std => ~proc'[q].alone
  <2>1. proc[q] \in Operation
    BY DEF TypeOK
  <2>2. CASE q \in others
    <3>1. proc'[q] = [proc[q] EXCEPT !.alone = FALSE]
      BY <1>1, <2>2
    <3> QED BY <2>1, <3>1 DEF Operation, SameWork
  <2>3. CASE q \notin others
    <3>1. proc'[q] = proc[q]
      BY <1>1, <2>3
    <3>2. ~(Busy(q) /\ proc[q].std = op.std)
      BY <2>3
    <3> QED BY <2>1, <3>1, <3>2 DEF Operation, SameWork
  <2> QED BY <2>2, <2>3
<1>5. proc'[p] = [op EXCEPT !.alone = alone]
  BY <1>1
<1>6. proc' \in [Processes -> Operation]
  BY <1>1, <1>3, <1>4, <1>5
<1>7. ~Busy(p) /\ proc'[p].alone => \A q \in Processes \ {p} : Busy(q) => proc[q].std # op.std
  BY <1>3, <1>5 DEF alone
<1> QED BY <1>2, <1>4, <1>5, <1>6, <1>7

LEMMA GoesTyped ==
  ASSUME TypeOK, NEW p \in Processes, NEW op \in Operation, Goes(p, op)
  PROVE  proc' \in [Processes -> Operation] /\ proc'[p] = op /\ \A q \in Processes \ {p} : proc'[q] = proc[q]
BY DEF TypeOK, Goes


LEMMA KeysTyped ==
  ASSUME NEW s \in StandardIds, NEW n \in Nat
  PROVE  /\ KeysOf(s, n) \subseteq Keys
         /\ \A k \in DOMAIN Chunks : Key(s, n, Chunks[k]) \in KeysOf(s, n)
         /\ \A key \in KeysOf(s, n) : \E k \in DOMAIN Chunks : key = Key(s, n, Chunks[k])
         /\ \A key \in KeysOf(s, n) : key[1] = s
BY DEF KeysOf, Key, Keys, ToSet

Documents == [held : SUBSET Keys, shown : SUBSET Keys]

LEMMA PutIs ==
  ASSUME NEW docs \in Documents, NEW keys \in SUBSET Keys, NEW active \in BOOLEAN
  PROVE  /\ Put(docs, keys, active) \in Documents
         /\ Put(docs, keys, active).held = docs.held \cup keys
         /\ Put(docs, keys, active).shown \subseteq docs.shown \cup keys
         /\ ~active => Put(docs, keys, active).shown \subseteq docs.shown
BY DEF Documents, Put

LEMMA HiddenIs ==
  ASSUME NEW docs \in Documents, NEW s \in StandardIds
  PROVE  /\ Hidden(docs, s) \in Documents
         /\ Hidden(docs, s).held = docs.held
         /\ Hidden(docs, s).shown \subseteq docs.shown
         /\ \A k \in Hidden(docs, s).shown : k[1] # s
BY DEF Documents, Hidden

LEMMA NewIdIs ==
  ASSUME StandardIds # Present
  PROVE  NewId \in StandardIds /\ NewId \notin Present
<1>1. \E s \in StandardIds : s \notin Present
  BY DEF Present
<1> QED BY <1>1 DEF NewId

\* What the invariant says of an operation under way.
LEMMA OperationIs ==
  ASSUME TypeOK, Versions, NEW p \in Processes
  PROVE  /\ proc[p] \in Operation
         /\ proc[p].at \notin {"idle", "create"} =>
              proc[p].std \in Present /\ proc[p].std \in StandardIds /\ row[proc[p].std] \in Row
         /\ proc[p].at \in Reindexing => history[proc[p].std][proc[p].i] \in Version
                                         /\ history[proc[p].std][proc[p].i].n = proc[p].i
<1>1. proc[p] \in Operation
  BY DEF TypeOK
<1>2. ASSUME proc[p].at \notin {"idle", "create"}
      PROVE  proc[p].std \in Present /\ proc[p].std \in StandardIds /\ row[proc[p].std] \in Row
  BY <1>2 DEF Versions, Placed, Present, TypeOK
<1>3. ASSUME proc[p].at \in Reindexing
      PROVE  history[proc[p].std][proc[p].i] \in Version /\ history[proc[p].std][proc[p].i].n = proc[p].i
  <2>1. proc[p].std \in StandardIds /\ proc[p].i \in DOMAIN history[proc[p].std]
    BY <1>2, <1>3 DEF Versions, Placed, Reindexing, Indexing
  <2>2. history[proc[p].std] \in Seq(Version)
    BY <2>1 DEF TypeOK
  <2> QED BY <2>1, <2>2 DEF Versions, Numbered
<1> QED BY <1>1, <1>2, <1>3

-----------------------------------------------------------------------------
(* What a step must show of the process that takes it *)

\* The other processes go on with what they do.
Alone(p) ==
  /\ proc' \in [Processes -> Operation]
  /\ \A q \in Processes \ {p} : SameWork(q)

\* No standard goes away and no version changes its number or its place.
Kept ==
  /\ Present \subseteq Present'
  /\ \A s \in StandardIds :
       /\ DOMAIN history[s] \subseteq DOMAIN history'[s]
       /\ \A i \in DOMAIN history[s] : history'[s][i].n = history[s][i].n

LEMMA StaysPlaced ==
  ASSUME TypeOK, Versions, Kept, NEW q \in Processes, SameWork(q)
  PROVE  Placed(proc[q])'
BY OperationIs DEF Versions, Placed, Kept, SameWork, Present, HasCopy, Reindexing, Backends, Indexing

\* Versions, for a step that adds none and leaves the rows.
LEMMA VersionsKeep ==
  ASSUME TypeOK, Versions, NEW p \in Processes, Alone(p), row' = row, torn \subseteq torn',
         \A s \in StandardIds : /\ DOMAIN history'[s] = DOMAIN history[s] /\ Len(history'[s]) = Len(history[s])
                                /\ \A i \in DOMAIN history[s] : history'[s][i].n = history[s][i].n
                                /\ history[s] = <<>> => history'[s] = <<>>,
         Placed(proc[p])', proc'[p].at # "save",
         proc[p].at = "save" => proc[p].std \in torn'
  PROVE  Versions'
<1>1. Kept
  BY DEF Kept, Present
<1>2. \A q \in Processes : Placed(proc[q])'
  BY <1>1, StaysPlaced DEF Alone
<1>3. \A s \in StandardIds : Numbered(s)'
  BY DEF Versions, Numbered
<1>4. SavesApart'
  BY DEF Versions, SavesApart, Alone, SameWork
<1>5. ASSUME NEW s \in Present PROVE RowNamesNewest(s)'
  <2>1. s \in StandardIds
    BY DEF Present
  <2>2. CASE row[s].current = Len(history[s]) \/ s \in torn
    BY <2>1, <2>2 DEF RowNamesNewest
  <2>3. CASE \E q \in Processes : proc[q].at = "save" /\ proc[q].std = s /\ proc[q].n = Len(history[s])
    <3>1. PICK q \in Processes : proc[q].at = "save" /\ proc[q].std = s /\ proc[q].n = Len(history[s])
      BY <2>3
    <3>2. CASE q = p
      BY <3>1, <3>2 DEF RowNamesNewest
    <3>3. CASE q # p
      BY <2>1, <3>1, <3>3 DEF RowNamesNewest, Alone, SameWork
    <3> QED BY <3>2, <3>3
  <2> QED BY <2>2, <2>3 DEF Versions, RowNamesNewest
<1>6. Present' = Present
  BY DEF Present
<1> QED BY <1>2, <1>3, <1>4, <1>5, <1>6 DEF Versions


\* Both indexes keep what they hold.
HeldGrows == \A b \in Backends : index[b].held \subseteq index'[b].held

\* What a process has written stays written.
LEMMA StaysWritten ==
  ASSUME TypeOK, HeldGrows, NEW q \in Processes, SameWork(q), Wrote(proc[q])
  PROVE  Wrote(proc[q])'
<1>1. \A b \in Backends : proc'[q].status[b] = "ACTIVE" => KeysOf(proc'[q].std, proc'[q].i) \subseteq index'[b].held
  BY DEF HeldGrows, SameWork, Wrote
<1>2. proc'[q].at = "vectors" =>
        /\ proc'[q].next \in DOMAIN Chunks
        /\ "QDRANT" \in proc'[q].targets =>
             \A k \in 1..(proc'[q].next - 1) :
               Key(proc'[q].std, proc'[q].i, Chunks[k]) \in index'["QDRANT"].held
  BY DEF HeldGrows, SameWork, Wrote, Backends
<1>3. proc'[q].at = "keywords" /\ "QDRANT" \in proc'[q].targets =>
        KeysOf(proc'[q].std, proc'[q].i) \subseteq index'["QDRANT"].held
  BY DEF HeldGrows, SameWork, Wrote, Backends
<1>4. proc'[q].at \in {"chunks", "end"} /\ proc'[q].outcome = "SUCCEEDED" =>
        \A b \in proc'[q].targets : KeysOf(proc'[q].std, proc'[q].i) \subseteq index'[b].held
  BY DEF HeldGrows, SameWork, Wrote, TypeOK, Operation
<1>5. proc'[q].at \in {"vectors", "keywords"} => proc'[q].outcome = "SUCCEEDED"
  BY DEF SameWork, Wrote
<1> QED BY <1>1, <1>2, <1>3, <1>4, <1>5 DEF Wrote, KeysOf, Key

\* A status that says ACTIVE was there before, or tells of documents that are.
StatusesKept ==
  \A s \in StandardIds : \A i \in DOMAIN history'[s], b \in Backends :
    history'[s][i].status[b] = "ACTIVE" =>
      \/ i \in DOMAIN history[s] /\ history[s][i].status[b] = "ACTIVE"
      \/ KeysOf(s, i) \subseteq index'[b].held

\* Indexed, for a step that neither starts nor settles a job.
LEMMA IndexedKeeps ==
  ASSUME TypeOK, Indexed, NEW p \in Processes, Alone(p), Kept, HeldGrows, StatusesKept,
         jobs' = jobs, orphaned \subseteq orphaned',
         proc'[p].at \in Indexing =>
           /\ Wrote(proc[p])'
           /\ proc[p].at \in Indexing /\ proc'[p].job = proc[p].job
           /\ proc'[p].std = proc[p].std /\ proc'[p].i = proc[p].i /\ proc'[p].targets = proc[p].targets,
         proc[p].at \in Indexing => proc'[p].at \in Indexing \/ proc[p].job \in orphaned'
  PROVE  Indexed'
<1>1. ASSUME NEW q \in Processes, proc'[q].at \in Indexing
      PROVE  /\ Wrote(proc[q])' /\ OwnJob(proc[q])'
             /\ proc[q].at \in Indexing /\ proc'[q].job = proc[q].job
  <2>1. CASE q = p
    BY <1>1, <2>1 DEF Indexed, OwnJob
  <2>2. CASE q # p
    <3>1. SameWork(q)
      BY <2>2 DEF Alone
    <3> QED BY <1>1, <3>1, StaysWritten DEF Indexed, OwnJob, SameWork
  <2> QED BY <2>1, <2>2
<1>2. ASSUME NEW j \in DOMAIN jobs
      PROVE  /\ jobs[j].i \in DOMAIN history'[jobs[j].std]
             /\ jobs[j].state = "RUNNING" =>
                  j \in orphaned' \/ \E q \in Processes : proc'[q].at \in Indexing /\ proc'[q].job = j
             /\ jobs[j].state = "SUCCEEDED" =>
                  \A b \in jobs[j].targets : KeysOf(jobs[j].std, jobs[j].i) \subseteq index'[b].held
  <2>1. jobs[j] \in Job
    BY DEF TypeOK
  <2>2. jobs[j].i \in DOMAIN history'[jobs[j].std]
    BY <2>1 DEF Indexed, Kept, Job
  <2>3. ASSUME jobs[j].state = "RUNNING", j \notin orphaned'
        PROVE  \E q \in Processes : proc'[q].at \in Indexing /\ proc'[q].job = j
    <3>1. PICK q \in Processes : proc[q].at \in Indexing /\ proc[q].job = j
      BY <2>3 DEF Indexed
    <3>2. CASE q = p
      BY <2>3, <3>1, <3>2
    <3>3. CASE q # p
      BY <3>1, <3>3 DEF Alone, SameWork
    <3> QED BY <3>2, <3>3
  <2>4. jobs[j].state = "SUCCEEDED" =>
          \A b \in jobs[j].targets : KeysOf(jobs[j].std, jobs[j].i) \subseteq index'[b].held
    BY <2>1 DEF Indexed, HeldGrows, Job
  <2> QED BY <2>2, <2>3, <2>4
<1>3. ASSUME NEW s \in StandardIds, NEW i \in DOMAIN history'[s], NEW b \in Backends,
             history'[s][i].status[b] = "ACTIVE"
      PROVE  KeysOf(s, i) \subseteq index'[b].held
  BY <1>3 DEF Indexed, StatusesKept, HeldGrows
<1>4. \A q, r \in Processes :
        q # r /\ proc'[q].at \in Indexing /\ proc'[r].at \in Indexing => proc'[q].job # proc'[r].job
  BY <1>1 DEF Indexed
<1>5. \A j \in DOMAIN jobs' :
        /\ jobs'[j].i \in DOMAIN history'[jobs'[j].std]
        /\ jobs'[j].state = "RUNNING" =>
             j \in orphaned' \/ \E q \in Processes : proc'[q].at \in Indexing /\ proc'[q].job = j
        /\ jobs'[j].state = "SUCCEEDED" =>
             \A b \in jobs'[j].targets : KeysOf(jobs'[j].std, jobs'[j].i) \subseteq index'[b].held
  BY <1>2
<1>6. \A s \in StandardIds : \A i \in DOMAIN history'[s], b \in Backends :
        history'[s][i].status[b] = "ACTIVE" => KeysOf(s, i) \subseteq index'[b].held
  BY <1>3
<1> QED BY <1>1, <1>4, <1>5, <1>6 DEF Indexed, KeysOf, Key

-----------------------------------------------------------------------------
(* Hiding: what a step may do to a standard that another process retires *)

\* A process touches the standard of another only as one that has been on it
\* before, and one that comes to it is noticed.
Touches(p) ==
  /\ \A q \in Processes \ {p} :
       Busy(q) /\ Busy(p)' /\ proc'[p].std = proc[q].std =>
         ~proc'[q].alone \/ (Busy(p) /\ proc[p].std = proc[q].std)
  /\ \A s \in Present : row'[s].active # row[s].active => Busy(p) /\ proc[p].std = s
  /\ \A b \in Backends : \A k \in index'[b].shown :
       k \in index[b].shown \/ (Busy(p) /\ proc[p].std = k[1])

LEMMA StaysUndisturbed ==
  ASSUME TypeOK, Versions, Hiding, NEW p \in Processes, Alone(p), Touches(p),
         NEW q \in Processes \ {p}
  PROVE  Undisturbed(q)'
<1> SUFFICES ASSUME proc'[q].alone, proc'[q].at \in {"retire"} \cup Backends
             PROVE  /\ \A r \in Processes \ {q} : Busy(r)' => proc'[r].std # proc'[q].std
                    /\ proc'[q].at \in Backends => ~row'[proc'[q].std].active
                    /\ proc'[q].at = "QDRANT" => \A k \in index'["OPENSEARCH"].shown : k[1] # proc'[q].std
  BY DEF Undisturbed, Gone
<1>1. SameWork(q)
  BY DEF Alone
<1>2. proc[q].alone /\ proc[q].at = proc'[q].at /\ proc[q].std = proc'[q].std /\ Busy(q)
  BY <1>1 DEF SameWork, Busy, Backends
<1>3. /\ \A r \in Processes \ {q} : Busy(r) => proc[r].std # proc[q].std
      /\ proc[q].at \in Backends => ~row[proc[q].std].active
      /\ proc[q].at = "QDRANT" => Gone(proc[q].std, "OPENSEARCH")
  BY <1>2 DEF Hiding, Undisturbed
<1>4. proc[q].std \in Present
  BY <1>2, OperationIs DEF Backends
<1>5. ~(Busy(p) /\ proc[p].std = proc[q].std)
  BY <1>3
<1>6. ASSUME NEW r \in Processes \ {q}, Busy(r)' PROVE proc'[r].std # proc'[q].std
  <2>1. CASE r = p
    BY <1>2, <1>5, <1>6, <2>1 DEF Touches
  <2>2. CASE r # p
    BY <1>2, <1>3, <1>6, <2>2 DEF Alone, SameWork, Busy
  <2> QED BY <2>1, <2>2
<1>7. row'[proc[q].std].active = row[proc[q].std].active
  BY <1>4, <1>5 DEF Touches
<1>8. proc'[q].at = "QDRANT" => \A k \in index'["OPENSEARCH"].shown : k[1] # proc'[q].std
  BY <1>2, <1>3, <1>5 DEF Touches, Gone, Backends
<1> QED BY <1>2, <1>3, <1>6, <1>7, <1>8

\* Hiding, for a step that holds no retired standard for active, and shows none.
LEMMA HidingKeeps ==
  ASSUME TypeOK, Versions, Hiding, NEW p \in Processes, Alone(p), Touches(p), Kept, Undisturbed(p)',
         \A s \in retired' \ retired : Retired(s)',
         \A s \in retired : /\ ~row'[s].active
                            /\ \A b \in Backends : Gone(s, b)'
                            /\ proc'[p].at \in HasCopy /\ proc'[p].std = s =>
                                 ~proc'[p].copy.active /\ proc'[p].at \notin {"update", "save"}
  PROVE  Hiding'
<1>1. \A q \in Processes : Undisturbed(q)'
  BY StaysUndisturbed
<1>2. ASSUME NEW s \in retired PROVE Retired(s)'
  <2>1. s \in Present'
    BY DEF Hiding, Retired, Kept
  <2>2. ASSUME NEW q \in Processes, proc'[q].at \in HasCopy, proc'[q].std = s
        PROVE  ~proc'[q].copy.active /\ proc'[q].at \notin {"update", "save"}
    BY <2>2 DEF Hiding, Retired, Alone, SameWork
  <2> QED BY <2>1, <2>2 DEF Retired
<1>3. \A s \in retired' : Retired(s)'
  BY <1>2
<1> QED BY <1>1, <1>3 DEF Hiding

-----------------------------------------------------------------------------
(* Registered: the sources of the rows *)

\* A standard changes its source only for one that is lost, and so is the old.
SourcesKept ==
  \A s \in Present : row'[s].source # row[s].source => {row[s].source, row'[s].source} \subseteq Dropped'

\* A standard that comes has a source that was free, or lost.
NewSourceFree(p) ==
  \A s \in Present' \ Present :
    /\ \A t \in Present' \ Present : t = s
    /\ row'[s].source \in Dropped \/ (p = Ingestor /\ Existing(row'[s].source) = {})

LEMMA StaysSourced ==
  ASSUME TypeOK, Versions, Registered, NEW p \in Processes, Alone(p), Kept,
         SourcesKept, NewSourceFree(p), stripped \subseteq stripped',
         NEW q \in Processes \ {p}
  PROVE  Sourced(proc[q])'
<1>1. SameWork(q) /\ Sourced(proc[q]) /\ (proc[q].at = "create" => q = Ingestor)
  BY DEF Alone, Registered
<1>2. Dropped \subseteq Dropped'
  BY DEF Dropped
<1>3. ASSUME proc[q].at \in HasCopy \cup {"parse"}
      PROVE  row'[proc[q].std].source # row[proc[q].std].source =>
               {row[proc[q].std].source, row'[proc[q].std].source} \subseteq Dropped'
  <2>1. proc[q].std \in Present
    BY <1>3, OperationIs DEF HasCopy, Backends, Indexing
  <2> QED BY <2>1 DEF SourcesKept
<1>4. ASSUME proc[q].at = "create"
      PROVE  (\A s \in Present' : row'[s].source # proc[q].source) \/ proc[q].source \in stripped'
  <2>1. proc[q].source # "none" /\ q = Ingestor
    BY <1>1, <1>4 DEF Versions, Placed
  <2>2. ASSUME proc[q].source \notin stripped', NEW s \in Present', row'[s].source = proc[q].source
        PROVE  FALSE
    <3>1. proc[q].source \notin Dropped' /\ proc[q].source \notin Dropped
      BY <1>2, <2>1, <2>2 DEF Dropped
    <3>2. Existing(proc[q].source) = {}
      BY <1>1, <1>4, <2>2 DEF Sourced
    <3>3. CASE s \in Present
      BY <2>2, <3>1, <3>2, <3>3 DEF SourcesKept, Existing
    <3>4. CASE s \notin Present
      BY <2>1, <2>2, <3>1, <3>4 DEF NewSourceFree
    <3> QED BY <3>3, <3>4
  <2> QED BY <2>2
<1>5. proc'[q].at \in HasCopy /\ proc'[q].copy.source # row'[proc'[q].std].source =>
        {proc'[q].copy.source, row'[proc'[q].std].source} \subseteq Dropped'
  BY <1>1, <1>2, <1>3 DEF Sourced, SameWork
<1>6. proc'[q].at \in {"update", "save"} => proc'[q].source \in {proc'[q].copy.source} \cup Dropped'
  BY <1>1, <1>2 DEF Sourced, SameWork
<1>7. proc'[q].at = "parse" /\ proc'[q].source # row'[proc'[q].std].source =>
        {proc'[q].source, row'[proc'[q].std].source} \subseteq Dropped'
  BY <1>1, <1>2, <1>3 DEF Sourced, SameWork
<1>8. proc'[q].at = "create" =>
        (\A s \in Present' : row'[s].source # proc'[q].source) \/ proc'[q].source \in stripped'
  BY <1>1, <1>4 DEF SameWork
<1> QED BY <1>5, <1>6, <1>7, <1>8 DEF Sourced, Existing

LEMMA RegisteredKeeps ==
  ASSUME TypeOK, Versions, Registered, NEW p \in Processes, Alone(p), Kept,
         SourcesKept, NewSourceFree(p), stripped \subseteq stripped',
         Sourced(proc[p])', proc'[p].at = "create" => p = Ingestor
  PROVE  Registered'
<1>1. \A q \in Processes : Sourced(proc[q])'
  BY StaysSourced
<1>2. \A q \in Processes : proc'[q].at = "create" => q = Ingestor
  BY DEF Registered, Alone, SameWork
<1>3. Dropped \subseteq Dropped'
  BY DEF Dropped
<1>4. ASSUME NEW s \in Present', NEW t \in Present', s # t,
             row'[s].source = row'[t].source, row'[s].source \notin Dropped'
      PROVE  FALSE
  <2>1. CASE s \in Present /\ t \in Present
    <3>1. row[s].source = row'[s].source /\ row[t].source = row'[t].source
      BY <1>4, <2>1 DEF SourcesKept
    <3>2. row[s].source \notin Dropped
      BY <1>3, <1>4, <3>1
    <3> QED BY <1>4, <2>1, <3>1, <3>2 DEF Registered, OneStandardPerSource, Dropped
  <2>2. CASE s \in Present /\ t \notin Present
    <3>1. row[s].source = row'[s].source
      BY <1>4, <2>2 DEF SourcesKept
    <3>2. Existing(row'[t].source) = {}
      BY <1>3, <1>4, <2>2 DEF NewSourceFree
    <3> QED BY <1>4, <2>2, <3>1, <3>2 DEF Existing
  <2>3. CASE s \notin Present /\ t \in Present
    <3>1. row[t].source = row'[t].source
      BY <1>4, <2>3 DEF SourcesKept
    <3>2. Existing(row'[s].source) = {}
      BY <1>3, <1>4, <2>3 DEF NewSourceFree
    <3> QED BY <1>4, <2>3, <3>1, <3>2 DEF Existing
  <2>4. CASE s \notin Present /\ t \notin Present
    BY <1>4, <2>4 DEF NewSourceFree
  <2> QED BY <2>1, <2>2, <2>3, <2>4
<1>5. OneStandardPerSource'
  BY <1>4 DEF OneStandardPerSource, Dropped
<1> QED BY <1>1, <1>2, <1>5 DEF Registered


-----------------------------------------------------------------------------
(* Operations that begin, and operations that end without a trace *)

\* An operation begins that has read the rows and has written nothing yet.
LEMMA BeginSafe ==
  ASSUME IInv, NEW p \in Processes, NEW op \in Operation, Begin(p, op),
         UNCHANGED <<row, history, jobs, index, torn, retired, stripped, orphaned>>,
         ops' \in Nat, faults' \in Nat,
         op.at \in {"update", "retire", "job", "index", "parse"}, Placed(op), Sourced(op),
         op.at \in HasCopy => op.copy = row[op.std],
         op.at = "update" => row[op.std].active,
         \/ ~Busy(p)
         \/ proc[p].at \in {"index", "parse"} /\ proc[p].std = op.std /\ op.at # "retire"
  PROVE  IInv'
<1> USE DEF IInv
<1>1. /\ proc' \in [Processes -> Operation]
      /\ \A q \in Processes \ {p} : SameWork(q)
      /\ \A q \in Processes \ {p} : Busy(q) /\ proc[q].std = op.std => ~proc'[q].alone
      /\ ~Busy(p) /\ proc'[p].alone => \A q \in Processes \ {p} : Busy(q) => proc[q].std # op.std
  BY BeginIs
<1>2. PICK alone \in BOOLEAN : proc'[p] = [op EXCEPT !.alone = alone]
  BY BeginIs
<1>3. /\ proc'[p].at = op.at /\ proc'[p].std = op.std /\ proc'[p].copy = op.copy /\ proc'[p].n = op.n
      /\ proc'[p].source = op.source /\ proc'[p].i = op.i
  BY <1>2 DEF Operation
<1>4. Alone(p) /\ Kept
  BY <1>1 DEF Alone, Kept, Present
<1>5. TypeOK'
  BY <1>1 DEF TypeOK
<1>6. Versions'
  <2>1. Placed(proc[p])'
    BY <1>3 DEF Placed, Present, HasCopy, Reindexing, Indexing, Backends
  <2> QED BY <1>3, <1>4, <2>1, VersionsKeep DEF Busy
<1>7. Indexed'
  BY <1>3, <1>4, IndexedKeeps DEF HeldGrows, StatusesKept, Indexing, Busy
<1>8. Hiding'
  <2>1. Touches(p)
    BY <1>1, <1>3 DEF Touches
  <2>2. Undisturbed(p)'
    <3>1. ASSUME proc'[p].alone, op.at = "retire", NEW q \in Processes \ {p}, Busy(q)'
          PROVE  proc'[q].std # op.std
      BY <1>1, <3>1 DEF Busy, SameWork
    <3> QED BY <1>3, <3>1 DEF Undisturbed, Backends
  <2>3. \A s \in retired : /\ ~row[s].active
                           /\ \A b \in Backends : Gone(s, b)'
                           /\ op.at \in HasCopy /\ op.std = s => ~op.copy.active /\ op.at \notin {"update", "save"}
    BY DEF Hiding, Retired, Gone
  <2> QED BY <1>3, <1>4, <2>1, <2>2, <2>3, HidingKeeps
<1>9. Registered'
  <2>1. Sourced(proc[p])'
    BY <1>3 DEF Sourced, Dropped, HasCopy, Indexing, Backends
  <2>2. SourcesKept /\ NewSourceFree(p) /\ Present' = Present
    BY DEF SourcesKept, NewSourceFree, Present
  <2> QED BY <1>3, <1>4, <2>1, <2>2, RegisteredKeeps
<1> QED BY <1>5, <1>6, <1>7, <1>8, <1>9

\* A process that goes on, or stops, leaves the others.
LEMMA GoesIs ==
  ASSUME TypeOK, NEW p \in Processes, NEW op \in Operation, Goes(p, op)
  PROVE  /\ Alone(p) /\ proc'[p] = op
         /\ \A q \in Processes \ {p} : proc'[q] = proc[q]
BY GoesTyped DEF Alone, SameWork

\* A process ends its operation: refused, failed, crashed or having raised.
LEMMA EndSafe ==
  ASSUME IInv, NEW p \in Processes, Goes(p, Idle),
         UNCHANGED <<row, history, jobs, index, retired, stripped>>,
         ops' \in Nat, faults' \in Nat,
         torn \subseteq torn', torn' \subseteq StandardIds,
         orphaned \subseteq orphaned', orphaned' \subseteq Nat,
         proc[p].at = "save" => proc[p].std \in torn',
         proc[p].at \in Indexing => proc[p].job \in orphaned'
  PROVE  IInv'
<1> USE DEF IInv
<1>1. Alone(p) /\ proc'[p] = Idle
  BY IdleTyped, GoesIs
<1>2. proc'[p].at = "idle"
  BY <1>1 DEF Idle
<1>3. Kept
  BY DEF Kept, Present
<1>4. TypeOK'
  BY <1>1 DEF TypeOK, Alone
<1>5. Versions'
  <2>1. Placed(proc[p])'
    BY <1>2 DEF Placed, HasCopy, Reindexing, Indexing, Backends
  <2> QED BY <1>1, <1>2, <2>1, VersionsKeep
<1>6. Indexed'
  BY <1>1, <1>2, <1>3, IndexedKeeps DEF HeldGrows, StatusesKept, Indexing
<1>7. Hiding'
  <2>1. Touches(p)
    BY <1>2 DEF Touches, Busy
  <2>2. Undisturbed(p)'
    BY <1>2 DEF Undisturbed, Backends
  <2>3. \A s \in retired : ~row[s].active /\ \A b \in Backends : Gone(s, b)'
    BY DEF Hiding, Retired, Gone
  <2>4. proc'[p].at \notin HasCopy
    BY <1>2 DEF HasCopy, Indexing, Backends
  <2> QED BY <1>1, <1>3, <2>1, <2>2, <2>3, <2>4, HidingKeeps
<1>8. Registered'
  <2>1. Sourced(proc[p])'
    BY <1>2 DEF Sourced, HasCopy, Indexing, Backends
  <2>2. SourcesKept /\ NewSourceFree(p) /\ Present' = Present
    BY DEF SourcesKept, NewSourceFree, Present
  <2> QED BY <1>1, <1>2, <1>3, <2>1, <2>2, RegisteredKeeps
<1> QED BY <1>4, <1>5, <1>6, <1>7, <1>8


\* Update of the API and of the ingestion: the source is that of the row, or
\* both are lost.
LEMMA BeginUpdateSafe ==
  ASSUME IInv, NEW p \in Processes, NEW s \in StandardIds, NEW source \in Text, NEW parsed \in BOOLEAN,
         NEW periods \in SUBSET (Dates \cup {NoDates}), BeginUpdate(p, s, source, parsed, periods), ops' \in Nat,
         ~Busy(p) \/ (proc[p].at = "parse" /\ proc[p].std = s),
         source \in {row[s].source} \cup Dropped
  PROVE  IInv'
<1>1. PICK dates \in periods :
        Begin(p, [Op("update", s) EXCEPT !.copy = row[s], !.n = NextVersion(row[s]), !.dates = dates,
                                         !.source = source, !.parsed = parsed])
  BY DEF BeginUpdate
<1> DEFINE op == [Op("update", s) EXCEPT !.copy = row[s], !.n = NextVersion(row[s]), !.dates = dates,
                                         !.source = source, !.parsed = parsed]
<1>2. row[s] \in Row /\ row[s].current + 1 \in Nat
  BY DEF IInv, TypeOK, Row
<1>3. op \in Operation
  <2>1. Op("update", s) \in Operation
    BY IdleTyped
  <2> QED BY <1>2, <2>1 DEF Operation, NextVersion
<1>4. /\ op.at = "update" /\ op.std = s /\ op.copy = row[s] /\ op.n = row[s].current + 1
      /\ op.source = source
  BY IdleTyped DEF Op, Idle, NextVersion
<1> HIDE DEF op
<1>5. s \in Present
  BY DEF BeginUpdate, Present, NoRow
<1>6. row[s].current \in DOMAIN history[s]
  BY <1>5 DEF IInv, Versions, Numbered, Present
<1>7. Placed(op)
  BY <1>4, <1>5, <1>6 DEF Placed, Reindexing, Indexing
<1>8. Sourced(op)
  BY <1>4 DEF Sourced
<1>9. Begin(p, op) /\ row[s].active
  BY <1>1 DEF op, BeginUpdate
<1>10. UNCHANGED <<row, history, jobs, index, torn, retired, stripped, orphaned>> /\ faults' \in Nat
  BY DEF BeginUpdate, Rows, Ghosts, IInv, TypeOK
<1> QED BY <1>3, <1>4, <1>7, <1>8, <1>9, <1>10, BeginSafe

LEMMA UpdateSafe ==
  ASSUME IInv, NEW p \in Processes, Update(p)
  PROVE  IInv'
<1>1. PICK s \in Present, kept \in Keeps :
        BeginUpdate(p, s, IF "source" \in kept THEN row[s].source ELSE "none",
                    "parser" \in kept /\ row[s].parsed, Dates)
  BY DEF Update
<1> DEFINE source == IF "source" \in kept THEN row[s].source ELSE "none"
           parsed == "parser" \in kept /\ row[s].parsed
<1>2. s \in StandardIds /\ row[s] \in Row
  BY DEF Present, IInv, TypeOK
<1>3. source \in Text /\ parsed \in BOOLEAN /\ source \in {row[s].source} \cup Dropped
  BY <1>2 DEF Row, Text, Dropped
<1>4. ops' \in Nat /\ ~Busy(p)
  BY DEF Update, Counted, IInv, TypeOK
<1>5. BeginUpdate(p, s, source, parsed, Dates)
  BY <1>1
<1> HIDE DEF source, parsed
<1> QED BY <1>2, <1>3, <1>4, <1>5, BeginUpdateSafe

LEMMA BeginDeactivateSafe ==
  ASSUME IInv, NEW p \in Processes, BeginDeactivate(p)
  PROVE  IInv'
<1>1. PICK s \in Present : Begin(p, [Op("retire", s) EXCEPT !.copy = row[s]])
  BY DEF BeginDeactivate
<1> DEFINE op == [Op("retire", s) EXCEPT !.copy = row[s]]
<1>2. s \in StandardIds /\ row[s] \in Row
  BY DEF Present, IInv, TypeOK
<1>3. op \in Operation
  <2>1. Op("retire", s) \in Operation
    BY <1>2, IdleTyped
  <2> QED BY <1>2, <2>1 DEF Operation
<1>4. op.at = "retire" /\ op.std = s /\ op.copy = row[s]
  BY DEF Op, Idle
<1> HIDE DEF op
<1>5. row[s].current \in DOMAIN history[s]
  BY <1>2 DEF IInv, Versions, Numbered, Present
<1>6. Placed(op) /\ Sourced(op)
  BY <1>4, <1>5 DEF Placed, Sourced, Reindexing, Indexing
<1>7. Begin(p, op) /\ ~Busy(p)
  BY <1>1 DEF op, BeginDeactivate
<1>8. /\ UNCHANGED <<row, history, jobs, index, torn, retired, stripped, orphaned>>
      /\ ops' \in Nat /\ faults' \in Nat
  BY DEF BeginDeactivate, Counted, Rows, Ghosts, IInv, TypeOK
<1> QED BY <1>3, <1>4, <1>6, <1>7, <1>8, BeginSafe

LEMMA BeginReindexSafe ==
  ASSUME IInv, NEW p \in Processes, BeginReindex(p)
  PROVE  IInv'
<1>1. PICK s \in Present : \E i \in DOMAIN history[s], targets \in SUBSET Backends \ {{}} :
        /\ \/ p \in Apis /\ ~Busy(p) /\ Counted
           \/ /\ UNCHANGED ops
              /\ p = Ingestor /\ proc[p].at = "index" /\ proc[p].std = s
              /\ proc[p].n = history[s][i].n /\ targets = Backends
        /\ Begin(p, [Op("job", s) EXCEPT !.copy = row[s], !.i = i, !.targets = targets])
  BY DEF BeginReindex
<1>2. PICK i \in DOMAIN history[s], targets \in SUBSET Backends :
        /\ \/ p \in Apis /\ ~Busy(p) /\ Counted
           \/ UNCHANGED ops /\ proc[p].at = "index" /\ proc[p].std = s
        /\ Begin(p, [Op("job", s) EXCEPT !.copy = row[s], !.i = i, !.targets = targets])
  BY <1>1
<1> DEFINE op == [Op("job", s) EXCEPT !.copy = row[s], !.i = i, !.targets = targets]
<1>3. s \in StandardIds /\ row[s] \in Row /\ history[s] \in Seq(Version)
  BY DEF Present, IInv, TypeOK
<1>4. i \in Nat
  BY <1>3
<1>5. op \in Operation
  <2>1. Op("job", s) \in Operation
    BY <1>3, IdleTyped
  <2> QED BY <1>3, <1>4, <2>1 DEF Operation
<1>6. op.at = "job" /\ op.std = s /\ op.copy = row[s] /\ op.i = i
  BY DEF Op, Idle
<1> HIDE DEF op
<1>7. row[s].current \in DOMAIN history[s]
  BY <1>3 DEF IInv, Versions, Numbered, Present
<1>8. Placed(op) /\ Sourced(op)
  BY <1>6, <1>7 DEF Placed, Sourced, Reindexing, Indexing
<1>9. Begin(p, op) /\ (~Busy(p) \/ (proc[p].at = "index" /\ proc[p].std = s))
  BY <1>2 DEF op
<1>10. /\ UNCHANGED <<row, history, jobs, index, torn, retired, stripped, orphaned>>
       /\ ops' \in Nat /\ faults' \in Nat
  BY <1>2 DEF BeginReindex, Counted, Rows, Ghosts, IInv, TypeOK
<1> QED BY <1>5, <1>6, <1>8, <1>9, <1>10, BeginSafe

\* The ingestion: a file that is known is indexed or parsed again; for one
\* that is not, nothing is written yet.
LEMMA IngestSafe ==
  ASSUME IInv, Ingest
  PROVE  IInv'
<1>1. /\ ~Busy(Ingestor) /\ Ingestor \in Processes
      /\ UNCHANGED <<row, history, jobs, index, torn, retired, stripped, orphaned>>
      /\ ops' \in Nat /\ faults' \in Nat
  <2>1. Counted /\ UNCHANGED <<Rows, index, faults, Ghosts>> /\ ~Busy(Ingestor)
    BY DEF Ingest
  <2> QED BY <2>1 DEF Counted, Rows, Ghosts, Processes, IInv, TypeOK
<1>2. PICK source \in Sources :
        \/ /\ Existing(source) = {}
           /\ Goes(Ingestor, [Op("create", "none") EXCEPT !.source = source, !.alone = TRUE])
        \/ \E s \in Existing(source) :
              Begin(Ingestor, IF row[s].parsed
                              THEN [Op("index", s) EXCEPT !.n = row[s].current]
                              ELSE [Op("parse", s) EXCEPT !.n = row[s].current, !.source = source])
  BY DEF Ingest, Goes
<1>3. source \in Text /\ source # "none"
  BY NoneIsFree DEF Text
<1>4. ASSUME NEW s \in Existing(source),
             Begin(Ingestor, IF row[s].parsed
                             THEN [Op("index", s) EXCEPT !.n = row[s].current]
                             ELSE [Op("parse", s) EXCEPT !.n = row[s].current, !.source = source])
      PROVE  IInv'
  <2>1. s \in Present /\ s \in StandardIds /\ row[s] \in Row /\ row[s].source = source
    BY DEF Existing, Present, IInv, TypeOK
  <2>2. CASE row[s].parsed
    <3> DEFINE op == [Op("index", s) EXCEPT !.n = row[s].current]
    <3>1. op \in Operation
      <4>1. Op("index", s) \in Operation
        BY <2>1, IdleTyped
      <4> QED BY <2>1, <4>1 DEF Operation, Row
    <3>2. op.at = "index" /\ op.std = s
      BY DEF Op, Idle
    <3>3. Begin(Ingestor, op)
      BY <1>4, <2>2
    <3> HIDE DEF op
    <3>4. Placed(op) /\ Sourced(op)
      BY <2>1, <3>2 DEF Placed, Sourced, HasCopy, Reindexing, Indexing, Backends
    <3> QED BY <1>1, <3>1, <3>2, <3>3, <3>4, BeginSafe DEF HasCopy, Indexing, Backends
  <2>3. CASE ~row[s].parsed
    <3> DEFINE op == [Op("parse", s) EXCEPT !.n = row[s].current, !.source = source]
    <3>1. op \in Operation
      <4>1. Op("parse", s) \in Operation
        BY <2>1, IdleTyped
      <4> QED BY <1>3, <2>1, <4>1 DEF Operation, Row
    <3>2. op.at = "parse" /\ op.std = s /\ op.source = source
      BY DEF Op, Idle
    <3>3. Begin(Ingestor, op)
      BY <1>4, <2>3
    <3> HIDE DEF op
    <3>4. Placed(op) /\ Sourced(op)
      BY <2>1, <3>2 DEF Placed, Sourced, HasCopy, Reindexing, Indexing, Backends
    <3> QED BY <1>1, <3>1, <3>2, <3>3, <3>4, BeginSafe DEF HasCopy, Indexing, Backends
  <2> QED BY <2>2, <2>3
<1>5. ASSUME Existing(source) = {},
             Goes(Ingestor, [Op("create", "none") EXCEPT !.source = source, !.alone = TRUE])
      PROVE  IInv'
  <2> DEFINE op == [Op("create", "none") EXCEPT !.source = source, !.alone = TRUE]
  <2>1. op \in Operation
    <3>1. Op("create", "none") \in Operation
      BY IdleTyped
    <3> QED BY <1>3, <3>1 DEF Operation
  <2>2. op.at = "create" /\ op.std = "none" /\ op.source = source
    BY DEF Op, Idle
  <2>3. Goes(Ingestor, op)
    BY <1>5
  <2> HIDE DEF op
  <2> USE DEF IInv
  <2>4. Alone(Ingestor) /\ proc'[Ingestor] = op /\ Kept
    BY <1>1, <2>1, <2>3, GoesIs DEF Kept, Present
  <2>5. TypeOK'
    BY <1>1, <2>4 DEF TypeOK, Alone
  <2>6. Versions'
    <3>1. Placed(proc[Ingestor])'
      BY <1>3, <2>2, <2>4 DEF Placed, HasCopy, Reindexing, Indexing, Backends
    <3> QED BY <1>1, <2>2, <2>4, <3>1, VersionsKeep DEF Busy
  <2>7. Indexed'
    BY <1>1, <2>2, <2>4, IndexedKeeps DEF HeldGrows, StatusesKept, Indexing, Busy
  <2>8. Hiding'
    <3>1. Touches(Ingestor)
      <4>1. \A q \in Processes : Busy(q) /\ proc[q].std = "none" => q = Ingestor
        BY NoneIsFree, OperationIs DEF Registered, Busy
      <4> QED BY <1>1, <2>2, <2>4, <4>1 DEF Touches
    <3>2. Undisturbed(Ingestor)'
      BY <2>2, <2>4 DEF Undisturbed, Backends
    <3>3. \A s \in retired : ~row[s].active /\ \A b \in Backends : Gone(s, b)'
      BY <1>1 DEF Hiding, Retired, Gone
    <3>4. op.at \notin HasCopy
      BY <2>2 DEF HasCopy, Indexing, Backends
    <3> QED BY <1>1, <2>4, <3>1, <3>2, <3>3, <3>4, HidingKeeps
  <2>9. Registered'
    <3>1. Sourced(proc[Ingestor])'
      BY <1>1, <1>5, <2>2, <2>4 DEF Sourced, Existing, Present, HasCopy, Indexing, Backends
    <3>2. SourcesKept /\ NewSourceFree(Ingestor) /\ Present' = Present
      BY <1>1 DEF SourcesKept, NewSourceFree, Present
    <3> QED BY <1>1, <2>4, <3>1, <3>2, RegisteredKeeps
  <2> QED BY <2>5, <2>6, <2>7, <2>8, <2>9
<1> QED BY <1>2, <1>4, <1>5

\* The file has been parsed again.
LEMMA ReparsedSafe ==
  ASSUME IInv, Reparsed
  PROVE  IInv'
<1> DEFINE op == proc[Ingestor]
           read == {history[op.std][i].dates : i \in {j \in DOMAIN history[op.std] : history[op.std][j].n = op.n}}
<1>1. Ingestor \in Processes /\ op.at = "parse"
  BY DEF Reparsed, Processes
<1>2. op \in Operation /\ op.std \in StandardIds
  BY <1>1, OperationIs DEF IInv
<1>3. CASE BeginUpdate(Ingestor, op.std, op.source, TRUE, read) /\ UNCHANGED ops
  <2>1. history[op.std] \in Seq(Version)
    BY <1>2 DEF IInv, TypeOK
  <2>2. read \in SUBSET (Dates \cup {NoDates})
    <3>1. \A i \in DOMAIN history[op.std] : history[op.std][i] \in Version
      BY <2>1
    <3> QED BY <3>1 DEF Version
  <2>3. op.source \in Text /\ ops' \in Nat
    BY <1>2, <1>3 DEF Operation, IInv, TypeOK
  <2>4. op.source \in {row[op.std].source} \cup Dropped
    BY <1>1 DEF IInv, Registered, Sourced
  <2> HIDE DEF read
  <2> QED BY <1>1, <1>2, <1>3, <2>2, <2>3, <2>4, BeginUpdateSafe
<1>4. CASE Goes(Ingestor, Idle) /\ UNCHANGED <<Rows, index, ops, faults, Ghosts>>
  <2>1. /\ UNCHANGED <<row, history, jobs, index, torn, retired, stripped, orphaned>>
        /\ ops' \in Nat /\ faults' \in Nat
        /\ torn' \subseteq StandardIds /\ orphaned' \subseteq Nat
    BY <1>4 DEF Rows, Ghosts, IInv, TypeOK
  <2> QED BY <1>1, <1>4, <2>1, EndSafe DEF Indexing
<1> QED BY <1>3, <1>4 DEF Reparsed

LEMMA StopsSafe ==
  ASSUME IInv, NEW p \in Processes, Busy(p), Stops(p)
  PROVE  IInv'
<1>1. proc[p] \in Operation /\ (proc[p].at = "save" => proc[p].std \in StandardIds)
  BY OperationIs DEF IInv
<1>2. torn' \subseteq StandardIds /\ orphaned' \subseteq Nat
  BY <1>1 DEF Stops, IInv, TypeOK, Operation
<1>3. ops' \in Nat /\ faults' \in Nat
  BY DEF Stops, IInv, TypeOK
<1>4. /\ Goes(p, Idle) /\ UNCHANGED <<row, history, jobs, index, retired, stripped>>
      /\ torn \subseteq torn' /\ orphaned \subseteq orphaned'
      /\ proc[p].at = "save" => proc[p].std \in torn'
      /\ proc[p].at \in Indexing => proc[p].job \in orphaned'
  BY DEF Stops, Rows
<1> QED BY <1>2, <1>3, <1>4, EndSafe


-----------------------------------------------------------------------------
(* Registration *)

\* A standard comes: nobody is on it, and it has one version.
LEMMA InsertedSafe ==
  ASSUME IInv, StandardIds # Present, NEW source \in Text, NEW parsed \in BOOLEAN, NEW dates \in Dates,
         Inserted(NewId, source, parsed, dates), NEW p \in Processes, Alone(p), ops' \in Nat,
         proc[p].at \in {"idle", "create"},
         proc'[p].at = "idle" \/ (proc'[p].at = "index" /\ proc'[p].std = NewId),
         source \in Dropped \/ (p = Ingestor /\ Existing(source) = {})
  PROVE  IInv'
<1> DEFINE s == NewId
           new == [n |-> 1, dates |-> dates, status |-> Pending]
           fresh == [active |-> TRUE, current |-> 1, source |-> source, parsed |-> parsed]
<1> USE DEF IInv
<1>1. s \in StandardIds /\ s \notin Present
  BY NewIdIs
<1> HIDE DEF s
<1>2. /\ row' = [row EXCEPT ![s] = fresh] /\ history' = [history EXCEPT ![s] = <<new>>]
      /\ UNCHANGED <<jobs, index, faults, torn, retired, stripped, orphaned>>
  BY DEF Inserted, Ghosts, s
<1>3. new \in Version /\ fresh \in Row /\ fresh # NoRow
  BY IdleTyped DEF Version, Row, NoRow
<1>4. /\ row'[s] = fresh /\ history'[s] = <<new>>
      /\ \A t \in StandardIds \ {s} : row'[t] = row[t] /\ history'[t] = history[t]
  BY <1>1, <1>2 DEF TypeOK
<1>5. history[s] = <<>> /\ row[s] = NoRow
  BY <1>1 DEF Versions, Numbered, Present
<1>6. Present' = Present \cup {s} /\ \A t \in Present : t \in StandardIds \ {s}
  BY <1>1, <1>3, <1>4 DEF Present
<1>7. /\ DOMAIN <<new>> = {1} /\ Len(<<new>>) = 1 /\ <<new>>[1] = new /\ new.n = 1
      /\ \A b \in Backends : new.status[b] = "PENDING"
  BY DEF Pending
<1> HIDE DEF new
<1>8. Kept
  BY <1>4, <1>5, <1>6 DEF Kept
<1>9. TypeOK'
  <2>1. <<new>> \in Seq(Version)
    BY <1>3
  <2>2. row' \in [StandardIds -> Row] /\ history' \in [StandardIds -> Seq(Version)]
    BY <1>2, <1>3, <2>1 DEF TypeOK
  <2>3. jobs' \in Seq(Job)
    BY <1>2 DEF TypeOK
  <2> QED BY <1>2, <2>2, <2>3 DEF TypeOK, Alone
<1>10. Versions'
  <2>1. Placed(proc[p])'
    BY <1>6 DEF Placed, HasCopy, Reindexing, Indexing, Backends, s
  <2>2. \A q \in Processes : Placed(proc[q])'
    BY <1>8, <2>1, StaysPlaced DEF Alone
  <2>3. \A t \in StandardIds : Numbered(t)'
    BY <1>3, <1>4, <1>7 DEF Versions, Numbered, fresh
  <2>4. SavesApart'
    BY DEF Versions, SavesApart, Alone, SameWork
  <2>5. ASSUME NEW t \in Present' PROVE RowNamesNewest(t)'
    <3>1. CASE t = s
      <4>1. row'[t].current = 1 /\ Len(history'[t]) = 1
        BY <1>4, <1>7, <3>1
      <4> QED BY <4>1 DEF RowNamesNewest
    <3>2. CASE t # s
      <4>1. t \in Present /\ row'[t] = row[t] /\ history'[t] = history[t]
        BY <1>4, <1>6, <3>2
      <4>2. ASSUME NEW q \in Processes, proc[q].at = "save"
            PROVE  proc'[q].at = "save" /\ proc'[q].std = proc[q].std /\ proc'[q].n = proc[q].n
        BY <4>2 DEF Alone, SameWork
      <4>3. RowNamesNewest(t)
        BY <4>1 DEF Versions
      <4>4. CASE row[t].current = Len(history[t]) \/ t \in torn
        BY <1>2, <4>1, <4>4 DEF RowNamesNewest
      <4>5. CASE \E q \in Processes : proc[q].at = "save" /\ proc[q].std = t /\ proc[q].n = Len(history[t])
        BY <4>1, <4>2, <4>5 DEF RowNamesNewest
      <4> QED BY <4>3, <4>4, <4>5 DEF RowNamesNewest
    <3> QED BY <3>1, <3>2
  <2> QED BY <2>2, <2>3, <2>4, <2>5 DEF Versions
<1>11. Indexed'
  <2>1. StatusesKept
    BY <1>4, <1>7 DEF StatusesKept
  <2> QED BY <1>2, <1>8, <2>1, IndexedKeeps DEF HeldGrows, Indexing
<1>12. Hiding'
  <2>1. Touches(p)
    <3>1. ASSUME NEW q \in Processes, Busy(q), proc[q].std = s PROVE FALSE
      BY <1>1, <3>1, OperationIs, NoneIsFree DEF Busy, Versions, Placed
    <3> QED BY <1>2, <1>4, <1>6, <3>1 DEF Touches, Busy, s
  <2>2. Undisturbed(p)'
    BY DEF Undisturbed, Backends
  <2>3. \A t \in retired : ~row'[t].active /\ \A b \in Backends : Gone(t, b)'
    BY <1>2, <1>4, <1>6 DEF Hiding, Retired, Gone
  <2>4. proc'[p].at \notin HasCopy
    BY DEF HasCopy, Indexing, Backends
  <2> QED BY <1>2, <1>8, <2>1, <2>2, <2>3, <2>4, HidingKeeps
<1>13. Registered'
  <2>1. Sourced(proc[p])'
    BY DEF Sourced, HasCopy, Indexing, Backends
  <2>2. SourcesKept
    BY <1>4, <1>6 DEF SourcesKept
  <2>3. NewSourceFree(p)
    BY <1>4, <1>6 DEF NewSourceFree, fresh
  <2> QED BY <1>2, <1>8, <2>1, <2>2, <2>3, RegisteredKeeps
<1> QED BY <1>9, <1>10, <1>11, <1>12, <1>13

LEMMA CreateSafe ==
  ASSUME IInv, NEW p \in Processes, Create(p)
  PROVE  IInv'
<1>1. PICK dates \in Dates : Inserted(NewId, "none", FALSE, dates)
  BY DEF Create
<1>2. Alone(p) /\ proc'[p].at = "idle" /\ proc[p].at = "idle"
  BY DEF Create, Alone, SameWork, Busy, IInv, TypeOK
<1>3. ops' \in Nat /\ StandardIds # Present
  BY DEF Create, Counted, IInv, TypeOK
<1> QED BY <1>1, <1>2, <1>3, InsertedSafe DEF Text, Dropped

LEMMA IngestNewSafe ==
  ASSUME IInv, IngestNew
  PROVE  IInv'
<1> DEFINE p == Ingestor
           op == [Op("index", NewId) EXCEPT !.n = 1]
<1>1. /\ p \in Processes /\ proc[p].at = "create" /\ StandardIds # Present
      /\ Begin(p, op) /\ ops' \in Nat
  BY DEF IngestNew, Processes, IInv, TypeOK
<1>2. PICK dates \in Dates : Inserted(NewId, proc[p].source, TRUE, dates)
  BY DEF IngestNew
<1>3. NewId \in StandardIds
  BY <1>1, NewIdIs
<1>4. op \in Operation
  <2>1. Op("index", NewId) \in Operation
    BY <1>3, IdleTyped
  <2> QED BY <2>1 DEF Operation
<1>5. op.at = "index" /\ op.std = NewId
  BY DEF Op, Idle
<1> HIDE DEF op
<1>6. Alone(p) /\ \E alone \in BOOLEAN : proc'[p] = [op EXCEPT !.alone = alone]
  BY <1>1, <1>4, BeginIs DEF Alone, IInv
<1>7. proc'[p].at = "index" /\ proc'[p].std = NewId
  BY <1>4, <1>5, <1>6 DEF Operation
<1>8. proc[p].source \in Text /\ (proc[p].source \in Dropped \/ Existing(proc[p].source) = {})
  BY <1>1, OperationIs DEF IInv, Operation, Registered, Sourced, Dropped
<1> QED BY <1>1, <1>2, <1>6, <1>7, <1>8, InsertedSafe

-----------------------------------------------------------------------------
(* A new version *)

\* A version is added with the number after the newest one, or refused.
LEMMA AddVersionSafe ==
  ASSUME IInv, NEW p \in Processes, AddVersion(p)
  PROVE  IInv'
<1> USE DEF IInv
<1>a. PICK op \in Operation, s \in StandardIds : op = proc[p] /\ s = op.std /\ op.at = "update"
  BY OperationIs DEF AddVersion
<1> DEFINE new == [n |-> op.n, dates |-> op.dates, status |-> Pending]
<1>1. /\ op.at = "update" /\ op = proc[p] /\ s = op.std /\ s \in Present
      /\ history[s] \in Seq(Version)
  BY <1>a, OperationIs DEF TypeOK
<1>2. UNCHANGED <<row, jobs, index, ops, faults, torn, retired, stripped, orphaned>>
  BY DEF AddVersion, Ghosts
<1>3. CASE NumberTaken(s, op.n)
  <2>1. Goes(p, Idle) /\ UNCHANGED history
    BY <1>1, <1>3 DEF AddVersion
  <2> QED BY <1>1, <1>2, <2>1, EndSafe DEF Indexing, TypeOK
<1>4. CASE ~NumberTaken(s, op.n)
  <2>1. history' = [history EXCEPT ![s] = Append(history[s], new)] /\ Goes(p, [op EXCEPT !.at = "save"])
    BY <1>1, <1>4 DEF AddVersion
  <2>2. op.n = Len(history[s]) + 1
    <3>1. op.copy.current \in DOMAIN history[s] /\ op.n = op.copy.current + 1
      BY <1>1 DEF Versions, Placed, HasCopy
    <3>2. op.n \notin DOMAIN history[s]
      BY <1>1, <1>4 DEF NumberTaken, Versions, Numbered
    <3>3. DOMAIN history[s] = 1..Len(history[s]) /\ Len(history[s]) \in Nat
      BY <1>1
    <3> QED BY <3>1, <3>2, <3>3
  <2>3. new \in Version
    BY <1>1, IdleTyped DEF Version, Operation
  <2>4. new.n = op.n /\ \A b \in Backends : new.status[b] = "PENDING"
    BY DEF Pending
  <2> HIDE DEF new
  <2>5. /\ history'[s] = Append(history[s], new) /\ history'[s] \in Seq(Version)
        /\ Len(history'[s]) = Len(history[s]) + 1
        /\ DOMAIN history'[s] = DOMAIN history[s] \cup {op.n}
        /\ \A i \in DOMAIN history[s] : history'[s][i] = history[s][i]
        /\ history'[s][op.n] = new
        /\ op.n \notin DOMAIN history[s]
    BY <1>1, <2>1, <2>2, <2>3 DEF TypeOK
  <2>6. \A t \in StandardIds \ {s} : history'[t] = history[t]
    BY <2>1 DEF TypeOK
  <2>7. [op EXCEPT !.at = "save"] \in Operation
    BY <1>1 DEF Operation, Places
  <2>8. /\ Alone(p) /\ \A q \in Processes \ {p} : proc'[q] = proc[q]
        /\ proc'[p] = [op EXCEPT !.at = "save"]
    BY <2>1, <2>7, GoesIs
  <2>9. /\ proc'[p].at = "save" /\ proc'[p].std = s /\ proc'[p].copy = op.copy /\ proc'[p].n = op.n
        /\ proc'[p].source = op.source /\ proc'[p].alone = op.alone
    BY <1>1, <2>8 DEF Operation
  <2>10. Kept
    BY <1>2, <2>5, <2>6 DEF Kept, Present
  <2>11. TypeOK'
    <3>1. history' \in [StandardIds -> Seq(Version)]
      BY <2>1, <2>5, <2>6 DEF TypeOK
    <3> QED BY <1>2, <2>8, <3>1 DEF TypeOK, Alone
  <2>12. Versions'
    <3>1. Placed(proc[p])'
      BY <1>1, <1>2, <2>5, <2>9 DEF Versions, Placed, Present, HasCopy, Reindexing, Indexing
    <3>2. \A q \in Processes : Placed(proc[q])'
      BY <2>8, <2>10, <3>1, StaysPlaced DEF Alone
    <3>3. \A t \in StandardIds : Numbered(t)'
      <4>1. Numbered(s)'
        <5>1. /\ \A i \in DOMAIN history[s] : history[s][i].n = i
              /\ row[s] # NoRow /\ row[s].current \in DOMAIN history[s]
          BY <1>1 DEF Versions, Numbered, Present
        <5>2. \A i \in DOMAIN history'[s] : history'[s][i].n = i
          BY <2>4, <2>5, <5>1
        <5>3. row'[s] # NoRow /\ row'[s].current \in DOMAIN history'[s]
          BY <1>2, <2>5, <5>1
        <5> QED BY <5>2, <5>3 DEF Numbered
      <4>2. ASSUME NEW t \in StandardIds \ {s} PROVE Numbered(t)'
        <5>1. Numbered(t) /\ history'[t] = history[t] /\ row' = row
          BY <1>2, <2>6 DEF Versions
        <5> QED BY <5>1 DEF Numbered
      <4> QED BY <4>1, <4>2
    <3>4. SavesApart'
      <4>1. ASSUME NEW q \in Processes \ {p}, proc[q].at = "save", proc[q].std = s PROVE proc[q].n # op.n
        <5>1. proc[q].n \in DOMAIN history[s]
          BY <4>1 DEF Versions, Placed
        <5> QED BY <2>5, <5>1
      <4>2. ASSUME NEW q \in Processes, NEW r \in Processes, q # r, proc'[q].at = "save", proc'[r].at = "save",
                   proc'[q].std = proc'[r].std
            PROVE  proc'[q].n # proc'[r].n
        <5>1. CASE q # p /\ r # p
          BY <2>8, <4>2, <5>1 DEF Versions, SavesApart
        <5>2. CASE q = p /\ r # p
          <6>1. proc'[r] = proc[r] /\ proc[r].at = "save" /\ proc[r].std = s
            BY <2>8, <2>9, <4>2, <5>2
          <6>2. proc[r].n # op.n
            BY <4>1, <5>2, <6>1
          <6> QED BY <2>9, <5>2, <6>1, <6>2
        <5>3. CASE q # p /\ r = p
          BY <2>8, <2>9, <4>1, <4>2, <5>3
        <5> QED BY <4>2, <5>1, <5>2, <5>3
      <4> QED BY <4>2 DEF SavesApart
    <3>5. ASSUME NEW t \in Present PROVE RowNamesNewest(t)'
      <4>1. CASE t = s
        BY <2>2, <2>5, <2>9, <4>1 DEF RowNamesNewest
      <4>2. CASE t # s
        <5>1. t \in StandardIds \ {s} /\ RowNamesNewest(t)
          BY <4>2 DEF Versions, Present
        <5>2. ASSUME NEW q \in Processes, proc[q].at = "save" PROVE proc'[q] = proc[q]
          BY <1>1, <2>8, <5>2
        <5> QED BY <1>2, <2>6, <5>1, <5>2 DEF RowNamesNewest
      <4> QED BY <4>1, <4>2
    <3>6. Present' = Present
      BY <1>2 DEF Present
    <3> QED BY <3>2, <3>3, <3>4, <3>5, <3>6 DEF Versions
  <2>13. Indexed'
    <3>1. StatusesKept
      BY <2>4, <2>5, <2>6 DEF StatusesKept
    <3> QED BY <1>1, <1>2, <2>8, <2>9, <2>10, <3>1, IndexedKeeps DEF HeldGrows, Indexing
  <2>14. Hiding'
    <3>1. Touches(p)
      BY <1>1, <1>2, <2>9 DEF Touches, Busy
    <3>2. Undisturbed(p)'
      BY <2>9 DEF Undisturbed, Backends
    <3>3. s \notin retired
      BY <1>1 DEF Hiding, Retired, HasCopy
    <3>4. \A t \in retired : ~row[t].active /\ \A b \in Backends : Gone(t, b)'
      BY <1>2 DEF Hiding, Retired, Gone
    <3> QED BY <1>2, <2>8, <2>9, <2>10, <3>1, <3>2, <3>3, <3>4, HidingKeeps
  <2>15. Registered'
    <3>1. Sourced(proc[p])'
      BY <1>1, <1>2, <2>9 DEF Registered, Sourced, HasCopy, Dropped
    <3>2. SourcesKept /\ NewSourceFree(p) /\ Present' = Present
      BY <1>2 DEF SourcesKept, NewSourceFree, Present
    <3> QED BY <1>2, <2>8, <2>9, <2>10, <3>1, <3>2, RegisteredKeeps
  <2> QED BY <2>11, <2>12, <2>13, <2>14, <2>15
<1> QED BY <1>3, <1>4


\* The row follows the version: it is the newest, unless the row was stale.
LEMMA SaveUpdateSafe ==
  ASSUME IInv, NEW p \in Processes, SaveUpdate(p)
  PROVE  IInv'
<1> USE DEF IInv
<1>1. PICK op \in Operation, s \in StandardIds : op = proc[p] /\ s = op.std /\ op.at = "save"
  BY OperationIs DEF SaveUpdate
<1> DEFINE new == [active |-> op.copy.active, current |-> op.n, source |-> op.source, parsed |-> op.parsed]
<1>2. /\ UNCHANGED <<history, jobs, index, ops, faults, retired, orphaned>>
      /\ row' = [row EXCEPT ![s] = new]
      /\ torn' = (IF row[s] # op.copy THEN torn \cup {s} ELSE torn)
      /\ stripped' = (IF op.source # op.copy.source THEN stripped \cup {op.copy.source} ELSE stripped)
      /\ Ends(p)
  BY <1>1 DEF SaveUpdate, Stale
<1>3. /\ s \in Present /\ op.copy.current \in DOMAIN history[s] /\ op.n = op.copy.current + 1
      /\ op.n \in DOMAIN history[s] /\ history[s] \in Seq(Version)
  BY <1>1 DEF Versions, Placed, HasCopy, TypeOK
<1>4. DOMAIN history[s] = 1..Len(history[s]) /\ Len(history[s]) \in Nat
  BY <1>3
<1>5. new \in Row /\ new # NoRow
  BY <1>1, <1>3, <1>4 DEF Operation, Row, NoRow
<1>6. new.current = op.n /\ new.source = op.source /\ new.active = op.copy.active
  OBVIOUS
<1> HIDE DEF new
<1>7. row'[s] = new /\ \A t \in StandardIds \ {s} : row'[t] = row[t]
  BY <1>2 DEF TypeOK
<1>8. Present' = Present
  BY <1>3, <1>5, <1>7 DEF Present
<1>9. /\ Alone(p) /\ \A q \in Processes \ {p} : proc'[q] = proc[q]
      /\ proc'[p].at = "idle" \/ (proc'[p].at = "index" /\ proc'[p].std = s)
  <2>1. CASE p = Ingestor
    <3> DEFINE o == [Op("index", s) EXCEPT !.n = op.n, !.alone = op.alone]
    <3>1. Op("index", s) \in Operation
      BY IdleTyped
    <3>2. o \in Operation
      BY <3>1 DEF Operation
    <3>3. o.at = "index" /\ o.std = s
      BY DEF Op, Idle
    <3>4. Goes(p, o)
      BY <1>1, <1>2, <2>1 DEF Ends
    <3> HIDE DEF o
    <3> QED BY <3>2, <3>3, <3>4, GoesIs
  <2>2. CASE p # Ingestor
    <3>1. Goes(p, Idle)
      BY <1>2, <2>2 DEF Ends
    <3> QED BY <3>1, IdleTyped, GoesIs DEF Idle
  <2> QED BY <2>1, <2>2
<1>10. Kept
  BY <1>2, <1>8 DEF Kept
<1>11. TypeOK'
  <2>1. row' \in [StandardIds -> Row]
    BY <1>2, <1>5 DEF TypeOK
  <2>2. torn' \subseteq StandardIds /\ stripped' \subseteq Text
    BY <1>1, <1>2 DEF TypeOK, Operation, Row
  <2> QED BY <1>2, <1>9, <2>1, <2>2 DEF TypeOK, Alone
<1>12. Versions'
  <2>1. Placed(proc[p])'
    BY <1>3, <1>8, <1>9 DEF Placed, HasCopy, Reindexing, Indexing, Backends
  <2>2. \A q \in Processes : Placed(proc[q])'
    BY <1>9, <1>10, <2>1, StaysPlaced DEF Alone
  <2>3. ASSUME NEW t \in StandardIds PROVE Numbered(t)'
    <3>1. Numbered(t) /\ history' = history
      BY <1>2 DEF Versions
    <3>2. CASE t = s
      BY <1>3, <1>5, <1>6, <1>7, <3>1, <3>2 DEF Numbered
    <3>3. CASE t # s
      BY <1>7, <3>1, <3>3 DEF Numbered
    <3> QED BY <3>2, <3>3
  <2>4. SavesApart'
    BY <1>9 DEF Versions, SavesApart
  <2>5. ASSUME NEW t \in Present PROVE RowNamesNewest(t)'
    <3>1. RowNamesNewest(t) /\ t \in StandardIds /\ history' = history /\ torn \subseteq torn'
      BY <1>2 DEF Versions, Present
    <3>2. ASSUME NEW q \in Processes \ {p}, proc[q].at = "save", proc[q].std = t, proc[q].n = Len(history[t])
          PROVE  RowNamesNewest(t)'
      BY <1>2, <1>9, <3>2 DEF RowNamesNewest
    <3>3. CASE t # s
      <4>1. row'[t] = row[t] /\ proc[p].std # t
        BY <1>1, <1>7, <3>1, <3>3
      <4> QED BY <3>1, <3>2, <4>1 DEF RowNamesNewest
    <3>4. CASE t = s
      <4>1. CASE s \in torn' \/ op.n = Len(history[s])
        BY <1>6, <1>7, <3>1, <3>4, <4>1 DEF RowNamesNewest
      <4>2. CASE s \notin torn' /\ op.n # Len(history[s])
        <5>1. row[s].current # Len(history[s]) /\ s \notin torn
          BY <1>2, <1>3, <1>4, <4>2
        <5> QED BY <1>1, <3>1, <3>2, <3>4, <4>2, <5>1 DEF RowNamesNewest
      <4> QED BY <4>1, <4>2
    <3> QED BY <3>3, <3>4
  <2> QED BY <1>8, <2>2, <2>3, <2>4, <2>5 DEF Versions
<1>13. Indexed'
  BY <1>1, <1>2, <1>9, <1>10, IndexedKeeps DEF HeldGrows, StatusesKept, Indexing
<1>14. Hiding'
  <2>1. Touches(p)
    BY <1>1, <1>2, <1>7, <1>9 DEF Touches, Busy, Present
  <2>2. Undisturbed(p)'
    BY <1>9 DEF Undisturbed, Backends
  <2>3. s \notin retired
    BY <1>1 DEF Hiding, Retired, HasCopy
  <2>4. \A t \in retired : ~row'[t].active /\ \A b \in Backends : Gone(t, b)'
    BY <1>2, <1>7, <2>3 DEF Hiding, Retired, Gone, Present
  <2>5. proc'[p].at \notin HasCopy
    BY <1>9 DEF HasCopy, Indexing, Backends
  <2> QED BY <1>2, <1>9, <1>10, <2>1, <2>2, <2>4, <2>5, HidingKeeps
<1>15. Registered'
  <2>1. Sourced(proc[p])'
    BY <1>9 DEF Sourced, HasCopy, Indexing, Backends
  <2>2. SourcesKept
    <3>1. /\ op.copy.source # row[s].source => {op.copy.source, row[s].source} \subseteq Dropped
          /\ op.source \in {op.copy.source} \cup Dropped
      BY <1>1 DEF Registered, Sourced, HasCopy
    <3>2. Dropped \subseteq Dropped' /\ (op.source # op.copy.source => op.copy.source \in Dropped')
      BY <1>2 DEF Dropped
    <3>3. new.source # row[s].source => {row[s].source, new.source} \subseteq Dropped'
      BY <1>6, <3>1, <3>2
    <3> QED BY <1>7, <3>3 DEF SourcesKept, Present
  <2>3. NewSourceFree(p)
    BY <1>8 DEF NewSourceFree
  <2>4. stripped \subseteq stripped'
    BY <1>2
  <2> QED BY <1>9, <1>10, <2>1, <2>2, <2>3, <2>4, RegisteredKeeps
<1> QED BY <1>11, <1>12, <1>13, <1>14, <1>15


-----------------------------------------------------------------------------
(* Deactivation *)

\* The row and the statuses of the chunks of a deactivated standard.
LEMMA SaveInactiveSafe ==
  ASSUME IInv, NEW p \in Processes, SaveInactive(p)
  PROVE  IInv'
<1> USE DEF IInv
<1>1. PICK op \in Operation, s \in StandardIds : op = proc[p] /\ s = op.std /\ op.at = "retire"
  BY OperationIs DEF SaveInactive
<1> DEFINE new == [op.copy EXCEPT !.active = FALSE]
           h == history[s]
           excluded == [i \in DOMAIN h |-> [h[i] EXCEPT !.status = [b \in Backends |-> "EXCLUDED"]]]
<1>2. /\ UNCHANGED <<jobs, index, ops, faults, retired, stripped, orphaned>>
      /\ row' = [row EXCEPT ![s] = new] /\ history' = [history EXCEPT ![s] = excluded]
      /\ torn' = (IF row[s] # op.copy THEN torn \cup {s} ELSE torn)
      /\ Goes(p, [op EXCEPT !.at = "OPENSEARCH"])
  BY <1>1 DEF SaveInactive, Stale
<1>3. s \in Present /\ op.copy.current \in DOMAIN h /\ h \in Seq(Version)
  BY <1>1 DEF Versions, Placed, HasCopy, TypeOK
<1>4. DOMAIN h = 1..Len(h) /\ Len(h) \in Nat
  BY <1>3
<1>5. /\ new \in Row /\ new.current = op.copy.current /\ new.source = op.copy.source /\ ~new.active
      /\ new # NoRow
  <2>1. op.copy \in Row
    BY DEF Operation
  <2>2. new \in Row /\ new.current = op.copy.current /\ new.source = op.copy.source /\ ~new.active
    BY <2>1 DEF Row
  <2>3. op.copy.current # 0 /\ NoRow.current = 0
    BY <1>3, <1>4 DEF NoRow
  <2> HIDE DEF new
  <2> QED BY <2>2, <2>3
<1>6. /\ excluded \in Seq(Version) /\ DOMAIN excluded = DOMAIN h /\ Len(excluded) = Len(h)
      /\ \A i \in DOMAIN h : excluded[i].n = h[i].n /\ \A b \in Backends : excluded[i].status[b] = "EXCLUDED"
  <2>1. ASSUME NEW i \in DOMAIN h
        PROVE  /\ excluded[i] \in Version /\ excluded[i].n = h[i].n
               /\ \A b \in Backends : excluded[i].status[b] = "EXCLUDED"
    <3>1. h[i] \in Version
      BY <1>3
    <3>2. [b \in Backends |-> "EXCLUDED"] \in [Backends -> Statuses]
      BY DEF Statuses
    <3> QED BY <3>1, <3>2 DEF Version
  <2>2. DOMAIN excluded = 1..Len(h)
    BY <1>4
  <2> HIDE DEF excluded
  <2>3. excluded \in [1..Len(h) -> Version]
    <3>1. excluded = [i \in 1..Len(h) |-> excluded[i]]
      BY <1>4 DEF excluded
    <3> QED BY <1>4, <2>1, <3>1
  <2>4. excluded \in Seq(Version)
    BY <1>4, <2>3
  <2> QED BY <1>4, <2>1, <2>2, <2>4
<1> HIDE DEF new, excluded
<1>7. /\ row'[s] = new /\ history'[s] = excluded
      /\ \A t \in StandardIds \ {s} : row'[t] = row[t] /\ history'[t] = history[t]
  BY <1>2 DEF TypeOK
<1>8. Present' = Present
  BY <1>3, <1>5, <1>7 DEF Present
<1>9. /\ Alone(p) /\ \A q \in Processes \ {p} : proc'[q] = proc[q]
      /\ proc'[p] = [op EXCEPT !.at = "OPENSEARCH"]
  <2>1. [op EXCEPT !.at = "OPENSEARCH"] \in Operation
    BY DEF Operation, Places, Backends
  <2> QED BY <1>2, <2>1, GoesIs
<1>10. /\ proc'[p].at = "OPENSEARCH" /\ proc'[p].std = s /\ proc'[p].copy = op.copy
       /\ proc'[p].alone = op.alone
  BY <1>1, <1>9 DEF Operation
<1>11. Kept
  BY <1>6, <1>7, <1>8 DEF Kept
<1>12. TypeOK'
  <2>1. row' \in [StandardIds -> Row] /\ history' \in [StandardIds -> Seq(Version)]
    BY <1>2, <1>5, <1>6 DEF TypeOK
  <2>2. torn' \subseteq StandardIds
    BY <1>2 DEF TypeOK
  <2> QED BY <1>2, <1>9, <2>1, <2>2 DEF TypeOK, Alone
<1>13. Versions'
  <2>1. Placed(proc[p])'
    BY <1>3, <1>6, <1>7, <1>8, <1>10 DEF Placed, HasCopy, Reindexing, Indexing, Backends
  <2>2. \A q \in Processes : Placed(proc[q])'
    BY <1>9, <1>11, <2>1, StaysPlaced DEF Alone
  <2>3. ASSUME NEW t \in StandardIds PROVE Numbered(t)'
    <3>1. Numbered(t)
      BY DEF Versions
    <3>2. CASE t = s
      <4>1. \A i \in DOMAIN history'[s] : history'[s][i].n = i
        BY <1>6, <1>7, <3>1, <3>2 DEF Numbered
      <4>2. row'[s] # NoRow /\ row'[s].current \in DOMAIN history'[s]
        BY <1>3, <1>5, <1>6, <1>7
      <4> QED BY <3>2, <4>1, <4>2 DEF Numbered
    <3>3. CASE t # s
      BY <1>7, <3>1, <3>3 DEF Numbered
    <3> QED BY <3>2, <3>3
  <2>4. SavesApart'
    <3>1. \A q \in Processes : proc'[q].at = "save" => q # p /\ proc'[q] = proc[q]
      BY <1>9, <1>10
    <3> QED BY <3>1 DEF Versions, SavesApart
  <2>5. ASSUME NEW t \in Present PROVE RowNamesNewest(t)'
    <3>1. RowNamesNewest(t) /\ t \in StandardIds /\ torn \subseteq torn'
      BY <1>2 DEF Versions, Present
    <3>2. Len(history'[t]) = Len(history[t])
      BY <1>6, <1>7, <3>1
    <3>3. t \in torn' \/ row'[t].current = row[t].current
      BY <1>2, <1>5, <1>7, <3>1
    <3>4. ASSUME NEW q \in Processes, proc[q].at = "save", proc[q].std = t, proc[q].n = Len(history[t])
          PROVE  RowNamesNewest(t)'
      <4>1. proc'[q] = proc[q]
        BY <1>1, <1>9, <3>4
      <4> QED BY <3>2, <3>4, <4>1 DEF RowNamesNewest
    <3> QED BY <3>1, <3>2, <3>3, <3>4 DEF RowNamesNewest
  <2> QED BY <1>8, <2>2, <2>3, <2>4, <2>5 DEF Versions
<1>14. Indexed'
  <2>1. StatusesKept
    BY <1>6, <1>7 DEF StatusesKept
  <2> QED BY <1>1, <1>2, <1>9, <1>10, <1>11, <2>1, IndexedKeeps DEF HeldGrows, Indexing
<1>15. Hiding'
  <2>1. Touches(p)
    BY <1>1, <1>2, <1>7, <1>10 DEF Touches, Busy, Present
  <2>2. Undisturbed(p)'
    <3>1. ASSUME op.alone, NEW q \in Processes \ {p}, Busy(q)' PROVE proc'[q].std # s
      BY <1>1, <1>9, <3>1 DEF Hiding, Undisturbed, Busy
    <3>2. ~row'[s].active
      BY <1>5, <1>7
    <3> QED BY <1>10, <3>1, <3>2 DEF Undisturbed
  <2>3. \A t \in retired : ~row'[t].active /\ \A b \in Backends : Gone(t, b)'
    BY <1>2, <1>5, <1>7 DEF Hiding, Retired, Gone, Present
  <2>4. s \in retired => ~op.copy.active
    BY <1>1 DEF Hiding, Retired, HasCopy
  <2> QED BY <1>2, <1>9, <1>10, <1>11, <2>1, <2>2, <2>3, <2>4, HidingKeeps
<1>16. Registered'
  <2>1. Sourced(proc[p])'
    BY <1>5, <1>7, <1>10 DEF Sourced
  <2>2. SourcesKept
    <3>1. op.copy.source # row[s].source => {op.copy.source, row[s].source} \subseteq Dropped'
      BY <1>1, <1>2 DEF Registered, Sourced, HasCopy, Dropped
    <3> QED BY <1>5, <1>7, <3>1 DEF SourcesKept, Present
  <2>3. NewSourceFree(p)
    BY <1>8 DEF NewSourceFree
  <2> QED BY <1>2, <1>9, <1>10, <1>11, <2>1, <2>2, <2>3, RegisteredKeeps
<1> QED BY <1>12, <1>13, <1>14, <1>15, <1>16

\* The documents are hidden in both indexes; one that nothing overlapped has
\* them hidden for good.
LEMMA ExcludeSafe ==
  ASSUME IInv, NEW p \in Processes, Exclude(p)
  PROVE  IInv'
<1> USE DEF IInv
<1>1. PICK op \in Operation, s \in StandardIds : op = proc[p] /\ s = op.std /\ op.at \in Backends
  BY OperationIs DEF Exclude, Backends
<1>2. /\ UNCHANGED <<row, history, jobs, ops, faults, torn, stripped, orphaned>>
      /\ index' = [index EXCEPT ![op.at] = Hidden(index[op.at], s)]
      /\ \/ op.at = "OPENSEARCH" /\ Goes(p, [op EXCEPT !.at = "QDRANT"]) /\ retired' = retired
         \/ op.at = "QDRANT" /\ Goes(p, Idle) /\ retired' = (IF op.alone THEN retired \cup {s} ELSE retired)
  BY <1>1 DEF Exclude, Rows, Backends
<1>3. index[op.at] \in Documents
  BY <1>1 DEF TypeOK, Documents
<1>4. /\ index' \in [Backends -> Documents] /\ \A b \in Backends : index'[b].held = index[b].held
      /\ \A b \in Backends : index'[b].shown \subseteq index[b].shown
      /\ \A k \in index'[op.at].shown : k[1] # s
  <2>1. /\ Hidden(index[op.at], s) \in Documents /\ Hidden(index[op.at], s).held = index[op.at].held
        /\ Hidden(index[op.at], s).shown \subseteq index[op.at].shown
        /\ \A k \in Hidden(index[op.at], s).shown : k[1] # s
    BY <1>3, HiddenIs
  <2>2. index \in [Backends -> Documents]
    BY DEF TypeOK, Documents
  <2> QED BY <1>1, <1>2, <2>1, <2>2
<1>5. s \in Present
  BY <1>1, OperationIs DEF Backends
<1>6. /\ Alone(p) /\ \A q \in Processes \ {p} : proc'[q] = proc[q]
      /\ \/ /\ op.at = "OPENSEARCH" /\ retired' = retired
            /\ proc'[p].at = "QDRANT" /\ proc'[p].std = s /\ proc'[p].copy = op.copy /\ proc'[p].alone = op.alone
         \/ op.at = "QDRANT" /\ proc'[p].at = "idle" /\ (retired' = retired \/ (op.alone /\ retired' = retired \cup {s}))
  <2>1. [op EXCEPT !.at = "QDRANT"] \in Operation
    BY DEF Operation, Places, Backends
  <2>2. CASE op.at = "OPENSEARCH" /\ Goes(p, [op EXCEPT !.at = "QDRANT"]) /\ retired' = retired
    <3>1. proc'[p] = [op EXCEPT !.at = "QDRANT"]
      BY <2>1, <2>2, GoesIs
    <3>2. proc'[p].at = "QDRANT" /\ proc'[p].std = s /\ proc'[p].copy = op.copy /\ proc'[p].alone = op.alone
      BY <1>1, <3>1 DEF Operation
    <3> QED BY <2>1, <2>2, <3>2, GoesIs
  <2>3. CASE op.at = "QDRANT" /\ Goes(p, Idle) /\ retired' = (IF op.alone THEN retired \cup {s} ELSE retired)
    <3>1. proc'[p].at = "idle"
      BY <2>3, IdleTyped, GoesIs DEF Idle
    <3> QED BY <2>3, <3>1, IdleTyped, GoesIs
  <2> QED BY <1>2, <2>2, <2>3
<1>7. Kept /\ Present' = Present
  BY <1>2 DEF Kept, Present
<1>8. TypeOK'
  <2>1. retired' \subseteq StandardIds
    BY <1>6 DEF TypeOK
  <2> QED BY <1>2, <1>4, <1>6, <2>1 DEF TypeOK, Alone, Documents
<1>9. Versions'
  <2>1. Placed(proc[p])'
    BY <1>1, <1>2, <1>5, <1>6, <1>7 DEF Versions, Placed, HasCopy, Reindexing, Indexing, Backends
  <2> QED BY <1>1, <1>2, <1>6, <2>1, VersionsKeep DEF Backends
<1>10. Indexed'
  BY <1>1, <1>2, <1>4, <1>6, <1>7, IndexedKeeps DEF HeldGrows, StatusesKept, Indexing, Backends
<1>11. Hiding'
  <2>1. Touches(p)
    BY <1>1, <1>2, <1>4, <1>6 DEF Touches, Busy, Backends
  <2>2. op.alone =>
          /\ \A q \in Processes \ {p} : Busy(q) => proc[q].std # s
          /\ ~row[s].active
          /\ op.at = "QDRANT" => Gone(s, "OPENSEARCH")
    BY <1>1 DEF Hiding, Undisturbed
  <2>3. Undisturbed(p)'
    <3>1. CASE proc'[p].at = "idle"
      BY <3>1 DEF Undisturbed, Backends
    <3>2. CASE proc'[p].at = "QDRANT"
      <4>1. op.at = "OPENSEARCH" /\ proc'[p].std = s /\ proc'[p].alone = op.alone
        BY <1>6, <3>2
      <4>2. \A k \in index'["OPENSEARCH"].shown : k[1] # s
        BY <1>4, <4>1
      <4>3. op.alone => \A q \in Processes \ {p} : Busy(q)' => proc'[q].std # s
        BY <1>6, <2>2 DEF Busy
      <4> QED BY <1>2, <2>2, <3>2, <4>1, <4>2, <4>3 DEF Undisturbed, Gone
    <3> QED BY <1>6, <3>1, <3>2
  <2>4. \A t \in retired : ~row'[t].active /\ \A b \in Backends : Gone(t, b)'
    BY <1>2, <1>4 DEF Hiding, Retired, Gone
  <2>5. ASSUME s \in retired, proc'[p].at = "QDRANT" PROVE ~proc'[p].copy.active
    BY <1>1, <1>6, <2>5 DEF Hiding, Retired, HasCopy
  <2>6. ASSUME NEW t \in retired' \ retired PROVE Retired(t)'
    <3>1. t = s /\ op.alone /\ op.at = "QDRANT" /\ proc'[p].at = "idle"
      BY <1>6, <2>6
    <3>2. ~row'[s].active /\ s \in Present'
      BY <1>2, <1>5, <1>7, <2>2, <3>1
    <3>3. \A b \in Backends : Gone(s, b)'
      BY <1>4, <2>2, <3>1 DEF Gone, Backends
    <3>4. \A q \in Processes : proc'[q].at \in HasCopy => proc'[q].std # s
      BY <1>6, <2>2, <3>1 DEF Busy, HasCopy, Indexing, Backends
    <3> QED BY <3>1, <3>2, <3>3, <3>4 DEF Retired
  <2> QED BY <1>6, <1>7, <2>1, <2>3, <2>4, <2>5, <2>6, HidingKeeps DEF HasCopy, Indexing, Backends
<1>12. Registered'
  <2>1. Sourced(proc[p])'
    BY <1>1, <1>2, <1>6 DEF Registered, Sourced, Dropped, HasCopy, Indexing, Backends
  <2>2. SourcesKept /\ NewSourceFree(p)
    BY <1>2, <1>7 DEF SourcesKept, NewSourceFree
  <2> QED BY <1>2, <1>6, <1>7, <2>1, <2>2, RegisteredKeeps
<1> QED BY <1>8, <1>9, <1>10, <1>11, <1>12


-----------------------------------------------------------------------------
(* Indexing *)

\* What every step of a reindexing keeps: it stays on its version, and shows
\* documents of its standard only, and only if it has read it as active.
LEMMA ReindexKeeps ==
  ASSUME IInv, NEW p \in Processes, NEW new \in Operation, Goes(p, new), proc[p].at \in Reindexing,
         \/ new.at = "idle"
         \/ new.at \in Indexing /\ new.std = proc[p].std /\ new.copy = proc[p].copy /\ new.i = proc[p].i,
         UNCHANGED <<row, torn, retired, stripped, orphaned>>, ops' \in Nat, faults' \in Nat,
         jobs' \in Seq(Job), index' \in [Backends -> Documents],
         history' \in [StandardIds -> Seq(Version)],
         \A s \in StandardIds : /\ DOMAIN history'[s] = DOMAIN history[s] /\ Len(history'[s]) = Len(history[s])
                                /\ \A i \in DOMAIN history[s] : history'[s][i].n = history[s][i].n
                                /\ history[s] = <<>> => history'[s] = <<>>,
         \A b \in Backends : \A k \in index'[b].shown :
           k \in index[b].shown \/ (k[1] = proc[p].std /\ proc[p].copy.active)
  PROVE  /\ TypeOK' /\ Versions' /\ Hiding' /\ Registered'
         /\ Alone(p) /\ Kept /\ proc'[p] = new
<1> USE DEF IInv
<1>1. PICK op \in Operation, s \in StandardIds : op = proc[p] /\ s = op.std /\ s \in Present
  BY OperationIs DEF Reindexing, Indexing
<1>2. /\ op.at \in Reindexing /\ op.at \in HasCopy /\ op.at # "save" /\ op.at \notin {"idle", "update"}
  BY <1>1 DEF Reindexing, Indexing, HasCopy
<1>3. Alone(p) /\ proc'[p] = new /\ \A q \in Processes \ {p} : proc'[q] = proc[q]
  BY GoesIs
<1>4. Kept /\ Present' = Present
  BY DEF Kept, Present
<1>5. TypeOK'
  BY <1>3 DEF TypeOK, Alone, Documents
<1>6. Versions'
  <2>1. op.copy.current \in DOMAIN history[s] /\ op.i \in DOMAIN history[s]
    BY <1>1, <1>2 DEF Versions, Placed
  <2>2. Placed(proc[p])'
    <3>1. CASE new.at = "idle"
      BY <1>3, <3>1 DEF Placed, HasCopy, Reindexing, Indexing, Backends
    <3>2. CASE new.at \in Indexing /\ new.std = s /\ new.copy = op.copy /\ new.i = op.i
      BY <1>1, <1>3, <1>4, <2>1, <3>2 DEF Placed, HasCopy, Reindexing, Indexing, Backends
    <3> QED BY <1>1, <3>1, <3>2
  <2>3. new.at # "save"
    BY DEF Indexing
  <2> QED BY <1>1, <1>2, <1>3, <2>2, <2>3, VersionsKeep
<1>7. Hiding'
  <2>1. Touches(p)
    <3>1. Busy(p) /\ (Busy(p)' => proc'[p].std = proc[p].std)
      BY <1>1, <1>2, <1>3 DEF Busy
    <3> QED BY <3>1 DEF Touches
  <2>2. Undisturbed(p)'
    BY <1>3 DEF Undisturbed, Indexing, Backends
  <2>3. ASSUME NEW t \in retired PROVE ~row'[t].active /\ \A b \in Backends : Gone(t, b)'
    <3>1. ~row[t].active /\ \A b \in Backends : Gone(t, b)
      BY DEF Hiding, Retired
    <3>2. t = s => ~op.copy.active
      BY <1>1, <1>2 DEF Hiding, Retired
    <3>3. ASSUME NEW b \in Backends, NEW k \in index'[b].shown PROVE k[1] # t
      BY <1>1, <3>1, <3>2 DEF Gone
    <3> QED BY <3>1, <3>3 DEF Gone
  <2>4. ASSUME proc'[p].at \in HasCopy, proc'[p].std \in retired
        PROVE  ~proc'[p].copy.active /\ proc'[p].at \notin {"update", "save"}
    <3>1. new.at # "idle"
      BY <1>3, <2>4 DEF HasCopy, Indexing, Backends
    <3>2. new.at \in Indexing /\ new.copy = op.copy /\ new.std = s
      BY <1>1, <3>1
    <3> QED BY <1>1, <1>2, <1>3, <2>4, <3>2 DEF Hiding, Retired, Indexing
  <2> QED BY <1>3, <1>4, <2>1, <2>2, <2>3, <2>4, HidingKeeps
<1>8. Registered'
  <2>1. Sourced(proc[p])'
    <3>1. CASE new.at = "idle"
      BY <1>3, <3>1 DEF Sourced, HasCopy, Indexing, Backends
    <3>2. CASE new.at \in Indexing /\ new.std = s /\ new.copy = op.copy
      <4>1. op.copy.source # row[s].source => {op.copy.source, row[s].source} \subseteq Dropped
        BY <1>1, <1>2 DEF Registered, Sourced
      <4> QED BY <1>3, <3>2, <4>1 DEF Sourced, Dropped, Indexing
    <3> QED BY <1>1, <3>1, <3>2
  <2>2. SourcesKept /\ NewSourceFree(p)
    BY <1>4 DEF SourcesKept, NewSourceFree
  <2>3. proc'[p].at # "create"
    BY <1>3 DEF Indexing
  <2> QED BY <1>3, <1>4, <2>1, <2>2, <2>3, RegisteredKeeps
<1> QED BY <1>3, <1>4, <1>5, <1>6, <1>7, <1>8

LEMMA StartJobSafe ==
  ASSUME IInv, NEW p \in Processes, StartJob(p)
  PROVE  IInv'
<1> USE DEF IInv
<1>1. PICK op \in Operation, s \in StandardIds : op = proc[p] /\ s = op.std /\ op.at = "job"
  BY OperationIs DEF StartJob
<1> DEFINE job == [std |-> s, i |-> op.i, targets |-> op.targets, state |-> "RUNNING"]
           j == Len(jobs) + 1
           new == [op EXCEPT !.at = "vectors", !.job = j, !.next = 1, !.outcome = "SUCCEEDED",
                             !.status = history[s][op.i].status]
<1>2. /\ UNCHANGED <<row, history, index, ops, faults, torn, retired, stripped, orphaned>>
      /\ jobs' = Append(jobs, job) /\ Goes(p, new)
  BY <1>1 DEF StartJob, Ghosts
<1>3. /\ op.i \in DOMAIN history[s] /\ history[s][op.i] \in Version /\ history[s][op.i].n = op.i
  BY <1>1, OperationIs DEF Versions, Placed, Reindexing
<1>4. Len(jobs) \in Nat /\ DOMAIN jobs = 1..Len(jobs) /\ job \in Job
  BY <1>1 DEF TypeOK, Operation, Job
<1>5. new \in Operation
  <2>1. "vectors" \in Places
    BY DEF Places, Indexing
  <2>2. history[s][op.i].status \in [Backends -> Statuses]
    BY <1>3 DEF Version
  <2>3. j \in Nat
    BY <1>4
  <2> HIDE DEF j
  <2> QED BY <2>1, <2>2, <2>3 DEF Operation
<1>6. /\ new.at = "vectors" /\ new.std = s /\ new.copy = op.copy /\ new.i = op.i /\ new.targets = op.targets
      /\ new.job = j /\ new.next = 1 /\ new.outcome = "SUCCEEDED" /\ new.status = history[s][op.i].status
  BY <1>1 DEF Operation
<1> HIDE DEF new
<1>7. /\ jobs' \in Seq(Job) /\ DOMAIN jobs' = DOMAIN jobs \cup {j} /\ jobs'[j] = job /\ j \notin DOMAIN jobs
      /\ \A k \in DOMAIN jobs : jobs'[k] = jobs[k]
  BY <1>2, <1>4 DEF TypeOK
<1>8. TypeOK' /\ Versions' /\ Hiding' /\ Registered' /\ Alone(p) /\ Kept /\ proc'[p] = new
  <2>1. /\ ops' \in Nat /\ faults' \in Nat /\ index' \in [Backends -> Documents]
        /\ history' \in [StandardIds -> Seq(Version)]
    BY <1>2 DEF TypeOK, Documents
  <2> QED BY <1>1, <1>2, <1>5, <1>6, <1>7, <2>1, ReindexKeeps DEF Reindexing, Indexing
<1>9. Indexed'
  <2>1. Wrote(proc[p])'
    <3>1. 1 \in DOMAIN Chunks
      BY ChunksAssumption
    <3>2. \A b \in Backends : new.status[b] = "ACTIVE" => KeysOf(s, op.i) \subseteq index'[b].held
      BY <1>2, <1>3, <1>6 DEF Indexed
    <3>3. 1..(1 - 1) = {}
      OBVIOUS
    <3> QED BY <1>6, <1>8, <3>1, <3>2, <3>3 DEF Wrote, KeysOf, Key
  <2>2. OwnJob(proc[p])'
    BY <1>6, <1>7, <1>8 DEF OwnJob
  <2>3. \A q \in Processes \ {p} : proc'[q] = proc[q]
    BY <1>2, <1>5, GoesIs
  <2>4. ASSUME NEW q \in Processes \ {p}, proc[q].at \in Indexing
        PROVE  Wrote(proc[q])' /\ OwnJob(proc[q])' /\ proc[q].job \in DOMAIN jobs
    <3>1. Wrote(proc[q]) /\ OwnJob(proc[q])
      BY <2>4 DEF Indexed
    <3>2. SameWork(q) /\ HeldGrows
      BY <1>2, <2>3 DEF SameWork, HeldGrows
    <3>3. Wrote(proc[q])'
      BY <3>1, <3>2, StaysWritten
    <3>4. OwnJob(proc[q])' /\ proc[q].job \in DOMAIN jobs
      BY <1>7, <2>3, <3>1 DEF OwnJob
    <3> QED BY <3>3, <3>4
  <2>5. \A q \in Processes : proc'[q].at \in Indexing => Wrote(proc[q])' /\ OwnJob(proc[q])'
    BY <2>1, <2>2, <2>3, <2>4
  <2>6. ASSUME NEW q \in Processes, NEW r \in Processes, q # r, proc'[q].at \in Indexing, proc'[r].at \in Indexing
        PROVE  proc'[q].job # proc'[r].job
    <3>1. CASE q = p
      BY <1>6, <1>7, <1>8, <2>3, <2>4, <2>6, <3>1
    <3>2. CASE r = p
      BY <1>6, <1>7, <1>8, <2>3, <2>4, <2>6, <3>2
    <3>3. CASE q # p /\ r # p
      BY <2>3, <2>6, <3>3 DEF Indexed
    <3> QED BY <3>1, <3>2, <3>3
  <2>7. ASSUME NEW k \in DOMAIN jobs'
        PROVE  /\ jobs'[k].i \in DOMAIN history'[jobs'[k].std]
               /\ jobs'[k].state = "RUNNING" =>
                    k \in orphaned' \/ \E q \in Processes : proc'[q].at \in Indexing /\ proc'[q].job = k
               /\ jobs'[k].state = "SUCCEEDED" =>
                    \A b \in jobs'[k].targets : KeysOf(jobs'[k].std, jobs'[k].i) \subseteq index'[b].held
    <3>1. CASE k = j
      BY <1>2, <1>3, <1>6, <1>7, <1>8, <3>1 DEF Indexing
    <3>2. CASE k \in DOMAIN jobs
      <4>1. \A q \in Processes : proc[q].at \in Indexing => proc'[q] = proc[q]
        BY <1>1, <2>3 DEF Indexing
      <4> QED BY <1>2, <1>7, <3>2, <4>1 DEF Indexed
    <3> QED BY <1>7, <3>1, <3>2
  <2>8. \A t \in StandardIds : \A i \in DOMAIN history'[t], b \in Backends :
          history'[t][i].status[b] = "ACTIVE" => KeysOf(t, i) \subseteq index'[b].held
    BY <1>2 DEF Indexed
  <2> QED BY <2>5, <2>6, <2>7, <2>8 DEF Indexed, KeysOf, Key
<1> QED BY <1>8, <1>9


\* A reindexing writes documents of its version into an index, or goes on.
LEMMA WriteSafe ==
  ASSUME IInv, NEW p \in Processes, NEW new \in Operation, Goes(p, new),
         proc[p].at \in {"vectors", "keywords"}, new.at \in Indexing,
         new.std = proc[p].std, new.copy = proc[p].copy, new.i = proc[p].i,
         new.targets = proc[p].targets, new.job = proc[p].job,
         UNCHANGED <<row, history, jobs, torn, retired, stripped, orphaned>>, ops' \in Nat, faults' \in Nat,
         \E b \in Backends, keys \in SUBSET KeysOf(proc[p].std, proc[p].i) :
           index' = [index EXCEPT ![b] = Put(index[b], keys, proc[p].copy.active)],
         Wrote(proc[p])'
  PROVE  IInv'
<1> USE DEF IInv
<1>1. PICK op \in Operation, s \in StandardIds : op = proc[p] /\ s = op.std
  BY OperationIs
<1>a. PICK b \in Backends, keys \in SUBSET KeysOf(proc[p].std, proc[p].i) :
        index' = [index EXCEPT ![b] = Put(index[b], keys, proc[p].copy.active)]
  OBVIOUS
<1>2. /\ keys \subseteq KeysOf(s, op.i) /\ keys \subseteq Keys /\ \A k \in keys : k[1] = s
  <2>1. op.i \in Nat
    BY DEF Operation
  <2> QED BY <1>1, <2>1, KeysTyped
<1>3. index \in [Backends -> Documents] /\ op.copy.active \in BOOLEAN
  BY DEF TypeOK, Documents, Operation, Row
<1>4. /\ index' \in [Backends -> Documents] /\ HeldGrows
      /\ \A c \in Backends : \A k \in index'[c].shown : k \in index[c].shown \/ (k[1] = s /\ op.copy.active)
  <2> DEFINE put == Put(index[b], keys, op.copy.active)
  <2>1. /\ put \in Documents /\ put.held = index[b].held \cup keys
        /\ put.shown \subseteq index[b].shown \cup keys
        /\ ~op.copy.active => put.shown \subseteq index[b].shown
    BY <1>2, <1>3, PutIs
  <2>2. index' = [index EXCEPT ![b] = put]
    BY <1>1, <1>a
  <2> HIDE DEF put
  <2>3. \A c \in Backends : index'[c] = IF c = b THEN put ELSE index[c]
    BY <1>3, <2>2
  <2> QED BY <1>2, <1>3, <2>1, <2>2, <2>3 DEF HeldGrows
<1>5. TypeOK' /\ Versions' /\ Hiding' /\ Registered' /\ Alone(p) /\ Kept /\ proc'[p] = new
  <2>1. jobs' \in Seq(Job) /\ history' \in [StandardIds -> Seq(Version)]
    BY DEF TypeOK
  <2> QED BY <1>1, <1>4, <2>1, ReindexKeeps DEF Reindexing, Indexing
<1>6. Indexed'
  <2>1. StatusesKept
    BY DEF StatusesKept
  <2> QED BY <1>4, <1>5, <2>1, IndexedKeeps DEF Indexing
<1> QED BY <1>5, <1>6

\* What a step of a reindexing needs of the documents of its version.
LEMMA UpsertVectorsSafe ==
  ASSUME IInv, NEW p \in Processes, UpsertVectors(p)
  PROVE  IInv'
<1> USE DEF IInv
<1>1. PICK op \in Operation, s \in StandardIds : op = proc[p] /\ s = op.std /\ op.at = "vectors"
  BY OperationIs DEF UpsertVectors
<1>2. /\ UNCHANGED <<row, history, jobs, torn, retired, stripped, orphaned>>
      /\ ops' \in Nat /\ faults' \in Nat
  BY DEF UpsertVectors, Rows, Ghosts, TypeOK
<1>3. op.i \in Nat /\ op.i \in DOMAIN history[s] /\ history[s][op.i].n = op.i
  BY <1>1, OperationIs DEF Operation, Versions, Placed, Reindexing, Indexing
<1>4. /\ op.next \in DOMAIN Chunks /\ op.outcome = "SUCCEEDED"
      /\ \A b \in Backends : op.status[b] = "ACTIVE" => KeysOf(s, op.i) \subseteq index[b].held
      /\ "QDRANT" \in op.targets => \A k \in 1..(op.next - 1) : Key(s, op.i, Chunks[k]) \in index["QDRANT"].held
  BY <1>1 DEF Indexed, Wrote, Indexing
<1>5. "QDRANT" \in Backends /\ index \in [Backends -> Documents]
  BY DEF Backends, TypeOK, Documents
<1>6. CASE "QDRANT" \notin op.targets
  <2> DEFINE new == [op EXCEPT !.at = "keywords"]
  <2>1. Goes(p, new) /\ index' = index
    BY <1>1, <1>6 DEF UpsertVectors
  <2>2. new \in Operation
    BY DEF Operation, Places, Indexing
  <2>3. /\ new.at = "keywords" /\ new.std = s /\ new.copy = op.copy /\ new.i = op.i
        /\ new.targets = op.targets /\ new.job = op.job /\ new.outcome = op.outcome /\ new.status = op.status
    BY <1>1 DEF Operation
  <2> HIDE DEF new
  <2>4. index' = [index EXCEPT !["QDRANT"] = Put(index["QDRANT"], {}, op.copy.active)]
    <3>1. index["QDRANT"] \in Documents
      BY <1>5
    <3>2. Put(index["QDRANT"], {}, op.copy.active) = index["QDRANT"]
      BY <3>1 DEF Put, Documents
    <3> QED BY <1>5, <2>1, <3>2
  <2>5. Wrote(proc[p])'
    <3>1. proc'[p] = new
      BY <2>1, <2>2, GoesIs
    <3> QED BY <1>4, <1>6, <2>1, <2>3, <3>1 DEF Wrote, KeysOf, Key
  <2>6. \E b \in Backends, keys \in SUBSET KeysOf(proc[p].std, proc[p].i) :
          index' = [index EXCEPT ![b] = Put(index[b], keys, proc[p].copy.active)]
    BY <1>1, <1>5, <2>4
  <2> QED BY <1>1, <1>2, <2>1, <2>2, <2>3, <2>5, <2>6, WriteSafe DEF Indexing
<1>7. CASE "QDRANT" \in op.targets
  <2> DEFINE key == Key(s, op.i, Chunks[op.next])
             new == IF MoreBatches(op) THEN [op EXCEPT !.next = op.next + 1]
                    ELSE [op EXCEPT !.at = "keywords", !.status = [op.status EXCEPT !["QDRANT"] = "ACTIVE"]]
  <2>1. Goes(p, new) /\ index' = [index EXCEPT !["QDRANT"] = Put(index["QDRANT"], {key}, op.copy.active)]
    BY <1>1, <1>3, <1>7 DEF UpsertVectors
  <2>2. key \in KeysOf(s, op.i) /\ key \in Keys
    BY <1>3, <1>4, KeysTyped
  <2>3. /\ index'["QDRANT"].held = index["QDRANT"].held \cup {key}
        /\ \A b \in Backends : index[b].held \subseteq index'[b].held
    <3>1. index["QDRANT"] \in Documents
      BY <1>5
    <3>2. Put(index["QDRANT"], {key}, op.copy.active).held = index["QDRANT"].held \cup {key}
      BY DEF Put
    <3> QED BY <1>5, <2>1, <3>2
  <2>4. /\ DOMAIN Chunks = 1..Len(Chunks) /\ Len(Chunks) \in Nat /\ op.next \in 1..Len(Chunks) /\ op.next + 1 \in Nat
    BY <1>4, ChunksAssumption
  <2>5. \A k \in 1..op.next : Key(s, op.i, Chunks[k]) \in index'["QDRANT"].held
    <3>1. ASSUME NEW k \in 1..op.next PROVE k = op.next \/ k \in 1..(op.next - 1)
      BY <2>4
    <3> QED BY <1>4, <1>7, <2>3, <3>1
  <2>a. \E b \in Backends, keys \in SUBSET KeysOf(proc[p].std, proc[p].i) :
          index' = [index EXCEPT ![b] = Put(index[b], keys, proc[p].copy.active)]
    BY <1>1, <1>5, <2>1, <2>2
  <2> HIDE DEF key
  <2>6. CASE MoreBatches(op)
    <3>1. new = [op EXCEPT !.next = op.next + 1]
      BY <2>6
    <3> HIDE DEF new
    <3>2. new \in Operation
      BY <2>4, <3>1 DEF Operation
    <3>3. /\ new.at = "vectors" /\ new.std = s /\ new.copy = op.copy /\ new.i = op.i /\ new.next = op.next + 1
          /\ new.targets = op.targets /\ new.job = op.job /\ new.outcome = op.outcome /\ new.status = op.status
      BY <1>1, <3>1 DEF Operation
    <3>4. new.next \in DOMAIN Chunks /\ 1..(new.next - 1) = 1..op.next
      BY <2>4, <2>6, <3>3 DEF MoreBatches
    <3>5. Wrote(proc[p])'
      <4>1. proc'[p] = new
        BY <2>1, <3>2, GoesIs
      <4> QED BY <1>4, <2>3, <2>5, <3>3, <3>4, <4>1 DEF Wrote, KeysOf, Key
    <3> QED BY <1>1, <1>2, <2>1, <2>a, <3>2, <3>3, <3>5, WriteSafe DEF Indexing
  <2>7. CASE ~MoreBatches(op)
    <3>1. new = [op EXCEPT !.at = "keywords", !.status = [op.status EXCEPT !["QDRANT"] = "ACTIVE"]]
      BY <2>7
    <3> HIDE DEF new
    <3>2. [op.status EXCEPT !["QDRANT"] = "ACTIVE"] \in [Backends -> Statuses] /\ "keywords" \in Places
      BY DEF Operation, Statuses, Places, Indexing
    <3>3. new \in Operation
      BY <3>1, <3>2 DEF Operation
    <3>4. /\ new.at = "keywords" /\ new.std = s /\ new.copy = op.copy /\ new.i = op.i
          /\ new.targets = op.targets /\ new.job = op.job /\ new.outcome = op.outcome
          /\ \A b \in Backends : new.status[b] = "ACTIVE" => b = "QDRANT" \/ op.status[b] = "ACTIVE"
      BY <1>1, <3>1 DEF Operation
    <3>5. KeysOf(s, op.i) \subseteq index'["QDRANT"].held
      <4>1. op.next = Len(Chunks)
        BY <2>4, <2>7 DEF MoreBatches
      <4>2. ASSUME NEW k \in KeysOf(s, op.i) PROVE k \in index'["QDRANT"].held
        <5>1. PICK c \in DOMAIN Chunks : k = Key(s, op.i, Chunks[c])
          BY <1>3, KeysTyped
        <5> QED BY <2>4, <2>5, <4>1, <5>1
      <4> QED BY <4>2
    <3>6. Wrote(proc[p])'
      <4>1. proc'[p] = new
        BY <2>1, <3>3, GoesIs
      <4> QED BY <1>4, <2>3, <3>4, <3>5, <4>1 DEF Wrote, KeysOf, Key
    <3> QED BY <1>1, <1>2, <2>1, <2>a, <3>3, <3>4, <3>6, WriteSafe DEF Indexing
  <2> QED BY <2>6, <2>7
<1> QED BY <1>6, <1>7


LEMMA UpsertKeywordsSafe ==
  ASSUME IInv, NEW p \in Processes, UpsertKeywords(p)
  PROVE  IInv'
<1> USE DEF IInv
<1>1. PICK op \in Operation, s \in StandardIds : op = proc[p] /\ s = op.std /\ op.at = "keywords"
  BY OperationIs DEF UpsertKeywords
<1>2. /\ UNCHANGED <<row, history, jobs, torn, retired, stripped, orphaned>>
      /\ ops' \in Nat /\ faults' \in Nat
  BY DEF UpsertKeywords, Rows, Ghosts, TypeOK
<1>3. op.i \in Nat /\ op.i \in DOMAIN history[s] /\ history[s][op.i].n = op.i
  BY <1>1, OperationIs DEF Operation, Versions, Placed, Reindexing, Indexing
<1>4. /\ op.outcome = "SUCCEEDED"
      /\ \A b \in Backends : op.status[b] = "ACTIVE" => KeysOf(s, op.i) \subseteq index[b].held
      /\ "QDRANT" \in op.targets => KeysOf(s, op.i) \subseteq index["QDRANT"].held
  BY <1>1 DEF Indexed, Wrote, Indexing
<1>5. "OPENSEARCH" \in Backends /\ index["OPENSEARCH"] \in Documents /\ op.targets \subseteq Backends
  BY DEF Backends, TypeOK, Documents, Operation
<1>6. CASE "OPENSEARCH" \notin op.targets
  <2> DEFINE new == [op EXCEPT !.at = "chunks"]
  <2>1. Goes(p, new) /\ index' = index
    BY <1>1, <1>6 DEF UpsertKeywords
  <2>2. new \in Operation
    BY DEF Operation, Places, Indexing
  <2>3. /\ new.at = "chunks" /\ new.std = s /\ new.copy = op.copy /\ new.i = op.i
        /\ new.targets = op.targets /\ new.job = op.job /\ new.outcome = op.outcome /\ new.status = op.status
    BY <1>1 DEF Operation
  <2> HIDE DEF new
  <2>4. \E b \in Backends, keys \in SUBSET KeysOf(proc[p].std, proc[p].i) :
          index' = [index EXCEPT ![b] = Put(index[b], keys, proc[p].copy.active)]
    <3>1. Put(index["OPENSEARCH"], {}, op.copy.active) = index["OPENSEARCH"]
      BY <1>5 DEF Put, Documents
    <3>2. index' = [index EXCEPT !["OPENSEARCH"] = Put(index["OPENSEARCH"], {}, op.copy.active)]
      BY <1>5, <2>1, <3>1 DEF TypeOK
    <3> QED BY <1>1, <1>5, <3>2
  <2>5. Wrote(proc[p])'
    <3>1. proc'[p] = new
      BY <2>1, <2>2, GoesIs
    <3>2. \A b \in op.targets : b = "QDRANT"
      BY <1>5, <1>6 DEF Backends
    <3> QED BY <1>4, <2>1, <2>3, <3>1, <3>2 DEF Wrote, KeysOf, Key
  <2> QED BY <1>1, <1>2, <2>1, <2>2, <2>3, <2>4, <2>5, WriteSafe DEF Indexing
<1>7. CASE "OPENSEARCH" \in op.targets
  <2> DEFINE new == [op EXCEPT !.at = "chunks", !.status = [op.status EXCEPT !["OPENSEARCH"] = "ACTIVE"]]
  <2>1. /\ Goes(p, new)
        /\ index' = [index EXCEPT !["OPENSEARCH"] = Put(index["OPENSEARCH"], KeysOf(s, op.i), op.copy.active)]
    BY <1>1, <1>3, <1>7 DEF UpsertKeywords
  <2>2. [op.status EXCEPT !["OPENSEARCH"] = "ACTIVE"] \in [Backends -> Statuses] /\ "chunks" \in Places
    BY DEF Operation, Statuses, Places, Indexing
  <2>3. new \in Operation
    BY <2>2 DEF Operation
  <2>4. /\ new.at = "chunks" /\ new.std = s /\ new.copy = op.copy /\ new.i = op.i
        /\ new.targets = op.targets /\ new.job = op.job /\ new.outcome = op.outcome
        /\ \A b \in Backends : new.status[b] = "ACTIVE" => b = "OPENSEARCH" \/ op.status[b] = "ACTIVE"
    BY <1>1 DEF Operation
  <2> HIDE DEF new
  <2>5. \E b \in Backends, keys \in SUBSET KeysOf(proc[p].std, proc[p].i) :
          index' = [index EXCEPT ![b] = Put(index[b], keys, proc[p].copy.active)]
    BY <1>1, <1>5, <2>1
  <2>6. /\ KeysOf(s, op.i) \subseteq index'["OPENSEARCH"].held
        /\ \A b \in Backends : index[b].held \subseteq index'[b].held
    <3>1. Put(index["OPENSEARCH"], KeysOf(s, op.i), op.copy.active).held
            = index["OPENSEARCH"].held \cup KeysOf(s, op.i)
      BY DEF Put
    <3> QED BY <1>5, <2>1, <3>1 DEF TypeOK
  <2>7. Wrote(proc[p])'
    <3>1. proc'[p] = new
      BY <2>1, <2>3, GoesIs
    <3>2. \A b \in op.targets : KeysOf(s, op.i) \subseteq index'[b].held
      BY <1>4, <1>5, <2>6 DEF Backends
    <3>3. \A b \in Backends : new.status[b] = "ACTIVE" => KeysOf(s, op.i) \subseteq index'[b].held
      BY <1>4, <2>4, <2>6
    <3> QED BY <2>4, <3>1, <3>2, <3>3 DEF Wrote, KeysOf, Key
  <2> QED BY <1>1, <1>2, <2>1, <2>3, <2>4, <2>5, <2>7, WriteSafe DEF Indexing
<1> QED BY <1>6, <1>7

\* A request fails, after some documents were written or none.
LEMMA RequestFailsSafe ==
  ASSUME IInv, NEW p \in Processes, RequestFails(p)
  PROVE  IInv'
<1> USE DEF IInv
<1>1. PICK op \in Operation, s \in StandardIds :
        op = proc[p] /\ s = op.std /\ op.at \in {"vectors", "keywords"} \cup Backends
  BY OperationIs DEF RequestFails, Backends
<1>2. /\ UNCHANGED <<row, history, jobs, torn, retired, stripped, orphaned>>
      /\ ops' \in Nat /\ faults' \in Nat
  BY DEF RequestFails, Rows, Ghosts, TypeOK
<1>3. CASE op.at \in Backends
  <2>1. Goes(p, Idle) /\ index' = index
    BY <1>1, <1>3 DEF RequestFails
  <2>2. proc[p].at # "save" /\ proc[p].at \notin Indexing
    BY <1>1, <1>3 DEF Indexing, Backends
  <2> QED BY <1>2, <2>1, <2>2, EndSafe DEF TypeOK
<1>4. CASE op.at \notin Backends
  <2>1. PICK b \in Backends :
          /\ Goes(p, [op EXCEPT !.at = "chunks", !.outcome = "FAILED", !.status = Failed(op.status, b)])
          /\ \E some \in SUBSET KeysOf(s, history[s][op.i].n) :
               index' = [index EXCEPT ![b] = Put(index[b], some, op.copy.active)]
    BY <1>1, <1>4 DEF RequestFails, Backends
  <2>2. op.i \in Nat /\ op.i \in DOMAIN history[s] /\ history[s][op.i].n = op.i
    BY <1>1, <1>4, OperationIs DEF Operation, Versions, Placed, Reindexing, Indexing
  <2>3. PICK some \in SUBSET KeysOf(s, op.i) : index' = [index EXCEPT ![b] = Put(index[b], some, op.copy.active)]
    BY <2>1, <2>2
  <2> DEFINE new == [op EXCEPT !.at = "chunks", !.outcome = "FAILED", !.status = Failed(op.status, b)]
  <2>4. Failed(op.status, b) \in [Backends -> Statuses] /\ "chunks" \in Places
    BY DEF Failed, Operation, Statuses, Places, Indexing
  <2>5. new \in Operation
    BY <2>4 DEF Operation
  <2>6. /\ new.at = "chunks" /\ new.std = s /\ new.copy = op.copy /\ new.i = op.i
        /\ new.targets = op.targets /\ new.job = op.job /\ new.outcome = "FAILED"
        /\ \A c \in Backends : new.status[c] = "ACTIVE" => op.status[c] = "ACTIVE"
    BY <1>1 DEF Operation, Failed
  <2>7. Goes(p, new)
    BY <2>1
  <2> HIDE DEF new
  <2>8. \A c \in Backends : index[c].held \subseteq index'[c].held
    <3>1. Put(index[b], some, op.copy.active).held = index[b].held \cup some
      BY DEF Put
    <3> QED BY <2>3, <3>1 DEF TypeOK
  <2>9. Wrote(proc[p])'
    <3>1. proc'[p] = new
      BY <2>5, <2>7, GoesIs
    <3>2. \A c \in Backends : op.status[c] = "ACTIVE" => KeysOf(s, op.i) \subseteq index[c].held
      BY <1>1, <1>4 DEF Indexed, Wrote, Indexing
    <3> QED BY <2>6, <2>8, <3>1, <3>2 DEF Wrote, KeysOf, Key
  <2>10. \E c \in Backends, keys \in SUBSET KeysOf(proc[p].std, proc[p].i) :
           index' = [index EXCEPT ![c] = Put(index[c], keys, proc[p].copy.active)]
    BY <1>1, <2>3
  <2> QED BY <1>1, <1>2, <1>4, <2>5, <2>6, <2>7, <2>9, <2>10, WriteSafe DEF Indexing
<1> QED BY <1>3, <1>4

\* The statuses of the chunks are stored: those that say ACTIVE are so.
LEMMA SaveChunksSafe ==
  ASSUME IInv, NEW p \in Processes, SaveChunks(p)
  PROVE  IInv'
<1> USE DEF IInv
<1>1. PICK op \in Operation, s \in StandardIds : op = proc[p] /\ s = op.std /\ op.at = "chunks"
  BY OperationIs DEF SaveChunks
<1> DEFINE new == [op EXCEPT !.at = "end"]
           v == [history[s][op.i] EXCEPT !.status = op.status]
           h == [history[s] EXCEPT ![op.i] = v]
<1>2. /\ UNCHANGED <<row, jobs, index, ops, faults, torn, retired, stripped, orphaned>>
      /\ history' = [history EXCEPT ![s] = h] /\ Goes(p, new)
  BY <1>1 DEF SaveChunks, Ghosts
<1>3. /\ op.i \in DOMAIN history[s] /\ history[s][op.i] \in Version /\ history[s] \in Seq(Version)
  BY <1>1, OperationIs DEF Versions, Placed, Reindexing, Indexing, TypeOK
<1>4. v \in Version /\ v.n = history[s][op.i].n /\ v.status = op.status
  BY <1>3 DEF Version, Operation
<1> HIDE DEF v
<1>5. /\ h \in Seq(Version) /\ DOMAIN h = DOMAIN history[s] /\ Len(h) = Len(history[s])
      /\ h[op.i] = v /\ \A i \in DOMAIN history[s] \ {op.i} : h[i] = history[s][i]
  BY <1>3, <1>4, ExceptSeq, LenProperties
<1> HIDE DEF h
<1>6. history'[s] = h /\ \A t \in StandardIds \ {s} : history'[t] = history[t]
  BY <1>2 DEF TypeOK
<1>7. new \in Operation
  BY DEF Operation, Places, Indexing
<1>8. /\ new.at = "end" /\ new.std = s /\ new.copy = op.copy /\ new.i = op.i
      /\ new.targets = op.targets /\ new.job = op.job /\ new.outcome = op.outcome /\ new.status = op.status
  BY <1>1 DEF Operation
<1> HIDE DEF new
<1>9. TypeOK' /\ Versions' /\ Hiding' /\ Registered' /\ Alone(p) /\ Kept /\ proc'[p] = new
  <2>1. history' \in [StandardIds -> Seq(Version)]
    BY <1>2, <1>5 DEF TypeOK
  <2>2. /\ ops' \in Nat /\ faults' \in Nat /\ jobs' \in Seq(Job) /\ index' \in [Backends -> Documents]
    BY <1>2 DEF TypeOK, Documents
  <2>3. ASSUME NEW t \in StandardIds
        PROVE  /\ DOMAIN history'[t] = DOMAIN history[t] /\ Len(history'[t]) = Len(history[t])
               /\ \A i \in DOMAIN history[t] : history'[t][i].n = history[t][i].n
               /\ history[t] = <<>> => history'[t] = <<>>
    BY <1>3, <1>4, <1>5, <1>6
  <2> QED BY <1>1, <1>2, <1>7, <1>8, <2>1, <2>2, <2>3, ReindexKeeps DEF Reindexing, Indexing
<1>10. Indexed'
  <2>1. /\ \A b \in Backends : op.status[b] = "ACTIVE" => KeysOf(s, op.i) \subseteq index[b].held
        /\ op.outcome = "SUCCEEDED" => \A b \in op.targets : KeysOf(s, op.i) \subseteq index[b].held
    BY <1>1 DEF Indexed, Wrote, Indexing
  <2>2. StatusesKept
    BY <1>2, <1>4, <1>5, <1>6, <2>1 DEF StatusesKept
  <2>3. Wrote(proc[p])'
    BY <1>2, <1>8, <1>9, <2>1 DEF Wrote, KeysOf, Key
  <2> QED BY <1>1, <1>2, <1>8, <1>9, <2>2, <2>3, IndexedKeeps DEF HeldGrows, Indexing
<1> QED BY <1>9, <1>10

\* The job is settled by its own process.
LEMMA SaveJobSafe ==
  ASSUME IInv, NEW p \in Processes, SaveJob(p)
  PROVE  IInv'
<1> USE DEF IInv
<1>1. PICK op \in Operation, s \in StandardIds : op = proc[p] /\ s = op.std /\ op.at = "end"
  BY OperationIs DEF SaveJob
<1> DEFINE job == [jobs[op.job] EXCEPT !.state = op.outcome]
<1>2. /\ UNCHANGED <<row, history, index, ops, faults, torn, retired, stripped, orphaned>>
      /\ jobs' = [jobs EXCEPT ![op.job] = job] /\ Goes(p, Idle)
  BY <1>1 DEF SaveJob, Settled, Ghosts
<1>3. /\ op.job \in DOMAIN jobs
      /\ jobs[op.job] = [std |-> s, i |-> op.i, targets |-> op.targets, state |-> "RUNNING"]
      /\ op.outcome = "SUCCEEDED" => \A b \in op.targets : KeysOf(s, op.i) \subseteq index[b].held
  BY <1>1 DEF Indexed, OwnJob, Wrote, Indexing
<1>4. job \in Job /\ job.std = s /\ job.i = op.i /\ job.targets = op.targets /\ job.state = op.outcome
  BY <1>3 DEF Job, Operation
<1>5. op.outcome \in {"SUCCEEDED", "FAILED"}
  BY DEF Operation
<1> HIDE DEF job
<1>6. /\ jobs' \in Seq(Job) /\ DOMAIN jobs' = DOMAIN jobs
      /\ jobs'[op.job] = job /\ \A j \in DOMAIN jobs \ {op.job} : jobs'[j] = jobs[j]
  <2>1. jobs \in Seq(Job)
    BY DEF TypeOK
  <2> QED BY <1>2, <1>3, <1>4, <2>1, ExceptSeq, LenProperties
<1>7. TypeOK' /\ Versions' /\ Hiding' /\ Registered' /\ Alone(p) /\ Kept /\ proc'[p] = Idle
  <2>1. /\ ops' \in Nat /\ faults' \in Nat /\ index' \in [Backends -> Documents]
        /\ history' \in [StandardIds -> Seq(Version)] /\ Idle \in Operation /\ Idle.at = "idle"
    BY <1>2, IdleTyped DEF TypeOK, Documents, Idle
  <2> QED BY <1>1, <1>2, <1>6, <2>1, ReindexKeeps DEF Reindexing, Indexing
<1>8. Indexed'
  <2>1. \A q \in Processes \ {p} : proc'[q] = proc[q]
    BY <1>2, IdleTyped, GoesIs
  <2>2. proc'[p].at \notin Indexing
    BY <1>7 DEF Idle, Indexing
  <2>3. ASSUME NEW q \in Processes, proc'[q].at \in Indexing
        PROVE  /\ q # p /\ proc'[q] = proc[q] /\ proc[q].job # op.job
               /\ Wrote(proc[q])' /\ OwnJob(proc[q])'
    <3>1. q # p /\ proc'[q] = proc[q]
      BY <2>1, <2>2, <2>3
    <3>2. Wrote(proc[q]) /\ OwnJob(proc[q]) /\ proc[q].job # op.job
      BY <1>1, <2>3, <3>1 DEF Indexed, Indexing
    <3>3. SameWork(q) /\ HeldGrows
      BY <1>2, <3>1 DEF SameWork, HeldGrows
    <3>4. Wrote(proc[q])'
      BY <3>2, <3>3, StaysWritten
    <3>5. OwnJob(proc[q])'
      BY <1>6, <3>1, <3>2 DEF OwnJob
    <3> QED BY <3>1, <3>2, <3>4, <3>5
  <2>4. ASSUME NEW j \in DOMAIN jobs'
        PROVE  /\ jobs'[j].i \in DOMAIN history'[jobs'[j].std]
               /\ jobs'[j].state = "RUNNING" =>
                    j \in orphaned' \/ \E q \in Processes : proc'[q].at \in Indexing /\ proc'[q].job = j
               /\ jobs'[j].state = "SUCCEEDED" =>
                    \A b \in jobs'[j].targets : KeysOf(jobs'[j].std, jobs'[j].i) \subseteq index'[b].held
    <3>1. CASE j = op.job
      <4>1. op.i \in DOMAIN history[s]
        BY <1>3 DEF Indexed
      <4> QED BY <1>2, <1>3, <1>4, <1>5, <1>6, <3>1, <4>1
    <3>2. CASE j # op.job
      <4>1. jobs'[j] = jobs[j] /\ j \in DOMAIN jobs
        BY <1>6, <3>2
      <4>2. \A q \in Processes : proc[q].at \in Indexing /\ proc[q].job = j => proc'[q] = proc[q]
        BY <1>1, <2>1, <3>2
      <4> QED BY <1>2, <4>1, <4>2 DEF Indexed
    <3> QED BY <3>1, <3>2
  <2>5. \A q, r \in Processes :
          q # r /\ proc'[q].at \in Indexing /\ proc'[r].at \in Indexing => proc'[q].job # proc'[r].job
    BY <2>3 DEF Indexed
  <2>6. \A t \in StandardIds : \A i \in DOMAIN history'[t], b \in Backends :
          history'[t][i].status[b] = "ACTIVE" => KeysOf(t, i) \subseteq index'[b].held
    BY <1>2 DEF Indexed
  <2> QED BY <2>3, <2>4, <2>5, <2>6 DEF Indexed, KeysOf, Key
<1> QED BY <1>7, <1>8


-----------------------------------------------------------------------------
(* The invariant *)

LEMMA InitSafe == Init => IInv
<1> SUFFICES ASSUME Init PROVE IInv
  OBVIOUS
<1>1. \A p \in Processes : proc[p] = Idle /\ proc[p].at = "idle"
  BY DEF Init, Idle
<1>2. jobs = <<>> /\ \A s \in StandardIds : row[s] = NoRow /\ history[s] = <<>>
  BY DEF Init
<1>3. Present = {}
  BY <1>2 DEF Present
<1>4. TypeOK
  <2>1. <<>> \in Seq(Version) /\ <<>> \in Seq(Job)
    OBVIOUS
  <2> QED BY <2>1, IdleTyped DEF Init, TypeOK
<1>5. Versions
  BY <1>1, <1>2, <1>3 DEF Versions, Numbered, Placed, SavesApart, HasCopy, Reindexing, Indexing, Backends
<1>6. Indexed
  BY <1>1, <1>2 DEF Indexed, Indexing
<1>7. Hiding
  BY <1>1 DEF Init, Hiding, Undisturbed, Backends
<1>8. Registered
  BY <1>1, <1>3 DEF Registered, Sourced, OneStandardPerSource, HasCopy, Indexing, Backends
<1> QED BY <1>4, <1>5, <1>6, <1>7, <1>8 DEF IInv

\* Nothing happened.
LEMMA StutterSafe ==
  ASSUME IInv, UNCHANGED vars
  PROVE  IInv'
<1>1. row' = row /\ history' = history /\ jobs' = jobs /\ index' = index /\ proc' = proc /\ ops' = ops
      /\ faults' = faults /\ torn' = torn /\ retired' = retired /\ stripped' = stripped /\ orphaned' = orphaned
  BY DEF vars
<1>2. Present' = Present /\ Dropped' = Dropped
  BY <1>1 DEF Present, Dropped
<1>3. TypeOK'
  BY <1>1 DEF IInv, TypeOK
<1>4. Versions'
  BY <1>1, <1>2 DEF IInv, Versions, Numbered, Placed, SavesApart, RowNamesNewest
<1>5. Indexed'
  BY <1>1 DEF IInv, Indexed, Wrote, OwnJob, KeysOf, Key
<1>6. Hiding'
  BY <1>1, <1>2 DEF IInv, Hiding, Undisturbed, Retired, Gone, Busy
<1>7. Registered'
  BY <1>1, <1>2 DEF IInv, Registered, Sourced, OneStandardPerSource, Existing
<1> QED BY <1>3, <1>4, <1>5, <1>6, <1>7 DEF IInv

LEMMA NextSafe ==
  ASSUME IInv, [Next]_vars
  PROVE  IInv'
<1>1. ASSUME NEW p \in Processes,
             \/ Create(p) \/ Update(p) \/ AddVersion(p) \/ SaveUpdate(p)
             \/ BeginDeactivate(p) \/ SaveInactive(p) \/ Exclude(p)
             \/ BeginReindex(p) \/ StartJob(p) \/ UpsertVectors(p) \/ UpsertKeywords(p)
             \/ SaveChunks(p) \/ SaveJob(p)
             \/ RequestFails(p) \/ Crash(p) \/ Raise(p)
      PROVE  IInv'
  <2>1. CASE Create(p) \/ Update(p) \/ AddVersion(p) \/ SaveUpdate(p)
    BY <2>1, CreateSafe, UpdateSafe, AddVersionSafe, SaveUpdateSafe
  <2>2. CASE BeginDeactivate(p) \/ SaveInactive(p) \/ Exclude(p)
    BY <2>2, BeginDeactivateSafe, SaveInactiveSafe, ExcludeSafe
  <2>3. CASE BeginReindex(p) \/ StartJob(p) \/ UpsertVectors(p) \/ UpsertKeywords(p)
    BY <2>3, BeginReindexSafe, StartJobSafe, UpsertVectorsSafe, UpsertKeywordsSafe
  <2>4. CASE SaveChunks(p) \/ SaveJob(p) \/ RequestFails(p)
    BY <2>4, SaveChunksSafe, SaveJobSafe, RequestFailsSafe
  <2>5. CASE Crash(p) \/ Raise(p)
    BY <2>5, StopsSafe DEF Crash, Raise, Busy
  <2> QED BY <1>1, <2>1, <2>2, <2>3, <2>4, <2>5
<1>2. CASE Ingest \/ Reparsed \/ IngestNew
  BY <1>2, IngestSafe, ReparsedSafe, IngestNewSafe
<1>3. CASE UNCHANGED vars
  BY <1>3, StutterSafe
<1> QED BY <1>1, <1>2, <1>3 DEF Next

LEMMA Inductive == Spec => []IInv
<1> QED BY InitSafe, NextSafe, PTL DEF Spec

\* Every operation of every process stays where the code can be, and every row,
\* version, job and document has its type.
THEOREM Types == Spec => []TypeOK
<1>1. IInv => TypeOK
  BY DEF IInv
<1> QED BY <1>1, Inductive, PTL

\* The versions of a standard are numbered one after the other and its row
\* names the newest, unless an update is under way, crashed between its two
\* transactions or was overlapped; and a file is registered once, unless an
\* update has dropped its hash: for every number of processes, standards,
\* files, operations and faults (StandardService.update, ReferenceIngestor).
THEOREM StandardsKeepTheirHistories == Spec => []HistoriesStand
<1>1. IInv => HistoriesStand
  <2> SUFFICES ASSUME IInv PROVE HistoriesStand
    OBVIOUS
  <2>1. VersionsAreOneHistory
    <3> SUFFICES ASSUME NEW s \in Present
                 PROVE  /\ \A i \in DOMAIN history[s] : history[s][i].n = i
                        /\ row[s].current \in DOMAIN history[s]
                        /\ \/ row[s].current = Len(history[s])
                           \/ s \in torn
                           \/ \E p \in Processes : proc[p].at = "save" /\ proc[p].std = s
      BY DEF VersionsAreOneHistory
    <3>1. Numbered(s) /\ RowNamesNewest(s) /\ row[s] # NoRow
      BY DEF IInv, Versions, Present
    <3> QED BY <3>1 DEF Numbered, RowNamesNewest
  <2>2. OneStandardPerSource
    BY DEF IInv, Registered
  <2> QED BY <2>1, <2>2 DEF HistoriesStand
<1> QED BY <1>1, Inductive, PTL

\* What the rows call ACTIVE, and what a reindexing that succeeded has sent, is
\* in the index; a RUNNING job has one worker or was orphaned; and what was
\* retired undisturbed is found by no search on any day: for every number of
\* processes, chunks, operations and faults (StandardService.reindex, deactivate).
THEOREM RowsTellTheIndexes == Spec => []IndexesFollowRows
<1>1. IInv => IndexesFollowRows
  <2> SUFFICES ASSUME IInv PROVE IndexesFollowRows
    OBVIOUS
  <2>1. ASSUME NEW s \in Present, NEW i \in DOMAIN history[s], NEW b \in Backends,
               history[s][i].status[b] = "ACTIVE"
        PROVE  KeysOf(s, history[s][i].n) \subseteq index[b].held
    BY <2>1 DEF IInv, Indexed, Versions, Numbered, Present
  <2>2. ASSUME NEW j \in DOMAIN jobs, jobs[j].state = "SUCCEEDED", NEW b \in jobs[j].targets
        PROVE  KeysOf(jobs[j].std, history[jobs[j].std][jobs[j].i].n) \subseteq index[b].held
    <3>1. jobs[j] \in Job
      BY DEF IInv, TypeOK
    <3>2. jobs[j].std \in StandardIds /\ jobs[j].i \in DOMAIN history[jobs[j].std]
      BY <3>1 DEF IInv, Indexed, Job
    <3> QED BY <2>2, <3>2 DEF IInv, Indexed, Versions, Numbered
  <2>3. ASSUME NEW j \in DOMAIN jobs
        PROVE  LET workers == {p \in Processes : proc[p].at \in Indexing /\ proc[p].job = j}
               IN IF jobs[j].state = "RUNNING" THEN j \in orphaned \/ Cardinality(workers) = 1
                  ELSE workers = {}
    <3> DEFINE workers == {p \in Processes : proc[p].at \in Indexing /\ proc[p].job = j}
    <3>1. \A p, q \in workers : p = q
      BY DEF IInv, Indexed
    <3>2. ASSUME NEW p \in workers PROVE jobs[j].state = "RUNNING"
      <4>1. OwnJob(proc[p]) /\ proc[p].job = j
        BY DEF IInv, Indexed
      <4> QED BY <4>1 DEF OwnJob
    <3>3. jobs[j].state = "RUNNING" => j \in orphaned \/ \E p \in Processes : p \in workers
      BY DEF IInv, Indexed
    <3> HIDE DEF workers
    <3>4. ASSUME NEW p \in workers PROVE Cardinality(workers) = 1
      <4>1. workers = {p}
        BY <3>1
      <4> QED BY <4>1, FS_Singleton
    <3>5. IF jobs[j].state = "RUNNING" THEN j \in orphaned \/ Cardinality(workers) = 1 ELSE workers = {}
      BY <3>2, <3>3, <3>4
    <3> QED BY <3>5 DEF workers
  <2>4. ActiveMeansIndexed
    BY <2>1, <2>2, <2>3 DEF ActiveMeansIndexed
  <2>5. RetiredIsGone
    <3> SUFFICES ASSUME NEW s \in retired
                 PROVE  /\ \A day \in Days : VersionOn(s, day) = 0
                        /\ \A mode \in {"KEYWORD", "VECTOR", "HYBRID"}, day \in Days :
                             \A k \in Found(mode, day) : k[1] # s
      BY DEF RetiredIsGone
    <3>1. ~row[s].active /\ \A b \in Backends : Gone(s, b)
      BY DEF IInv, Hiding, Retired
    <3>2. \A day \in Days : VersionOn(s, day) = 0
      BY <3>1 DEF VersionOn
    <3>3. \A b \in Backends, day \in Days : \A k \in BackendHits(b, day) : k[1] # s
      BY <3>1 DEF BackendHits, Gone
    <3>4. ASSUME NEW mode \in {"KEYWORD", "VECTOR", "HYBRID"}, NEW day \in Days, NEW k \in Found(mode, day)
          PROVE  k[1] # s
      <4>1. \E b \in Backends : k \in BackendHits(b, day)
        BY DEF Found, Backends
      <4> QED BY <3>3, <4>1
    <3> QED BY <3>2, <3>4
  <2> QED BY <2>4, <2>5 DEF IndexesFollowRows
<1> QED BY <1>1, Inductive, PTL

=============================================================================
