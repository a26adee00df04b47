------------------------------ MODULE Standards ------------------------------
(***************************************************************************)
(* The reference standards of the product backend: their rows and versions *)
(* in PostgreSQL, their documents in OpenSearch (keyword) and Qdrant       *)
(* (vector), and the operations of StandardService on both.  An operation  *)
(* is a sequence of transactions and HTTP requests, and a crash may come   *)
(* between any two.  The API process runs one operation at a time; the     *)
(* ingestion program, which calls the same service, runs beside it.        *)
(*                                                                         *)
(* A text is not modelled, nor the score of a hit.  A version has the days *)
(* it is in force; day 0 stands for "no date".  A version has the chunks   *)
(* Chunks, in the order in which Qdrant gets them in batches.              *)
(***************************************************************************)
EXTENDS Naturals, SequencesExt

CONSTANTS
    StandardIds,
    Sources,       \* contents of reference files
    Apis, Ingestor,\* processes of the API, and the ingestion program
    Chunks,        \* a sequence: the batches of a version's chunks
    Days,          \* dates to ask for
    Dates,         \* periods of force: from a day to a day, 0 for none
    Keeps,         \* what an update of the API may keep of the metadata: {"source", "parser"}
    MaxVersions,   \* bound on the versions of a standard
    MaxOps,        \* bound on operations that are begun
    MaxFaults      \* bound on crashes and failed requests

\* create and ck_standard_versions_effective_window refuse any other period.
ASSUME DatesAreOrdered == \A d \in Dates : d.from # 0 /\ d.to # 0 => d.from <= d.to

\* A text that is not blank has a chunk (direct_text_chunks).
ASSUME ChunksAssumption == Chunks \in Seq(ToSet(Chunks)) /\ Chunks # <<>>

\* "none" stands for no standard and for a row without the hash of a source.
ASSUME NoneIsFree == "none" \notin StandardIds /\ "none" \notin Sources

VARIABLES
    row,       \* rag.standards
    history,   \* rag.standard_versions with the index statuses of their chunks
    jobs,      \* rag.standard_reindex_jobs
    index,     \* the documents of both indexes, and those marked active
    proc,      \* what each process is doing
    ops, faults,   \* operations begun, crashes and failed requests
    \* ghosts:
    torn,      \* standards whose update crashed halfway or was overlapped
    retired,   \* standards whose deactivation succeeded, undisturbed
    stripped,  \* sources whose hash an update of the API has dropped
    orphaned   \* jobs whose process crashed or raised

vars == <<row, history, jobs, index, proc, ops, faults, torn, retired, stripped, orphaned>>

Processes == Apis \cup {Ingestor}
Backends == {"QDRANT", "OPENSEARCH"}
NoRow == [active |-> FALSE, current |-> 0, source |-> "none", parsed |-> FALSE]
NoDates == [from |-> 0, to |-> 0]
Present == {s \in StandardIds : row[s] # NoRow}

Key(s, n, c) == <<s, n, c>>
KeysOf(s, n) == {Key(s, n, c) : c \in ToSet(Chunks)}
Pending == [b \in Backends |-> "PENDING"]

\* Where an operation is, its standard, and what it has read or worked out.
Idle == [at |-> "idle", std |-> "none", copy |-> NoRow, n |-> 0, dates |-> NoDates, source |-> "none",
         parsed |-> FALSE, i |-> 0, targets |-> {}, job |-> 0, next |-> 0, outcome |-> "SUCCEEDED",
         status |-> Pending, alone |-> FALSE]
Op(at, s) == [Idle EXCEPT !.at = at, !.std = s]
Busy(p) == proc[p].at # "idle"
Indexing == {"vectors", "keywords", "chunks", "end"}

Init ==
    /\ row = [s \in StandardIds |-> NoRow]
    /\ history = [s \in StandardIds |-> <<>>]
    /\ jobs = <<>>
    /\ index = [b \in Backends |-> [held |-> {}, shown |-> {}]]
    /\ proc = [p \in Processes |-> Idle]
    /\ ops = 0 /\ faults = 0
    /\ torn = {} /\ retired = {} /\ stripped = {} /\ orphaned = {}

Rows == <<row, history, jobs>>
Ghosts == <<torn, retired, stripped, orphaned>>

Counted == ops < MaxOps /\ ops' = ops + 1

\* An operation begins: it and every other one on the standard overlap.
Begin(p, op) ==
    LET others == {q \in Processes \ {p} : Busy(q) /\ proc[q].std = op.std}
    IN proc' = [q \in Processes |->
                  IF q = p THEN [op EXCEPT !.alone = others = {} /\ (Busy(p) => proc[p].alone)]
                  ELSE IF q \in others THEN [proc[q] EXCEPT !.alone = FALSE] ELSE proc[q]]

\* It goes on; the ingestion program reindexes what it has written.
Goes(p, op) == proc' = [proc EXCEPT ![p] = op]
Ends(p) ==
    Goes(p, IF p = Ingestor
            THEN [Op("index", proc[p].std) EXCEPT !.n = proc[p].n, !.alone = proc[p].alone]
            ELSE Idle)

-----------------------------------------------------------------------------
(* Registration *)

\* _identifier: one that is not taken.
NewId == CHOOSE s \in StandardIds : s \notin Present

\* create: the standard, its version 1.0 and its chunks in one transaction.
Inserted(s, source, parsed, dates) ==
    /\ row' = [row EXCEPT ![s] = [active |-> TRUE, current |-> 1, source |-> source, parsed |-> parsed]]
    /\ history' = [history EXCEPT ![s] = <<[n |-> 1, dates |-> dates, status |-> Pending]>>]
    /\ UNCHANGED <<jobs, index, faults, Ghosts>>

\* A request gives no hash of a source; the ingestion adds it to the metadata.
Create(p) ==
    /\ p \in Apis /\ ~Busy(p) /\ Counted
    /\ StandardIds # Present
    /\ \E dates \in Dates : Inserted(NewId, "none", FALSE, dates)
    /\ UNCHANGED proc

-----------------------------------------------------------------------------
(* A new version *)

\* Mutant: the numbers of the versions are not unique.
NumberFree(s, n) == FALSE

NumberTaken(s, n) == \E i \in DOMAIN history[s] : history[s][i].n = n

NextVersion(copy) == copy.current + 1

\* update reads the standard, which must be active.  The metadata of the
\* request replace those of the standard: those of the API may lack the hash
\* of the source and what the parser noted, those of the ingestion have both.
BeginUpdate(p, s, source, parsed, periods) ==
    /\ row[s].active
    /\ \E dates \in periods :
          Begin(p, [Op("update", s) EXCEPT !.copy = row[s], !.n = NextVersion(row[s]), !.dates = dates,
                                           !.source = source, !.parsed = parsed])
    /\ UNCHANGED <<Rows, index, faults, Ghosts>>

Update(p) ==
    /\ p \in Apis /\ ~Busy(p) /\ Counted
    /\ \E s \in Present, kept \in Keeps :
          BeginUpdate(p, s, IF "source" \in kept THEN row[s].source ELSE "none",
                      "parser" \in kept /\ row[s].parsed, Dates)

\* add_version: a transaction of its own, refused by uk_standard_versions.
AddVersion(p) ==
    /\ proc[p].at = "update"
    /\ LET op == proc[p]
       IN IF NumberTaken(op.std, op.n)
          THEN /\ Goes(p, Idle)
               /\ UNCHANGED history
          ELSE /\ Len(history[op.std]) < MaxVersions
               /\ history' = [history EXCEPT ![op.std] =
                    Append(@, [n |-> op.n, dates |-> op.dates, status |-> Pending])]
               /\ Goes(p, [op EXCEPT !.at = "save"])
    /\ UNCHANGED <<row, jobs, index, ops, faults, Ghosts>>

\* The row is stale when another operation has written it since it was read.
Stale(op) == row[op.std] # op.copy

\* save_standard writes every column of the copy that update has read.
SaveUpdate(p) ==
    /\ proc[p].at = "save"
    /\ LET op == proc[p]
       IN /\ row' = [row EXCEPT ![op.std] = [active |-> op.copy.active, current |-> op.n,
                                             source |-> op.source, parsed |-> op.parsed]]
          /\ torn' = IF Stale(op) THEN torn \cup {op.std} ELSE torn
          /\ stripped' = IF op.source # op.copy.source THEN stripped \cup {op.copy.source} ELSE stripped
          /\ Ends(p)
    /\ UNCHANGED <<history, jobs, index, ops, faults, retired, orphaned>>

-----------------------------------------------------------------------------
(* Deactivation *)

BeginDeactivate(p) ==
    /\ p \in Apis /\ ~Busy(p) /\ Counted
    /\ \E s \in Present : Begin(p, [Op("retire", s) EXCEPT !.copy = row[s]])
    /\ UNCHANGED <<Rows, index, faults, Ghosts>>

\* save_standard of an inactive standard excludes all its chunks as well.
SaveInactive(p) ==
    /\ proc[p].at = "retire"
    /\ LET op == proc[p]
       IN /\ row' = [row EXCEPT ![op.std] = [op.copy EXCEPT !.active = FALSE]]
          /\ history' = [history EXCEPT ![op.std] =
                [i \in DOMAIN @ |-> [@[i] EXCEPT !.status = [b \in Backends |-> "EXCLUDED"]]]]
          /\ torn' = IF Stale(op) THEN torn \cup {op.std} ELSE torn
          /\ Goes(p, [op EXCEPT !.at = "OPENSEARCH"])
    /\ UNCHANGED <<jobs, index, ops, faults, retired, stripped, orphaned>>

Hidden(docs, s) == [docs EXCEPT !.shown = {k \in @ : k[1] # s}]

\* exclude marks the documents of the standard, first in OpenSearch.
Exclude(p) ==
    /\ proc[p].at \in Backends
    /\ LET op == proc[p]
       IN /\ index' = [index EXCEPT ![op.at] = Hidden(@, op.std)]
          /\ IF op.at = "OPENSEARCH"
             THEN Goes(p, [op EXCEPT !.at = "QDRANT"]) /\ UNCHANGED retired
             ELSE /\ Goes(p, Idle)
                  /\ retired' = IF op.alone THEN retired \cup {op.std} ELSE retired
    /\ UNCHANGED <<Rows, ops, faults, torn, stripped, orphaned>>

-----------------------------------------------------------------------------
(* Indexing *)

\* reindex reads the standard, active or not, and the version.
BeginReindex(p) ==
    /\ \E s \in Present : \E i \in DOMAIN history[s], targets \in SUBSET Backends \ {{}} :
          /\ \/ p \in Apis /\ ~Busy(p) /\ Counted
             \/ /\ UNCHANGED ops
                /\ p = Ingestor /\ proc[p].at = "index" /\ proc[p].std = s
                /\ proc[p].n = history[s][i].n /\ targets = Backends
          /\ Begin(p, [Op("job", s) EXCEPT !.copy = row[s], !.i = i, !.targets = targets])
    /\ UNCHANGED <<Rows, index, faults, Ghosts>>

\* The job is RUNNING, and the chunks are read with their statuses.
StartJob(p) ==
    /\ proc[p].at = "job"
    /\ LET op == proc[p]
       IN /\ jobs' = Append(jobs, [std |-> op.std, i |-> op.i, targets |-> op.targets, state |-> "RUNNING"])
          /\ Goes(p, [op EXCEPT !.at = "vectors", !.job = Len(jobs) + 1, !.next = 1,
                               !.outcome = "SUCCEEDED", !.status = history[op.std][op.i].status])
    /\ UNCHANGED <<row, history, index, ops, faults, Ghosts>>

\* The documents carry the is_active of the standard that reindex has read.
Put(docs, keys, active) ==
    [held |-> docs.held \cup keys, shown |-> IF active THEN docs.shown \cup keys ELSE docs.shown \ keys]

\* Mutant: the last batch is left out.
MoreButLast(op) == op.next + 1 < Len(Chunks)

MoreBatches(op) == op.next < Len(Chunks)

\* Qdrant gets one batch after the other.
UpsertVectors(p) ==
    /\ proc[p].at = "vectors"
    /\ LET op == proc[p]
           n == history[op.std][op.i].n
       IN IF "QDRANT" \notin op.targets
          THEN Goes(p, [op EXCEPT !.at = "keywords"]) /\ UNCHANGED index
          ELSE /\ index' = [index EXCEPT !["QDRANT"] = Put(@, {Key(op.std, n, Chunks[op.next])}, op.copy.active)]
               /\ Goes(p, IF MoreBatches(op) THEN [op EXCEPT !.next = @ + 1]
                          ELSE [op EXCEPT !.at = "keywords", !.status["QDRANT"] = "ACTIVE"])
    /\ UNCHANGED <<Rows, ops, faults, Ghosts>>

\* OpenSearch gets them in one bulk request.
UpsertKeywords(p) ==
    /\ proc[p].at = "keywords"
    /\ LET op == proc[p]
           n == history[op.std][op.i].n
       IN IF "OPENSEARCH" \notin op.targets
          THEN Goes(p, [op EXCEPT !.at = "chunks"]) /\ UNCHANGED index
          ELSE /\ index' = [index EXCEPT !["OPENSEARCH"] = Put(@, KeysOf(op.std, n), op.copy.active)]
               /\ Goes(p, [op EXCEPT !.at = "chunks", !.status["OPENSEARCH"] = "ACTIVE"])
    /\ UNCHANGED <<Rows, ops, faults, Ghosts>>

Failed(status, b) == [status EXCEPT ![b] = "FAILED"]

\* A request fails, a bulk request after some documents have been written.
\* Only reindex catches it.
RequestFails(p) ==
    /\ faults < MaxFaults
    /\ proc[p].at \in {"vectors", "keywords"} \cup Backends
    /\ LET op == proc[p]
           b == CASE op.at = "vectors" -> "QDRANT" [] op.at = "keywords" -> "OPENSEARCH" [] OTHER -> op.at
       IN IF op.at \in Backends
          THEN Goes(p, Idle) /\ UNCHANGED index
          ELSE /\ b \in op.targets
               /\ Goes(p, [op EXCEPT !.at = "chunks", !.outcome = "FAILED", !.status = Failed(@, b)])
               /\ \E some \in SUBSET KeysOf(op.std, history[op.std][op.i].n) :
                     /\ op.at = "vectors" => some = {}
                     /\ index' = [index EXCEPT ![b] = Put(@, some, op.copy.active)]
    /\ faults' = faults + 1
    /\ UNCHANGED <<Rows, ops, Ghosts>>

\* save_chunks, then save_reindex_job.
SaveChunks(p) ==
    /\ proc[p].at = "chunks"
    /\ LET op == proc[p]
       IN /\ history' = [history EXCEPT ![op.std][op.i].status = op.status]
          /\ Goes(p, [op EXCEPT !.at = "end"])
    /\ UNCHANGED <<row, jobs, index, ops, faults, Ghosts>>

Settled(op) == [jobs EXCEPT ![op.job].state = op.outcome]

SaveJob(p) ==
    /\ proc[p].at = "end"
    /\ jobs' = Settled(proc[p])
    /\ Goes(p, Idle)
    /\ UNCHANGED <<row, history, index, ops, faults, Ghosts>>

-----------------------------------------------------------------------------
(* The ingestion of a reference file *)

Existing(source) == {s \in Present : row[s].source = source}

\* A file that is known is indexed again, and first parsed again if the
\* parser's provenance is missing.
Ingest ==
    /\ ~Busy(Ingestor) /\ Counted
    /\ \E source \in Sources :
          \/ /\ Existing(source) = {} /\ StandardIds # Present
             /\ proc' = [proc EXCEPT ![Ingestor] =
                  [Op("create", "none") EXCEPT !.source = source, !.alone = TRUE]]
          \/ \E s \in Existing(source) :
                Begin(Ingestor, IF row[s].parsed
                                THEN [Op("index", s) EXCEPT !.n = row[s].current]
                                ELSE [Op("parse", s) EXCEPT !.n = row[s].current, !.source = source])
    /\ UNCHANGED <<Rows, index, faults, Ghosts>>

\* The metadata and dates are those read before parsing; an inactive standard
\* refuses the update.
Reparsed ==
    /\ proc[Ingestor].at = "parse"
    /\ LET op == proc[Ingestor]
           read == {history[op.std][i].dates : i \in {j \in DOMAIN history[op.std] : history[op.std][j].n = op.n}}
       IN \/ BeginUpdate(Ingestor, op.std, op.source, TRUE, read) /\ UNCHANGED ops
          \/ ~row[op.std].active /\ Goes(Ingestor, Idle) /\ UNCHANGED <<Rows, index, ops, faults, Ghosts>>

\* The file has been parsed and classified: a new standard is created.
IngestNew ==
    /\ proc[Ingestor].at = "create"
    /\ StandardIds # Present
    /\ \E dates \in Dates : Inserted(NewId, proc[Ingestor].source, TRUE, dates)
    /\ Begin(Ingestor, [Op("index", NewId) EXCEPT !.n = 1])
    /\ UNCHANGED ops

-----------------------------------------------------------------------------
(* Crashes, and errors that nobody catches: a vector of the wrong size *)

Stops(p) ==
    LET op == proc[p]
    IN /\ Goes(p, Idle)
       /\ faults' = faults + 1
       /\ torn' = IF op.at = "save" THEN torn \cup {op.std} ELSE torn
       /\ orphaned' = IF op.at \in Indexing THEN orphaned \cup {op.job} ELSE orphaned
       /\ UNCHANGED <<Rows, ops, index, retired, stripped>>

Crash(p) == faults < MaxFaults /\ Busy(p) /\ Stops(p)
Raise(p) == faults < MaxFaults /\ proc[p].at = "vectors" /\ "QDRANT" \in proc[p].targets /\ Stops(p)

Next ==
    \/ \E p \in Processes :
          \/ Create(p) \/ Update(p) \/ AddVersion(p) \/ SaveUpdate(p)
          \/ BeginDeactivate(p) \/ SaveInactive(p) \/ Exclude(p)
          \/ BeginReindex(p) \/ StartJob(p) \/ UpsertVectors(p) \/ UpsertKeywords(p)
          \/ SaveChunks(p) \/ SaveJob(p)
          \/ RequestFails(p) \/ Crash(p) \/ Raise(p)
    \/ Ingest \/ Reparsed \/ IngestNew

Spec == Init /\ [][Next]_vars

-----------------------------------------------------------------------------
(* Readers *)

InForce(v, day) == v.dates.from <= day /\ (v.dates.to = 0 \/ v.dates.to >= day)

\* version_on: the latest date, then the highest number.
VersionOn(s, day) ==
    LET eligible == {i \in DOMAIN history[s] : InForce(history[s][i], day)}
    IN IF ~row[s].active \/ eligible = {} THEN 0
       ELSE CHOOSE i \in eligible : \A j \in eligible :
              \/ history[s][j].dates.from < history[s][i].dates.from
              \/ /\ history[s][j].dates.from = history[s][i].dates.from
                 /\ history[s][j].n <= history[s][i].n

\* What a backend finds on a day: active documents of versions in force.
BackendHits(b, day) ==
    {k \in index[b].shown : \A i \in DOMAIN history[k[1]] :
        history[k[1]][i].n = k[2] => InForce(history[k[1]][i], day)}

\* A hybrid search takes the hits of both, and fails with either.
Found(mode, day) ==
    UNION {BackendHits(b, day) : b \in CASE mode = "KEYWORD" -> {"OPENSEARCH"}
                                         [] mode = "VECTOR" -> {"QDRANT"}
                                         [] OTHER -> Backends}

-----------------------------------------------------------------------------
(* Properties *)

\* The versions of a standard are numbered one after the other, whoever
\* updates it at the same time, and its row names one of them: the newest,
\* unless an update is between its two transactions, has crashed there or has
\* overlapped another operation (update, add_version, uk_standard_versions).
VersionsAreOneHistory ==
    \A s \in Present :
        /\ \A i \in DOMAIN history[s] : history[s][i].n = i
        /\ row[s].current \in DOMAIN history[s]
        /\ \/ row[s].current = Len(history[s])
           \/ s \in torn
           \/ \E p \in Processes : proc[p].at = "save" /\ proc[p].std = s

\* A chunk that the database calls ACTIVE in an index has its document there,
\* and so have all chunks of a reindexing that is said to have succeeded,
\* whatever failed or crashed in between (reindex, save_chunks).  A job that is
\* RUNNING has a process that will settle it, unless that process crashed or
\* raised what reindex does not catch; nobody works on a settled one.
ActiveMeansIndexed ==
    /\ \A s \in Present : \A i \in DOMAIN history[s], b \in Backends :
          history[s][i].status[b] = "ACTIVE" => KeysOf(s, history[s][i].n) \subseteq index[b].held
    /\ \A j \in DOMAIN jobs : jobs[j].state = "SUCCEEDED" =>
          \A b \in jobs[j].targets :
             KeysOf(jobs[j].std, history[jobs[j].std][jobs[j].i].n) \subseteq index[b].held
    /\ \A j \in DOMAIN jobs :
          LET workers == {p \in Processes : proc[p].at \in Indexing /\ proc[p].job = j}
          IN IF jobs[j].state = "RUNNING" THEN j \in orphaned \/ Cardinality(workers) = 1
             ELSE workers = {}

\* A standard whose deactivation was answered with success, and overlapped no
\* other operation, is never found again: in no search, on no day, whatever
\* is reindexed or ingested later (deactivate, exclude, _document).
RetiredIsGone ==
    \A s \in retired :
        /\ \A day \in Days : VersionOn(s, day) = 0
        /\ \A mode \in {"KEYWORD", "VECTOR", "HYBRID"}, day \in Days :
              \A k \in Found(mode, day) : k[1] # s

\* What the rows say of the indexes is so, for the active and for the retired.
IndexesFollowRows == ActiveMeansIndexed /\ RetiredIsGone

\* A reference file is registered once, however often it is ingested and
\* wherever the ingestion crashed, unless an update has dropped its hash
\* ("deduplicate them", ReferenceIngestor).
OneStandardPerSource ==
    \A s, t \in Present :
        s # t /\ row[s].source = row[t].source /\ row[s].source # "none" => row[s].source \in stripped

\* The versions of a standard are one history, and a reference file has one
\* standard.
HistoriesStand == VersionsAreOneHistory /\ OneStandardPerSource

=============================================================================
