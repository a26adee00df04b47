---------------------------- MODULE Advertisements ----------------------------
(***************************************************************************)
(* Registration of advertisements and of their revisions, and deletion:    *)
(* AdvertisementService over the object storage and one of the two         *)
(* repositories.  The objects of a request are stored before its rows are  *)
(* committed and are taken back when the request fails; a deletion commits *)
(* first and removes the objects afterwards.                               *)
(*                                                                         *)
(* The routes run blocking code on the event loop of their process, so     *)
(* requests interleave only between processes.  The in-memory repository   *)
(* lives in one process.  Audit events are read by nothing here and are    *)
(* left out, and so is the development switch that admits repeated files.  *)
(***************************************************************************)
EXTENDS Naturals, Sequences, SequencesExt, FiniteSetsExt
CONSTANTS
    Apis,        \* processes of the backend
    Uploads,     \* the uploads of a registration: sequences of checksums, Invalid for a refused file
    Invalid,
    MaxRequests, MaxFaults      \* bounds

\* A registration without a file is refused before anything is stored (services.py:279).
UploadsAreFiles == \A uploads \in Uploads : uploads \in Seq(ToSet(uploads)) /\ uploads # <<>>
VARIABLES
    engine,      \* "memory" or "postgres"
    ads,         \* sequence: is advertisement i deleted?
    rows,        \* advertisement_files: advertisement, revision number (0: original), checksum, object
    objects,     \* keys of the objects in storage
    proc,        \* the request a process is serving
    keys, requests, faults,     \* counters: keys issued, requests begun, faults met
    litter,      \* objects that a fault left behind
    torn         \* objects of rows whose commit was answered with an error

vars == <<engine, ads, rows, objects, proc, keys, requests, faults, litter, torn>>
tables == <<ads, rows>>

Idle == [at |-> "idle", op |-> "none", ad |-> 0, left |-> <<>>, stored |-> <<>>, no |-> 0, seen |-> {}]
Live == {a \in DOMAIN ads : ~ads[a]}
KeysOf(stored) == {stored[i].key : i \in DOMAIN stored}
Sums(stored) == {stored[i].sum : i \in DOMAIN stored}
RowsOf(a) == {r \in rows : r.ad = a}

\* The in-memory repository forgets the rows of a deleted advertisement, the
\* database keeps them and its duplicate check still meets them.
Registered == IF engine = "memory" THEN {r \in rows : r.ad \in Live} ELSE rows
Duplicate(stored) == \E r \in Registered : r.sum \in Sums(stored)

\* Mutant: a revision does not lock its advertisement.
LockedByNobody(a) == FALSE
\* A revision holds the row lock of its advertisement from its check to its commit.
Locked(a) == \E p \in Apis : proc[p].at = "inserting" /\ proc[p].op = "revision" /\ proc[p].ad = a

Becomes(p, request) == proc' = [proc EXCEPT ![p] = request]
\* except Exception: what was stored is taken back object by object.
Fails(p) == Becomes(p, [proc[p] EXCEPT !.at = IF proc[p].stored = <<>> THEN "idle" ELSE "removing"])
Fault == faults < MaxFaults /\ faults' = faults + 1

Init ==
    /\ engine \in {"memory", "postgres"}
    /\ ads = <<>> /\ rows = {} /\ objects = {} /\ litter = {} /\ torn = {}
    /\ proc = [p \in Apis |-> Idle]
    /\ keys = 0 /\ requests = 0 /\ faults = 0

\* A request is accepted once the process is free; the in-memory process is alone.
Accepts(p) ==
    /\ proc[p].at = "idle" /\ requests < MaxRequests /\ requests' = requests + 1
    /\ engine = "memory" => \A q \in Apis : proc[q].at = "idle"

Create(p, uploads) ==
    /\ Accepts(p)
    /\ Becomes(p, [Idle EXCEPT !.at = "storing", !.op = "create", !.left = uploads])
    /\ UNCHANGED <<engine, tables, objects, keys, faults, litter, torn>>

CreateRevision(p, a, sum) ==
    /\ Accepts(p) /\ a \in Live
    /\ Becomes(p, [Idle EXCEPT !.at = "storing", !.op = "revision", !.ad = a, !.left = <<sum>>])
    /\ UNCHANGED <<engine, tables, objects, keys, faults, litter, torn>>

\* validate_upload, the check within the request, and storage.put of the next file.
Store(p) ==
    /\ proc[p].at = "storing" /\ proc[p].left # <<>>
    /\ LET sum == Head(proc[p].left)
       IN  IF sum = Invalid \/ sum \in Sums(proc[p].stored)
           THEN Fails(p) /\ UNCHANGED <<objects, keys>>
           ELSE /\ keys' = keys + 1 /\ objects' = objects \union {keys'}
                /\ Becomes(p, [proc[p] EXCEPT !.left = Tail(@), !.stored = Append(@, [sum |-> sum, key |-> keys'])])
    /\ UNCHANGED <<engine, tables, requests, faults, litter, torn>>

\* storage.put raises; the object may have been written.
StoreFails(p) ==
    /\ proc[p].at = "storing" /\ proc[p].left # <<>> /\ Fault /\ Fails(p)
    /\ keys' = keys + 1
    /\ \E written \in SUBSET {keys'} : objects' = objects \union written /\ litter' = litter \union written
    /\ UNCHANGED <<engine, tables, requests, torn>>

\* The checks with which add_advertisement and add_revision open their
\* transaction; a revision waits for the lock and takes the next number.
Check(p) ==
    /\ proc[p].at = "storing" /\ proc[p].left = <<>>
    /\ proc[p].op = "revision" => ~Locked(proc[p].ad)
    /\ IF Duplicate(proc[p].stored) \/ (proc[p].op = "revision" /\ proc[p].ad \notin Live)
       THEN Fails(p)
       ELSE Becomes(p, [proc[p] EXCEPT !.at = "inserting", !.seen = {r.key : r \in Registered},
                !.no = IF proc[p].op = "create" THEN 0 ELSE 1 + Max({r.no : r \in RowsOf(proc[p].ad)})])
    /\ UNCHANGED <<engine, tables, objects, keys, requests, faults, litter, torn>>

\* The rows of the request become visible together.
Insert(p) ==
    LET a == IF proc[p].op = "create" THEN Len(ads) + 1 ELSE proc[p].ad
    IN  /\ ads' = IF proc[p].op = "create" THEN Append(ads, FALSE) ELSE ads
        /\ rows' = rows \union {[ad |-> a, no |-> proc[p].no, sum |-> f.sum, key |-> f.key, seen |-> proc[p].seen] :
                                    f \in ToSet(proc[p].stored)}

Commit(p) ==
    /\ proc[p].at = "inserting" /\ Insert(p) /\ Becomes(p, Idle)
    /\ UNCHANGED <<engine, objects, keys, requests, faults, litter, torn>>
\* The database refuses: the transaction is rolled back.
CommitFails(p) ==
    /\ proc[p].at = "inserting" /\ engine = "postgres" /\ Fault /\ Fails(p)
    /\ UNCHANGED <<engine, tables, objects, keys, requests, litter, torn>>
\* The answer to the commit is lost: the rows stand and the handler takes the objects back.
CommitAnswerLost(p) ==
    /\ proc[p].at = "inserting" /\ engine = "postgres" /\ Fault /\ Insert(p) /\ Fails(p)
    /\ torn' = torn \union KeysOf(proc[p].stored)
    /\ UNCHANGED <<engine, objects, keys, requests, litter>>

\* The row is marked (or dropped) in one transaction, which returns its files.
Delete(p, a) ==
    /\ Accepts(p) /\ a \in Live /\ ~Locked(a)
    /\ ads' = [ads EXCEPT ![a] = TRUE]
    /\ rows' = IF engine = "memory" THEN rows \ RowsOf(a) ELSE rows
    /\ Becomes(p, [Idle EXCEPT !.at = "removing", !.op = "delete",
            !.stored = SetToSeq({[sum |-> r.sum, key |-> r.key] : r \in RowsOf(a)})])
    /\ UNCHANGED <<engine, objects, keys, faults, litter, torn>>

\* storage.delete of the next object; a missing object is no error.
RemoveObject(p) ==
    /\ proc[p].at = "removing"
    /\ objects' = objects \ {Head(proc[p].stored).key}
    /\ Becomes(p, IF Len(proc[p].stored) = 1 THEN Idle ELSE [proc[p] EXCEPT !.stored = Tail(@)])
    /\ UNCHANGED <<engine, tables, keys, requests, faults, litter, torn>>

\* storage.delete raises, or the process dies: nobody comes back for the rest.
Abandon(p) ==
    /\ proc[p].at # "idle" /\ Fault /\ Becomes(p, Idle)
    /\ engine = "memory" => proc[p].at = "removing"
    /\ litter' = litter \union (objects \cap KeysOf(proc[p].stored))
    /\ UNCHANGED <<engine, tables, objects, keys, requests, torn>>

Next == \E p \in Apis :
    \/ \E uploads \in Uploads : Create(p, uploads)
    \/ \E a \in Live, uploads \in Uploads : CreateRevision(p, a, Head(uploads))
    \/ \E a \in Live : Delete(p, a)
    \/ Store(p) \/ StoreFails(p) \/ Check(p)
    \/ Commit(p) \/ CommitFails(p) \/ CommitAnswerLost(p)
    \/ RemoveObject(p) \/ Abandon(p)
Spec == Init /\ [][Next]_vars

InHand == UNION {KeysOf(proc[p].stored) : p \in Apis}
\* Every file of a visible advertisement has its object, and every object is a
\* file of one, or in the hands of a request, or left by a fault: the undoing
\* of a request takes nothing that another has registered (services.py:291-332,
\* 357-379, 430-440).
FilesHaveObjects ==
    /\ \A r \in rows : r.ad \in Live /\ r.key \notin torn => r.key \in objects
    /\ objects \subseteq {r.key : r \in {f \in rows : f.ad \in Live}} \union InHand \union litter

\* The revisions of an advertisement are numbered 1, 2, ... with one file each,
\* and two files of one checksum were registered by requests that did not see
\* each other (repository.py:426-538).
OneHistory ==
    /\ \A a \in Live : LET revised == {r \in RowsOf(a) : r.no > 0}
                       IN  {r.no : r \in revised} = 1..Cardinality(revised)
    /\ \A r, s \in Registered : r.sum = s.sum => s.key \notin r.seen

\* The files of the visible advertisements have their objects, and nothing else
\* has one; revisions are numbered and checksums registered once, one after
\* another.
RegistrationsStand == FilesHaveObjects /\ OneHistory
=============================================================================
