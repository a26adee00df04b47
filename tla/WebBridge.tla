------------------------------ MODULE WebBridge ------------------------------
(***************************************************************************)
(* The web bridge of the operational stack (scripts/                       *)
(* operational_web_bridge.py): the HTTP handlers that request, cancel and  *)
(* delete reviews, the pool of review threads that parse, submit to the    *)
(* RAG service and wait for it, and the two JSON files that survive a      *)
(* restart.  The RAG service lives in the same process; its job of each    *)
(* review is that of RagLifecycle.                                         *)
(*                                                                         *)
(* A block under the bridge's lock is one action, except for a crash       *)
(* between its file writes; what runs without the lock (the run between    *)
(* two stages, the exception handler) interleaves with it.                 *)
(***************************************************************************)
EXTENDS Naturals, Sequences, FiniteSets, SequencesExt

CONSTANTS
  Ad,           \* advertisements, registered and routed
  Review,       \* review ids that request may draw
  Thread,       \* threads of the pool (review_workers)
  MaxAttempts,  \* max_attempts of the RAG service
  MaxStops,     \* bound: shutdowns and crashes of one behaviour
  None

VARIABLES
  book,     \* reviews and advertisements in memory, what web-state.json holds
  items,    \* the reviews that have result items in memory
  disk,     \* web-state.json
  results,  \* web-results.json
  active,   \* ids of reviews that the pool works on
  pool,     \* work items of the pool
  thread,   \* local state of the pool's threads
  process,  \* up, stopping or down
  stops,
  torn,     \* ghost: the reviews whose deletion a crash has cut off
  phase,    \* RAG service: the phase of the job of each review
  tries     \* RAG service: its attempts

bookkeeping == <<book, items, disk, results>>
bridge == <<active, pool, thread>>
rag == <<phase, tries>>
bounds == <<stops, torn>>
vars == <<bookkeeping, bridge, process, bounds, rag>>

ASSUME ConstantsAssumption ==
  /\ MaxAttempts \in Nat \ {0}
  /\ MaxStops \in Nat
  /\ None \notin Ad \cup Review
  /\ IsFiniteSet(Review)

Rag == INSTANCE RagLifecycle WITH Key <- Review

-----------------------------------------------------------------------------
\* A job status stands for the pair (job.status, review.status), which are
\* written together.  "DELETED" marks an id that is spent, and in memory the
\* bundle a thread may still hold of a canceled review.
Unfinished == {"PENDING", "RUNNING", "RETRY_PENDING"}
State == {"NONE", "CANCELED", "FAILED", "COMPLETED", "DELETED"} \cup Unfinished
StatusOf == [PENDING |-> "ANALYSIS_REQUESTED", RETRY_PENDING |-> "ANALYSIS_REQUESTED",
             RUNNING |-> "ANALYZING", CANCELED |-> "REVIEW_CANCELED",
             FAILED |-> "REVIEW_FAILED", COMPLETED |-> "REVIEW_COMPLETED"]
AdStatus == {"UPLOADED", "GONE"} \cup {StatusOf[s] : s \in DOMAIN StatusOf}

\* The position in run: about to call stage(n), or past it.
Stages == 0 .. 5

NoReview == [state |-> "NONE", ad |-> None, round |-> 0, canceled |-> FALSE]
NewAd == [latest |-> None, status |-> "UPLOADED"]
EmptyBook == [review |-> [r \in Review |-> NoReview], ad |-> [a \in Ad |-> NewAd]]
IdleThread == [pc |-> "idle", n |-> 0, review |-> None]

Init ==
  /\ book = EmptyBook /\ disk = EmptyBook
  /\ items = {} /\ results = {}
  /\ active = {} /\ pool = <<>>
  /\ thread = [t \in Thread |-> IdleThread]
  /\ process = "up" /\ stops = 0 /\ torn = {}
  /\ Rag!Init

InProgress(r) == book.review[r].state \in Unfinished
AdOf(r) == book.review[r].ad
\* The bundle is in the repository.
Kept(r) == book.review[r].state \notin {"NONE", "DELETED"}
Canceled(r) == book.review[r].state \in {"CANCELED", "DELETED"}
Round(r) == book.review[r].round
ReviewsOf(a) == {r \in Review : Kept(r) /\ AdOf(r) = a}

\* Setting the status of a bundle that is no longer in the repository shows
\* nowhere.
WithState(r, state) ==
  [book EXCEPT !.review[r].state = IF @ = "DELETED" THEN @ ELSE state]
WithBoth(r, state, status) ==
  [WithState(r, state) EXCEPT !.ad[AdOf(r)].status = status]

\* persist: the whole book, whoever changed it.
Persist == disk' = book'
PersistResults == results' = items' /\ Persist

-----------------------------------------------------------------------------
(* HTTP handlers.  They run while the server is up: uvicorn lets requests  *)
(* end before it calls pause_for_shutdown.                                 *)

\* next_round: one more than the rounds that are left.
IsNextRound(a, n) ==
  /\ \A q \in ReviewsOf(a) : Round(q) < n
  /\ n = 1 \/ \E q \in ReviewsOf(a) : Round(q) = n - 1

\* The wrapped request, ReviewService.request, add and publish.
Request(a, r) ==
  /\ process = "up" /\ book.ad[a].status # "GONE"
  /\ book.review[r].state = "NONE"
  /\ \A q \in Review : AdOf(q) = a => ~InProgress(q)
  /\ \E n \in 1 .. Cardinality(Review) :
       /\ IsNextRound(a, n)
       /\ book' = [review |-> [book.review EXCEPT ![r] =
                      [state |-> "PENDING", ad |-> a, round |-> n, canceled |-> FALSE]],
                   ad |-> [book.ad EXCEPT ![a] = [latest |-> r, status |-> "ANALYSIS_REQUESTED"]]]
  /\ Persist
  /\ active' = active \cup {r}
  /\ pool' = Append(pool, r)
  /\ UNCHANGED <<items, results, thread, process, bounds, rag>>

\* Mutant: the cancellation is not written to the file.
CancelUnsaved(r) ==
  /\ process = "up" /\ InProgress(r)
  /\ book' = [WithBoth(r, "CANCELED", "UPLOADED") EXCEPT !.review[r].canceled = TRUE]
  /\ active' = active \ {r}
  /\ UNCHANGED <<disk, items, results, pool, thread, process, bounds, rag>>

\* cancel: the thread, if any, goes on until it looks.
Cancel(r) ==
  /\ process = "up" /\ InProgress(r)
  /\ book' = [WithBoth(r, "CANCELED", "UPLOADED") EXCEPT !.review[r].canceled = TRUE]
  /\ Persist
  /\ active' = active \ {r}
  /\ UNCHANGED <<items, results, pool, thread, process, bounds, rag>>

\* The review of S with the highest round, if there is one.
NewestOf(S) == IF S = {} THEN {None} ELSE {q \in S : \A p \in S : Round(p) <= Round(q)}

\* What delete_review leaves.
WithoutReview(r, latest) ==
  [review |-> [book.review EXCEPT ![r].state = "DELETED"],
   ad |-> [book.ad EXCEPT ![AdOf(r)] =
     [latest |-> latest,
      status |-> IF latest = None THEN "UPLOADED" ELSE StatusOf[book.review[latest].state]]]]

Remaining(r) == NewestOf(ReviewsOf(AdOf(r)) \ {r})
Deletable(r) == ~InProgress(r) /\ r \notin active

DeleteReview(r) ==
  /\ process = "up" /\ Kept(r) /\ Deletable(r)
  /\ \E latest \in Remaining(r) : book' = WithoutReview(r, latest)
  /\ items' = items \ {r}
  /\ PersistResults
  /\ UNCHANGED <<bridge, process, bounds, rag>>

\* What delete_advertisement leaves.
WithoutAd(a) ==
  [review |-> [r \in Review |-> IF r \in ReviewsOf(a)
                 THEN [book.review[r] EXCEPT !.state = "DELETED"] ELSE book.review[r]],
   ad |-> [book.ad EXCEPT ![a] = [NewAd EXCEPT !.status = "GONE"]]]

DeleteAd(a) ==
  /\ process = "up" /\ book.ad[a].status # "GONE"
  /\ \A r \in ReviewsOf(a) : Deletable(r)
  /\ book' = WithoutAd(a)
  /\ items' = items \ ReviewsOf(a)
  /\ PersistResults
  /\ UNCHANGED <<bridge, process, bounds, rag>>

-----------------------------------------------------------------------------
(* run, in a thread of the pool.                                           *)

At(t, pc, n) == thread[t].pc = pc /\ thread[t].n = n
Subject(t) == thread[t].review
Goto(t, pc, n) == thread' = [thread EXCEPT ![t] = [@ EXCEPT !.pc = pc, !.n = n]]
\* ReviewCanceled has no handler code, ReviewPaused and other exceptions have.
RaiseCanceled(t) == Goto(t, "leave", 0)
RaisePaused(t) == Goto(t, "paused", 0)
Raise(t) == Goto(t, "failed", 0)

Take(t) ==
  /\ thread[t].pc = "idle" /\ pool # <<>>
  /\ thread' = [thread EXCEPT ![t] = [pc |-> "stage", n |-> 0, review |-> Head(pool)]]
  /\ pool' = Tail(pool)
  /\ UNCHANGED <<bookkeeping, active, process, bounds, rag>>

Stage(t) ==
  LET r == Subject(t) IN
  /\ thread[t].pc = "stage"
  /\ IF Canceled(r) THEN RaiseCanceled(t) /\ UNCHANGED <<book, disk>>
     ELSE IF process = "stopping" THEN RaisePaused(t) /\ UNCHANGED <<book, disk>>
     ELSE /\ book' = WithBoth(r, "RUNNING", "ANALYZING")
          /\ Persist
          /\ Goto(t, "work", thread[t].n)
  /\ UNCHANGED <<items, results, active, pool, process, bounds, rag>>

\* Waiting for backends before parsing (0), parsing (1), and writing
\* integrated.json (2) end well; after parsing the cancellation is looked at.
Work(t) ==
  LET n == thread[t].n IN
  /\ thread[t].pc = "work" /\ n \in 0 .. 2
  /\ IF n = 1 /\ Canceled(Subject(t)) THEN RaiseCanceled(t) ELSE Goto(t, "stage", n + 1)
  /\ UNCHANGED <<bookkeeping, active, pool, process, bounds, rag>>

\* ... or in an exception, as anything that run does.
WorkFails(t) ==
  /\ thread[t].pc = "work"
  /\ Raise(t)
  /\ UNCHANGED <<bookkeeping, active, pool, process, bounds, rag>>

\* The loops that wait for backends (0, 3) and for the RAG job (4) look at the
\* cancellation, and then wait for stopping.
WaitEnds(t) ==
  /\ thread[t].pc = "work" /\ thread[t].n \in {0, 3, 4}
  /\ \/ Canceled(Subject(t)) /\ RaiseCanceled(t)
     \/ process = "stopping" /\ RaisePaused(t)
  /\ UNCHANGED <<bookkeeping, active, pool, process, bounds, rag>>

\* Progress labels of the same loops are saved, with the whole book.
Label(t) ==
  /\ thread[t].pc = "work" /\ thread[t].n \in {0, 3, 4}
  /\ disk' = book
  /\ UNCHANGED <<book, items, results, bridge, process, bounds, rag>>

\* submit_rag under the review's id: a new job, the retry of one that failed
\* before a restart, or the job as it is; then links[review_id] is updated,
\* which a deletion has removed.
SubmitRag(t) ==
  LET r == Subject(t)
      next == IF Kept(r) THEN "stage" ELSE "failed" IN
  /\ At(t, "work", 3)
  /\ \/ Rag!Accept(r) /\ Goto(t, next, 4)
     \/ phase[r] = "failed" /\ Rag!Retry(r) /\ Goto(t, next, 4)
     \/ phase[r] = "failed" /\ tries[r] >= MaxAttempts /\ Raise(t) /\ UNCHANGED rag
     \/ phase[r] \notin {"none", "failed"} /\ Goto(t, next, 4) /\ UNCHANGED rag
  /\ UNCHANGED <<bookkeeping, active, pool, process, bounds>>

\* The poll loop reads a terminal state.
Poll(t) ==
  LET r == Subject(t) IN
  /\ At(t, "work", 4) /\ phase[r] \in Rag!Settled
  /\ IF phase[r] = "succeeded" THEN Goto(t, "stage", 5) ELSE Raise(t)
  /\ UNCHANGED <<bookkeeping, active, pool, process, bounds, rag>>

\* Mutant: the cancellation is not looked at again under the lock.
CompleteAnyway(t) ==
  LET r == Subject(t) IN
  /\ At(t, "work", 5)
  /\ items' = items \cup {r}
  /\ book' = WithBoth(r, "COMPLETED", "REVIEW_COMPLETED")
  /\ PersistResults /\ Goto(t, "leave", 0)
  /\ UNCHANGED <<active, pool, process, bounds, rag>>

\* The block under the lock that projects the result, rebuilds it from the
\* saved file, and closes the review.
Complete(t) ==
  LET r == Subject(t) IN
  /\ At(t, "work", 5)
  /\ IF Canceled(r) THEN RaiseCanceled(t) /\ UNCHANGED bookkeeping
     ELSE /\ items' = items \cup {r}
          /\ book' = WithBoth(r, "COMPLETED", "REVIEW_COMPLETED")
          /\ PersistResults
          /\ Goto(t, "leave", 0)
  /\ UNCHANGED <<active, pool, process, bounds, rag>>

\* The projection, or what follows it in the block, raises: before, between or
\* after the two projections, or after the second has saved everything.
ProjectionFails(t) ==
  LET r == Subject(t) IN
  /\ At(t, "work", 5) /\ ~Canceled(r)
  /\ \/ items' \in {items, items \cup {r}, items \ {r}} /\ UNCHANGED <<disk, results>>
     \/ items' = items \cup {r} /\ results' = items' /\ disk' = book
  /\ Raise(t)
  /\ UNCHANGED <<book, active, pool, process, bounds, rag>>

\* except Exception: failure.log cannot be written once a deletion has removed
\* the directory, unless the parser has made it again; then fail, which takes
\* no lock, writes the review ...
FailReview(t) ==
  LET r == Subject(t) IN
  /\ thread[t].pc = "failed"
  /\ \/ book' = WithState(r, "FAILED") /\ Goto(t, "failing", 0)
     \/ ~Kept(r) /\ Goto(t, "leave", 0) /\ UNCHANGED book
  /\ UNCHANGED <<disk, items, results, active, pool, process, bounds, rag>>

\* ... and then the advertisement, and saves both.
FailAd(t) ==
  LET a == AdOf(Subject(t)) IN
  /\ thread[t].pc = "failing"
  /\ IF book.ad[a].status = "GONE" THEN UNCHANGED <<book, disk>>
     ELSE book' = [book EXCEPT !.ad[a].status = "REVIEW_FAILED"] /\ Persist
  /\ Goto(t, "leave", 0)
  /\ UNCHANGED <<items, results, active, pool, process, bounds, rag>>

\* except ReviewPaused: whatever the status is by now.
Pause(t) ==
  LET r == Subject(t) IN
  /\ thread[t].pc = "paused"
  /\ IF book.ad[AdOf(r)].status = "GONE"
       THEN book' = WithState(r, "RETRY_PENDING") /\ UNCHANGED disk
       ELSE book' = WithBoth(r, "RETRY_PENDING", "ANALYSIS_REQUESTED") /\ Persist
  /\ Goto(t, "leave", 0)
  /\ UNCHANGED <<items, results, active, pool, process, bounds, rag>>

\* finally.
Leave(t) ==
  /\ thread[t].pc = "leave"
  /\ active' = active \ {Subject(t)}
  /\ thread' = [thread EXCEPT ![t] = IdleThread]
  /\ UNCHANGED <<bookkeeping, pool, process, bounds, rag>>

-----------------------------------------------------------------------------
(* The RAG service, a shutdown, a crash and a restart.                     *)

\* A job whose directory a deletion has removed fails at its next write.
RagStep(r) ==
  /\ process # "down"
  /\ \/ Rag!Start(r) \/ Rag!Again(r)
     \/ \E outcome \in Rag!Settled : Rag!Settle(r, outcome)
  /\ UNCHANGED <<bookkeeping, bridge, process, bounds>>

\* pause_for_shutdown.
Stop ==
  /\ process = "up" /\ stops < MaxStops
  /\ process' = "stopping" /\ stops' = stops + 1
  /\ UNCHANGED <<bookkeeping, bridge, torn, rag>>

\* The memory of the process is gone.  book and items then stand for what the
\* next process will read.
Die ==
  /\ process' = "down"
  /\ active' = {} /\ pool' = <<>> /\ thread' = [t \in Thread |-> IdleThread]
  /\ book' = disk' /\ items' = results'
  /\ Rag!Crash

\* The interpreter waits for the threads of both pools.
Exit ==
  /\ process = "stopping" /\ pool = <<>>
  /\ \A t \in Thread : thread[t].pc = "idle"
  /\ \A r \in Review : phase[r] \notin {"queued", "running"}
  /\ UNCHANGED <<disk, results, bounds>> /\ Die

Crashes == stops < MaxStops /\ stops' = stops + 1 /\ Die

Crash == process # "down" /\ UNCHANGED <<disk, results, torn>> /\ Crashes

\* persist writes the results before the state, and run has them saved by
\* rebuild_result_projection before it closes the review.
FirstFile(newDisk, newResults) == results' = newResults /\ UNCHANGED disk

\* A crash between the two files while a review is completed ...
CrashInComplete(t) ==
  LET r == Subject(t) IN
  /\ At(t, "work", 5) /\ ~Canceled(r)
  /\ FirstFile(WithBoth(r, "COMPLETED", "REVIEW_COMPLETED"), items \cup {r})
  /\ Crashes /\ UNCHANGED torn

\* ... and while one, or an advertisement with all of them, is deleted.
CrashInDeleteReview(r) ==
  /\ process = "up" /\ Kept(r) /\ Deletable(r)
  /\ \E latest \in Remaining(r) : FirstFile(WithoutReview(r, latest), items \ {r})
  /\ Crashes /\ torn' = torn \cup {r}

CrashInDeleteAd(a) ==
  /\ process = "up" /\ book.ad[a].status # "GONE"
  /\ \A r \in ReviewsOf(a) : Deletable(r)
  /\ FirstFile(WithoutAd(a), items \ ReviewsOf(a))
  /\ Crashes /\ torn' = torn \cup ReviewsOf(a)

\* OperationalReviewService.__init__ runs before restore.
RagRecovers(r) ==
  /\ process = "down" /\ phase[r] = "running"
  /\ IF tries[r] < MaxAttempts THEN Rag!Again(r) ELSE Rag!Settle(r, "failed")
  /\ UNCHANGED <<bookkeeping, bridge, process, bounds>>

\* Mutant: a paused review is not taken up again.
ResumablePending == {r \in Review : book.review[r].state \in {"PENDING", "RUNNING"}}
Resumable == {r \in Review : InProgress(r)}

Restore ==
  /\ process = "down" /\ \A r \in Review : phase[r] # "running"
  /\ process' = "up"
  /\ active' = Resumable
  /\ pool' \in SetToSeqs(Resumable)
  /\ UNCHANGED <<bookkeeping, thread, bounds, rag>>

-----------------------------------------------------------------------------
ThreadStep(t) ==
  \/ Take(t) \/ Stage(t) \/ Work(t) \/ WorkFails(t) \/ WaitEnds(t) \/ SubmitRag(t) \/ Poll(t)
  \/ Complete(t) \/ ProjectionFails(t) \/ FailReview(t) \/ FailAd(t) \/ Pause(t) \/ Leave(t)

Next ==
  \/ \E a \in Ad : DeleteAd(a) \/ CrashInDeleteAd(a) \/ \E r \in Review : Request(a, r)
  \/ \E r \in Review : Cancel(r) \/ DeleteReview(r) \/ CrashInDeleteReview(r)
  \/ \E r \in Review : RagStep(r) \/ RagRecovers(r)
  \/ \E t \in Thread : ThreadStep(t) \/ Label(t) \/ CrashInComplete(t)
  \/ Stop \/ Exit \/ Crash \/ Restore

Spec == Init /\ [][Next]_vars

\* Threads run; parsing, backends and RAG attempts end; a service that is
\* stopped or dead is started again.
FairSpec ==
  /\ Spec
  /\ \A t \in Thread : WF_vars(ThreadStep(t))
  /\ \A r \in Review : WF_vars(RagStep(r)) /\ WF_vars(RagRecovers(r))
  /\ WF_vars(Exit) /\ WF_vars(Restore)
-----------------------------------------------------------------------------
(* Properties.                                                             *)

Books == [review : [Review -> [state : State, ad : Ad \cup {None},
                               round : 0 .. Cardinality(Review), canceled : BOOLEAN]],
          ad : [Ad -> [latest : Review \cup {None}, status : AdStatus]]]

\* Memory, files and local states have the values the code gives them.
TypeOK ==
  /\ {book, disk} \subseteq Books
  /\ {items, results, active} \subseteq SUBSET Review
  /\ pool \in Seq(Review)
  /\ thread \in [Thread -> [pc : {"idle", "stage", "work", "paused", "failed", "failing", "leave"},
                            n : Stages, review : Review \cup {None}]]
  /\ process \in {"up", "stopping", "down"} /\ stops \in 0 .. MaxStops
  /\ torn \subseteq Review
  /\ phase \in [Review -> Rag!Phase] /\ tries \in [Review -> 0 .. MaxAttempts]

\* How many work items and threads are there for r.
Places(r) == Cardinality({i \in 1 .. Len(pool) : pool[i] = r})
             + Cardinality({t \in Thread : Subject(t) = r})

\* No restart, shutdown or race of handlers forgets a review or runs it twice:
\* in a server that is up, a review in progress has exactly one work item or
\* thread and is protected from deletion, and no review ever has two (publish,
\* restore, the finally clause of run).
NoReviewForgotten ==
  \A r \in Review :
    /\ Places(r) <= 1
    /\ process = "up" /\ InProgress(r) => Places(r) = 1 /\ r \in active

\* What the server has answered survives a crash: a review differs from its
\* record in the file only while its thread is inside the exception handler
\* (persist in publish, stage, cancel, run).  A completed review has its results,
\* in memory and in the files, whenever the process dies; a review whose deletion
\* was cut off is the exception (rebuild_result_projection, delete_review).
AnswersAreDurable ==
  \A r \in Review :
    /\ process = "up" /\ Kept(r) /\ book.review[r] # disk.review[r]
         => \E t \in Thread : Subject(t) = r /\ thread[t].pc = "failing"
    /\ book.review[r].state = "COMPLETED" /\ r \notin torn => r \in items \cap results

\* A completed review never changes until it is deleted, whatever is restarted
\* in between.  The thread that was working on a canceled one neither completes
\* it nor goes on: its handlers can only write that the review failed, or, while
\* the server stops, that it is to be retried, and only then does a later process
\* work on it again (cancel, the block under the lock in run, the handlers of
\* ReviewPaused and Exception, restore).
EndsOnce ==
  [][\A r \in Review :
       /\ book.review[r].state = "COMPLETED" => book'.review[r].state \in {"COMPLETED", "DELETED"}
       /\ book.review[r].state = "CANCELED" =>
            \/ book'.review[r].state \in {"CANCELED", "FAILED", "DELETED"}
            \/ book'.review[r].state = "RETRY_PENDING" /\ process = "stopping"]_vars

\* The review that an advertisement shows is the newest that is left
\* (delete_review, publish, next_round).
LatestIsNewest ==
  \A a \in Ad : book.ad[a].latest \in NewestOf(ReviewsOf(a))

\* A review that was accepted ends, over shutdowns and crashes, unless a thread
\* waits for a RAG job that a crash has made the service forget.
EveryReviewEnds ==
  \A r \in Review :
    InProgress(r) ~> ~InProgress(r) \/ \E q \in Review : InProgress(q) /\ phase[q] = "lost"

-----------------------------------------------------------------------------
(* What comments and documents say and the code does not do.               *)

\* The docstring of ReviewCanceled: a user's cancellation never turns into an
\* execution failure.
CancelIsNotFailure ==
  \A r \in Review : book.review[r].canceled => book.review[r].state # "FAILED"

\* docs/functional-specification.md: a review in progress is not deleted before
\* its interruption is complete.
DeletedHasStopped ==
  \A t \in Thread : Subject(t) # None => book.review[Subject(t)].state # "DELETED"
=============================================================================
