--------------------------- MODULE WebBridge_proofs ---------------------------
(***************************************************************************)
(* Theorems of WebBridge: no restart or race forgets a review or runs it   *)
(* twice, what was answered survives a crash, a review that ended stays    *)
(* ended, and an advertisement shows its newest review, for every number   *)
(* of advertisements, reviews, threads and crashes.                        *)
(***************************************************************************)
EXTENDS WebBridge, TLAPS, SequenceTheorems, FiniteSetTheorems

(***************************************************************************)
(* The inductive invariant.                                                *)
(***************************************************************************)

\* What the review of a work item or of a working thread can be: in progress, or
\* canceled or deleted behind the thread's back.
Alive == Unfinished \cup {"CANCELED", "DELETED"}
StateOf(r) == book.review[r].state

Working == {"stage", "work", "paused", "failed"}

\* A thread has a review while it runs, and its position tells what the review
\* can be; only a server that stops pauses.
ThreadsKnow ==
  \A t \in Thread :
    /\ thread[t].pc = "idle" <=> Subject(t) = None
    /\ thread[t].pc \in Working => StateOf(Subject(t)) \in Alive
    /\ thread[t].pc = "failing" => StateOf(Subject(t)) \in {"FAILED", "DELETED"}
    /\ thread[t].pc = "paused" => process = "stopping"
    /\ thread[t].pc = "leave" =>
         /\ StateOf(Subject(t)) # "NONE"
         /\ process = "stopping" \/ ~InProgress(Subject(t))

PoolKnows == \A i \in 1 .. Len(pool) : StateOf(pool[i]) \in Alive

\* No review has two places among the work items and the threads.
Apart ==
  /\ \A i, j \in 1 .. Len(pool) : pool[i] = pool[j] => i = j
  /\ \A t, u \in Thread : Subject(t) = Subject(u) /\ Subject(t) # None => t = u
  /\ \A i \in 1 .. Len(pool), t \in Thread : pool[i] # Subject(t)

Placed(r) == (\E i \in 1 .. Len(pool) : pool[i] = r) \/ (\E t \in Thread : Subject(t) = r)

Tended == process = "up" => \A r \in Review : InProgress(r) => r \in active /\ Placed(r)

\* Nothing but the files outlives the process.
DownIsEmpty ==
  process = "down" =>
    /\ book = disk /\ items = results
    /\ pool = <<>> /\ active = {} /\ \A t \in Thread : thread[t].pc = "idle"

\* A review that is kept, in memory or in the file, is one of an advertisement
\* that is there.
Registered ==
  \A b \in {book, disk}, r \in Review :
    b.review[r].state \notin {"NONE", "DELETED"} =>
      b.review[r].ad \in Ad /\ b.ad[b.review[r].ad].status # "GONE"

\* The file knows every review, but for a failure that is being written.
Saved ==
  \A r \in Review :
    \/ book.review[r] = disk.review[r]
    \/ /\ StateOf(r) = "FAILED" /\ disk.review[r].state # "COMPLETED"
       /\ \E t \in Thread : Subject(t) = r /\ thread[t].pc = "failing"

ResultsKept ==
  \A r \in Review : StateOf(r) = "COMPLETED" /\ r \notin torn => r \in items \cap results

IInv ==
  /\ TypeOK /\ ThreadsKnow /\ PoolKnows /\ Apart /\ Tended /\ DownIsEmpty
  /\ Registered /\ Saved /\ ResultsKept

(***************************************************************************)
(* What the operators of WebBridge return.                                 *)
(***************************************************************************)
ReviewRecord == [state : State, ad : Ad \cup {None},
                 round : 0 .. Cardinality(Review), canceled : BOOLEAN]
AdRecord == [latest : Review \cup {None}, status : AdStatus]

\* A book is one of functions to records.
LEMMA BooksAre == Books = [review : [Review -> ReviewRecord], ad : [Ad -> AdRecord]]
  BY DEF Books, ReviewRecord, AdRecord

\* WithState writes one state, unless the review is gone (the bundle that the
\* thread holds in run).
LEMMA WithStateIs ==
  ASSUME book \in Books, NEW r \in Review, NEW state \in State
  PROVE  /\ WithState(r, state) \in Books
         /\ WithState(r, state).ad = book.ad
         /\ \A q \in Review \ {r} : WithState(r, state).review[q] = book.review[q]
         /\ WithState(r, state).review[r].state =
              IF StateOf(r) = "DELETED" THEN "DELETED" ELSE state
         /\ WithState(r, state).review[r].ad = AdOf(r)
<1> DEFINE record == book.review[r]
           written == [record EXCEPT !.state = IF @ = "DELETED" THEN @ ELSE state]
<1>1. book.review \in [Review -> ReviewRecord] /\ book.ad \in [Ad -> AdRecord]
      /\ book = [review |-> book.review, ad |-> book.ad]
  BY BooksAre
<1>2. WithState(r, state) = [review |-> [book.review EXCEPT ![r] = written], ad |-> book.ad]
  BY <1>1 DEF WithState
<1>3. record \in ReviewRecord
  BY <1>1
<1>4. /\ written \in ReviewRecord /\ written.ad = record.ad
      /\ written.state = IF record.state = "DELETED" THEN "DELETED" ELSE state
  BY <1>3 DEF ReviewRecord
<1> HIDE DEF written, record
<1>5. [book.review EXCEPT ![r] = written] \in [Review -> ReviewRecord]
  BY <1>1, <1>4
<1>6. WithState(r, state) \in Books
  BY <1>1, <1>2, <1>5, BooksAre
<1>7. WithState(r, state).review = [book.review EXCEPT ![r] = written]
      /\ WithState(r, state).ad = book.ad
  BY <1>2
<1>8. \A q \in Review \ {r} : WithState(r, state).review[q] = book.review[q]
  BY <1>1, <1>7
<1>9. WithState(r, state).review[r] = written
  BY <1>1, <1>7
<1> QED
  BY <1>4, <1>6, <1>7, <1>8, <1>9 DEF record, StateOf, AdOf

\* WithBoth writes the status of the advertisement as well (stage, cancel).
LEMMA WithBothIs ==
  ASSUME book \in Books, NEW r \in Review, NEW state \in State, NEW status \in AdStatus
  PROVE  /\ WithBoth(r, state, status) \in Books
         /\ WithBoth(r, state, status).review = WithState(r, state).review
         /\ \A a \in Ad : WithBoth(r, state, status).ad[a].status \in {book.ad[a].status, status}
<1> DEFINE b == WithState(r, state)  a0 == AdOf(r)
<1>1. /\ b.review \in [Review -> ReviewRecord] /\ b.ad \in [Ad -> AdRecord]
      /\ b = [review |-> b.review, ad |-> b.ad] /\ b.ad = book.ad
  BY WithStateIs, BooksAre
<1>2. WithBoth(r, state, status) =
        [review |-> b.review, ad |-> [b.ad EXCEPT ![a0] = [@ EXCEPT !.status = status]]]
  BY <1>1 DEF WithBoth
<1> DEFINE ads == [b.ad EXCEPT ![a0] = [@ EXCEPT !.status = status]]
<1>3. \A a \in Ad : [b.ad[a] EXCEPT !.status = status] \in AdRecord
  BY <1>1 DEF AdRecord
<1>4. ads \in [Ad -> AdRecord]
  BY <1>1, <1>3
<1>5. \A a \in Ad : ads[a].status \in {b.ad[a].status, status}
  BY <1>1 DEF AdRecord
<1> HIDE DEF b, ads
<1>6. WithBoth(r, state, status).review = b.review /\ WithBoth(r, state, status).ad = ads
  BY <1>2 DEF ads
<1> QED
  BY <1>1, <1>2, <1>4, <1>5, <1>6, BooksAre DEF b, ads

\* The status that follows from a state is one that an advertisement may have.
LEMMA StatusIs ==
  ASSUME NEW state \in State \ {"NONE", "DELETED"}
  PROVE  StatusOf[state] \in AdStatus \ {"GONE"}
<1>1. state \in {"PENDING", "RUNNING", "RETRY_PENDING", "CANCELED", "FAILED", "COMPLETED"}
  BY DEF State, Unfinished
<1>2. StatusOf[state] \in {"ANALYSIS_REQUESTED", "ANALYZING", "REVIEW_CANCELED", "REVIEW_FAILED",
                           "REVIEW_COMPLETED"}
  BY <1>1 DEF StatusOf
<1>3. StatusOf[state] \in {StatusOf[s] : s \in DOMAIN StatusOf}
  BY <1>1 DEF StatusOf
<1> QED
  BY <1>2, <1>3 DEF AdStatus

\* delete_review spends the id and shows the newest review that remains.
LEMMA WithoutReviewIs ==
  ASSUME book \in Books, NEW r \in Review, NEW latest \in Remaining(r)
  PROVE  /\ WithoutReview(r, latest) \in Books
         /\ \A q \in Review \ {r} : WithoutReview(r, latest).review[q] = book.review[q]
         /\ WithoutReview(r, latest).review[r].state = "DELETED"
         /\ \A a \in Ad : book.ad[a].status # "GONE" => WithoutReview(r, latest).ad[a].status # "GONE"
<1> DEFINE status == IF latest = None THEN "UPLOADED" ELSE StatusOf[book.review[latest].state]
           entry == [latest |-> latest, status |-> status]
           gone == [book.review[r] EXCEPT !.state = "DELETED"]
           a0 == AdOf(r)
<1>1. book.review \in [Review -> ReviewRecord] /\ book.ad \in [Ad -> AdRecord]
  BY BooksAre
<1>2. latest = None \/ (latest \in Review /\ book.review[latest].state \in State \ {"NONE", "DELETED"})
  <2>1. latest = None \/ latest \in ReviewsOf(AdOf(r))
    BY DEF Remaining, NewestOf
  <2>2. latest \in ReviewsOf(AdOf(r)) => latest \in Review /\ Kept(latest)
    BY DEF ReviewsOf
  <2>3. latest \in Review => book.review[latest].state \in State
    BY <1>1 DEF ReviewRecord
  <2> QED BY <2>1, <2>2, <2>3 DEF Kept
<1>3. status \in AdStatus \ {"GONE"}
  BY <1>2, StatusIs DEF AdStatus
<1> HIDE DEF status
<1>4. entry \in AdRecord
  BY <1>2, <1>3 DEF AdRecord
<1>5. gone \in ReviewRecord /\ gone.state = "DELETED"
  BY <1>1 DEF ReviewRecord, State
<1>6. WithoutReview(r, latest) = [review |-> [book.review EXCEPT ![r] = gone],
                                  ad |-> [book.ad EXCEPT ![a0] = entry]]
  BY DEF WithoutReview, status
<1> HIDE DEF gone
<1>7. [book.review EXCEPT ![r] = gone] \in [Review -> ReviewRecord]
      /\ [book.ad EXCEPT ![a0] = entry] \in [Ad -> AdRecord]
  BY <1>1, <1>4, <1>5
<1>8. WithoutReview(r, latest) \in Books
  BY <1>6, <1>7, BooksAre
<1>9. \A q \in Review \ {r} : WithoutReview(r, latest).review[q] = book.review[q]
  BY <1>1, <1>6
<1>10. WithoutReview(r, latest).review[r].state = "DELETED"
  BY <1>1, <1>5, <1>6
<1>11. \A a \in Ad : book.ad[a].status # "GONE" => WithoutReview(r, latest).ad[a].status # "GONE"
  <2> TAKE a \in Ad
  <2>1. WithoutReview(r, latest).ad[a] = IF a = a0 THEN entry ELSE book.ad[a]
    BY <1>1, <1>6
  <2>2. entry.status # "GONE"
    BY <1>3
  <2> QED BY <2>1, <2>2
<1> QED
  BY <1>8, <1>9, <1>10, <1>11

\* delete_advertisement spends the ids of all that are kept of it.
LEMMA WithoutAdIs ==
  ASSUME book \in Books, NEW a \in Ad
  PROVE  /\ WithoutAd(a) \in Books
         /\ \A q \in ReviewsOf(a) : WithoutAd(a).review[q].state = "DELETED"
         /\ \A q \in Review \ ReviewsOf(a) : WithoutAd(a).review[q] = book.review[q]
         /\ \A c \in Ad \ {a} : WithoutAd(a).ad[c] = book.ad[c]
<1>1. book.review \in [Review -> ReviewRecord] /\ book.ad \in [Ad -> AdRecord]
  BY BooksAre
<1> DEFINE gone(q) == [book.review[q] EXCEPT !.state = "DELETED"]
           reviews == [q \in Review |-> IF q \in ReviewsOf(a) THEN gone(q) ELSE book.review[q]]
           entry == [NewAd EXCEPT !.status = "GONE"]
<1>2. \A q \in Review : gone(q) \in ReviewRecord /\ gone(q).state = "DELETED"
  BY <1>1 DEF ReviewRecord, State
<1>3. entry \in AdRecord
  BY DEF NewAd, AdRecord, AdStatus
<1>4. WithoutAd(a) = [review |-> reviews, ad |-> [book.ad EXCEPT ![a] = entry]]
  BY DEF WithoutAd
<1> HIDE DEF gone, entry
<1>5. reviews \in [Review -> ReviewRecord] /\ [book.ad EXCEPT ![a] = entry] \in [Ad -> AdRecord]
  BY <1>1, <1>2, <1>3
<1>6. WithoutAd(a) \in Books
  BY <1>4, <1>5, BooksAre
<1>7. \A q \in ReviewsOf(a) : q \in Review
  BY DEF ReviewsOf
<1> QED
  BY <1>1, <1>2, <1>4, <1>6, <1>7

\* request puts a new review of a before everything else it had.
LEMMA RequestIs ==
  ASSUME TypeOK, NEW a \in Ad, NEW r \in Review, Request(a, r)
  PROVE  /\ book' \in Books
         /\ \A q \in Review \ {r} : book'.review[q] = book.review[q]
         /\ book'.review[r].state = "PENDING" /\ book'.review[r].ad = a
         /\ \A c \in Ad : book.ad[c].status # "GONE" => book'.ad[c].status # "GONE"
<1>1. book.review \in [Review -> ReviewRecord] /\ book.ad \in [Ad -> AdRecord]
  BY BooksAre DEF TypeOK
<1>2. PICK n \in 1 .. Cardinality(Review) :
        book' = [review |-> [book.review EXCEPT ![r] =
                   [state |-> "PENDING", ad |-> a, round |-> n, canceled |-> FALSE]],
                 ad |-> [book.ad EXCEPT ![a] = [latest |-> r, status |-> "ANALYSIS_REQUESTED"]]]
  BY DEF Request
<1> DEFINE new == [state |-> "PENDING", ad |-> a, round |-> n, canceled |-> FALSE]
           entry == [latest |-> r, status |-> "ANALYSIS_REQUESTED"]
<1>3. n \in 0 .. Cardinality(Review)
  BY <1>2, FS_CardinalityType, ConstantsAssumption
<1>4. new \in ReviewRecord /\ new.state = "PENDING" /\ new.ad = a
  BY <1>3 DEF ReviewRecord, State, Unfinished
<1>5. entry \in AdRecord /\ entry.status # "GONE"
  <2>1. StatusOf["PENDING"] = "ANALYSIS_REQUESTED" BY DEF StatusOf
  <2>2. "ANALYSIS_REQUESTED" \in AdStatus
    BY <2>1, StatusIs DEF State, Unfinished
  <2> QED BY <2>2 DEF AdRecord
<1>6. book' = [review |-> [book.review EXCEPT ![r] = new], ad |-> [book.ad EXCEPT ![a] = entry]]
  BY <1>2
<1> HIDE DEF new, entry
<1>7. book'.review = [book.review EXCEPT ![r] = new] /\ book'.ad = [book.ad EXCEPT ![a] = entry]
  BY <1>6
<1>8. book' \in Books
  BY <1>1, <1>4, <1>5, <1>6, BooksAre
<1>9. \A c \in Ad : book.ad[c].status # "GONE" => book'.ad[c].status # "GONE"
  BY <1>1, <1>5, <1>7
<1> QED
  BY <1>1, <1>4, <1>7, <1>8, <1>9

(***************************************************************************)
(* The two kinds of steps that many actions share.                         *)
(***************************************************************************)
Inside == Working \cup {"failing"}

\* The parts of the invariant that tell where reviews are.
Whereabouts == ThreadsKnow /\ PoolKnows /\ Apart /\ Tended /\ DownIsEmpty

\* A thread inside run has a review, and the process is there.
LEMMA HasReview ==
  ASSUME TypeOK, ThreadsKnow, DownIsEmpty, NEW t \in Thread, thread[t].pc # "idle"
  PROVE  Subject(t) \in Review /\ process # "down"
<1>1. Subject(t) # None
  BY DEF ThreadsKnow
<1>2. Subject(t) \in Review \cup {None}
  BY DEF TypeOK, Subject
<1>3. process # "down"
  BY DEF DownIsEmpty
<1> QED BY <1>1, <1>2, <1>3

Local == [pc : {"idle", "stage", "work", "paused", "failed", "failing", "leave"},
          n : Stages, review : Review \cup {None}]

\* Goto moves one thread and keeps its review.
LEMMA GotoIs ==
  ASSUME TypeOK, NEW t \in Thread, NEW pc \in Inside \cup {"leave"}, NEW n \in Stages,
         Goto(t, pc, n)
  PROVE  /\ thread' \in [Thread -> Local]
         /\ thread'[t].pc = pc
         /\ \A u \in Thread \ {t} : thread'[u] = thread[u]
         /\ \A u \in Thread : thread'[u].review = Subject(u)
<1>1. thread \in [Thread -> Local]
  BY DEF TypeOK, Local
<1>2. thread' = [thread EXCEPT ![t] = [@ EXCEPT !.pc = pc, !.n = n]]
  BY DEF Goto
<1>3. \A local \in Local : /\ [local EXCEPT !.pc = pc, !.n = n] \in Local
                          /\ [local EXCEPT !.pc = pc, !.n = n].pc = pc
                          /\ [local EXCEPT !.pc = pc, !.n = n].review = local.review
  BY DEF Local, Inside, Working
<1>4. thread[t] \in Local
  BY <1>1
<1>5. thread'[t] = [thread[t] EXCEPT !.pc = pc, !.n = n]
      /\ \A u \in Thread \ {t} : thread'[u] = thread[u]
  BY <1>1, <1>2
<1>6. thread'[t] \in Local /\ thread'[t].pc = pc /\ thread'[t].review = thread[t].review
  BY <1>3, <1>4, <1>5
<1>7. thread' \in [Thread -> Local]
  BY <1>1, <1>2, <1>3, <1>4
<1> QED
  BY <1>5, <1>6, <1>7 DEF Subject

\* A thread inside run goes on, and writes at most its own review.
LEMMA Moves ==
  ASSUME TypeOK, Whereabouts,
         NEW t \in Thread, NEW r \in Review, Subject(t) = r, thread[t].pc \in Inside,
         NEW pc \in Inside \cup {"leave"}, NEW n \in Stages, Goto(t, pc, n),
         UNCHANGED <<active, pool, process>>,
         \A q \in Review \ {r} : book'.review[q] = book.review[q],
         pc \in Working => book'.review[r].state \in Alive,
         pc = "failing" => book'.review[r].state \in {"FAILED", "DELETED"},
         pc = "paused" => process = "stopping",
         pc = "leave" => /\ book'.review[r].state # "NONE"
                         /\ process = "stopping" \/ book'.review[r].state \notin Unfinished,
         book'.review[r].state \in Unfinished => process # "up" \/ InProgress(r)
  PROVE  Whereabouts'
<1> USE DEF Whereabouts
<1>1. process # "down" /\ None \notin Review
  BY HasReview, ConstantsAssumption DEF Inside, Working
<1>2. /\ thread'[t].pc = pc /\ thread'[t].review = r
      /\ \A u \in Thread \ {t} : thread'[u] = thread[u]
      /\ \A u \in Thread : thread'[u].review = Subject(u)
  BY GotoIs
<1>3. \A u \in Thread \ {t} : Subject(u) # r
  BY <1>1 DEF Apart
<1>4. ThreadsKnow'
  <2> SUFFICES ASSUME NEW u \in Thread
               PROVE  /\ thread'[u].pc = "idle" <=> thread'[u].review = None
                      /\ thread'[u].pc \in Working => book'.review[thread'[u].review].state \in Alive
                      /\ thread'[u].pc = "failing" =>
                           book'.review[thread'[u].review].state \in {"FAILED", "DELETED"}
                      /\ thread'[u].pc = "paused" => process' = "stopping"
                      /\ thread'[u].pc = "leave" =>
                           /\ book'.review[thread'[u].review].state # "NONE"
                           /\ \/ process' = "stopping"
                              \/ book'.review[thread'[u].review].state \notin Unfinished
    BY DEF ThreadsKnow, StateOf, Subject, InProgress
  <2>1. CASE u = t
    BY <1>1, <1>2, <2>1 DEF Inside, Working
  <2>2. CASE u # t
    <3>1. thread'[u] = thread[u]
      BY <1>2, <2>2
    <3>2. CASE Subject(u) = None
      BY <3>1, <3>2 DEF ThreadsKnow, Working, Subject
    <3>3. CASE Subject(u) # None
      <4>1. Subject(u) \in Review \ {r}
        BY <1>3, <2>2, <3>3 DEF TypeOK, Subject
      <4>2. book'.review[Subject(u)] = book.review[Subject(u)]
        BY <4>1
      <4> QED BY <3>1, <4>2 DEF ThreadsKnow, StateOf, Subject, InProgress
    <3> QED BY <3>2, <3>3
  <2> QED BY <2>1, <2>2
<1>5. PoolKnows'
  <2> SUFFICES ASSUME NEW i \in 1 .. Len(pool) PROVE book'.review[pool[i]].state \in Alive
    BY DEF PoolKnows, StateOf
  <2>1. pool[i] \in Review \ {r}
    BY DEF Apart, TypeOK
  <2> QED BY <2>1 DEF PoolKnows, StateOf
<1>6. Apart'
  BY <1>2 DEF Apart, Subject
<1>7. Tended'
  <2> SUFFICES ASSUME process = "up", NEW q \in Review, book'.review[q].state \in Unfinished
               PROVE  q \in active' /\ Placed(q)'
    BY DEF Tended, InProgress
  <2>1. InProgress(q)
    BY DEF InProgress
  <2>2. q \in active /\ Placed(q)
    BY <2>1 DEF Tended
  <2> QED BY <1>2, <2>2 DEF Placed, Subject
<1>8. DownIsEmpty'
  BY <1>1 DEF DownIsEmpty
<1> QED BY <1>4, <1>5, <1>6, <1>7, <1>8

\* What memory and the files say of the reviews.
Records == Registered /\ Saved /\ ResultsKept

\* The invariant in two halves: where each review is, and what the records say.
LEMMA InvariantIs == IInv <=> TypeOK /\ Whereabouts /\ Records
  BY DEF IInv, Whereabouts, Records

\* A working thread that writes nothing.
LEMMA MovesQuietly ==
  ASSUME IInv, NEW t \in Thread, thread[t].pc \in Working,
         NEW pc \in Working \cup {"leave"}, NEW n \in Stages, Goto(t, pc, n),
         pc = "leave" => Canceled(Subject(t)), pc = "paused" => process = "stopping",
         UNCHANGED <<bookkeeping, active, pool, process, torn>>
  PROVE  Whereabouts' /\ Records'
<1> USE InvariantIs
<1>1. Subject(t) \in Review /\ process # "down"
  BY HasReview DEF Whereabouts, Working
<1>2. PICK r \in Review : Subject(t) = r
  BY <1>1
<1>3. book.review[r].state \in Alive
  BY <1>2 DEF Whereabouts, ThreadsKnow, StateOf
<1>4. pc \in Inside \cup {"leave"} /\ thread[t].pc \in Inside
  BY DEF Inside
<1>5. book' = book
  BY DEF bookkeeping
<1>6. Whereabouts'
  <2>1. pc = "leave" => book'.review[r].state \notin Unfinished \cup {"NONE"}
    BY <1>2, <1>5 DEF Canceled, Unfinished
  <2>2. pc # "failing"
    BY DEF Working
  <2> QED BY <1>2, <1>3, <1>4, <1>5, <2>1, <2>2, Moves DEF InProgress
<1>7. \A u \in Thread \ {t} : thread'[u] = thread[u]
  BY <1>4, GotoIs
<1>8. Saved'
  <2> SUFFICES ASSUME NEW q \in Review
               PROVE  \/ book'.review[q] = disk'.review[q]
                      \/ /\ book'.review[q].state = "FAILED" /\ disk'.review[q].state # "COMPLETED"
                         /\ \E u \in Thread : thread'[u].review = q /\ thread'[u].pc = "failing"
    BY DEF Saved, StateOf, Subject
  <2>1. CASE book.review[q] = disk.review[q]
    BY <2>1 DEF bookkeeping
  <2>2. CASE book.review[q] # disk.review[q]
    <3>1. PICK u \in Thread : Subject(u) = q /\ thread[u].pc = "failing"
      BY <2>2 DEF Records, Saved
    <3>2. u # t
      BY <3>1 DEF Working
    <3> QED BY <1>7, <2>2, <3>1, <3>2 DEF Records, Saved, StateOf, Subject, bookkeeping
  <2> QED BY <2>1, <2>2
<1>9. Registered' /\ ResultsKept'
  BY DEF Records, Registered, ResultsKept, StateOf, bookkeeping
<1> QED
  BY <1>6, <1>8, <1>9 DEF Records

\* The jobs of the RAG service keep their types.
LEMMA RagTypes ==
  ASSUME TypeOK, NEW r \in Review,
         \/ Rag!Accept(r) \/ Rag!Start(r) \/ Rag!Again(r) \/ Rag!Retry(r)
         \/ \E outcome \in Rag!Settled : Rag!Settle(r, outcome)
  PROVE  phase' \in [Review -> Rag!Phase] /\ tries' \in [Review -> 0 .. MaxAttempts]
<1>1. phase \in [Review -> Rag!Phase] /\ tries \in [Review -> 0 .. MaxAttempts]
  BY DEF TypeOK
<1>2. MaxAttempts \in Nat
  BY ConstantsAssumption
<1> USE DEF Rag!Become, Rag!Phase, Rag!Settled
<1>3. CASE Rag!Accept(r)
  BY <1>1, <1>3 DEF Rag!Accept
<1>4. CASE Rag!Start(r)
  BY <1>1, <1>2, <1>4 DEF Rag!Start
<1>5. CASE Rag!Again(r)
  BY <1>1, <1>5 DEF Rag!Again
<1>6. CASE Rag!Retry(r)
  BY <1>1, <1>6 DEF Rag!Retry
<1>7. ASSUME NEW outcome \in Rag!Settled, Rag!Settle(r, outcome)
      PROVE  phase' \in [Review -> Rag!Phase] /\ tries' \in [Review -> 0 .. MaxAttempts]
  BY <1>1, <1>7 DEF Rag!Settle
<1> QED
  BY <1>3, <1>4, <1>5, <1>6, <1>7

\* A crash of the RAG service keeps the types of its jobs.
LEMMA RagCrashTypes ==
  ASSUME TypeOK, Rag!Crash
  PROVE  phase' \in [Review -> Rag!Phase] /\ tries' \in [Review -> 0 .. MaxAttempts]
  BY DEF TypeOK, Rag!Crash, Rag!Phase

\* A thread that only moves keeps the types.
LEMMA TypesQuietly ==
  ASSUME TypeOK, NEW t \in Thread, NEW pc \in Inside \cup {"leave"}, NEW n \in Stages, Goto(t, pc, n),
         phase' \in [Review -> Rag!Phase] /\ tries' \in [Review -> 0 .. MaxAttempts],
         UNCHANGED <<bookkeeping, active, pool, process, bounds>>
  PROVE  TypeOK'
  BY GotoIs DEF TypeOK, Local, bookkeeping, bounds

\* A working thread that writes nothing keeps the invariant.
LEMMA QuietStep ==
  ASSUME IInv, NEW t \in Thread, thread[t].pc \in Working,
         NEW pc \in Working \cup {"leave"}, NEW n \in Stages, Goto(t, pc, n),
         pc = "leave" => Canceled(Subject(t)), pc = "paused" => process = "stopping",
         phase' \in [Review -> Rag!Phase] /\ tries' \in [Review -> 0 .. MaxAttempts],
         UNCHANGED <<bookkeeping, active, pool, process, bounds>>
  PROVE  IInv'
<1>1. Whereabouts' /\ Records'
  BY MovesQuietly DEF bounds
<1>2. TypeOK'
  BY InvariantIs, TypesQuietly DEF Inside
<1> QED
  BY <1>1, <1>2 DEF IInv, Whereabouts, Records

(***************************************************************************)
(* The steps of the threads.                                               *)
(***************************************************************************)
LEMMA RaiseKeeps ==
  ASSUME IInv, NEW t \in Thread, thread[t].pc \in Working,
         \/ RaiseCanceled(t) /\ Canceled(Subject(t))
         \/ RaisePaused(t) /\ process = "stopping"
         \/ Raise(t),
         UNCHANGED <<bookkeeping, active, pool, process, bounds, rag>>
  PROVE  IInv'
<1>1. phase' \in [Review -> Rag!Phase] /\ tries' \in [Review -> 0 .. MaxAttempts]
  BY DEF IInv, TypeOK, rag
<1>2. 0 \in Stages /\ {"paused", "failed"} \subseteq Working
  BY DEF Stages, Working
<1>3. CASE RaiseCanceled(t) /\ Canceled(Subject(t))
  BY <1>1, <1>2, <1>3, QuietStep DEF RaiseCanceled
<1>4. CASE RaisePaused(t) /\ process = "stopping"
  BY <1>1, <1>2, <1>4, QuietStep DEF RaisePaused
<1>5. CASE Raise(t)
  BY <1>1, <1>2, <1>5, QuietStep DEF Raise
<1> QED BY <1>3, <1>4, <1>5

\* The work of a stage, its failures and the waits change nothing but the thread.
LEMMA WorkKeeps ==
  ASSUME IInv, NEW t \in Thread, Work(t) \/ WorkFails(t) \/ WaitEnds(t) \/ Poll(t)
  PROVE  IInv'
<1>1. thread[t].pc \in Working
  BY DEF Work, WorkFails, WaitEnds, Poll, At, Working
<1>2. UNCHANGED <<bookkeeping, active, pool, process, bounds, rag>>
  BY DEF Work, WorkFails, WaitEnds, Poll
<1>3. phase' \in [Review -> Rag!Phase] /\ tries' \in [Review -> 0 .. MaxAttempts]
  BY <1>2 DEF IInv, TypeOK, rag
<1>4. ASSUME NEW n \in Stages, Goto(t, "stage", n) PROVE IInv'
  BY <1>1, <1>2, <1>3, <1>4, QuietStep DEF Working
<1>5. CASE Work(t)
  <2>1. CASE RaiseCanceled(t) /\ Canceled(Subject(t))
    BY <1>1, <1>2, <2>1, RaiseKeeps
  <2>2. CASE Goto(t, "stage", thread[t].n + 1)
    <3>1. PICK n \in 0 .. 2 : thread[t].n = n
      BY <1>5 DEF Work
    <3>2. n + 1 \in Stages /\ Goto(t, "stage", n + 1)
      BY <2>2, <3>1 DEF Stages
    <3> QED BY <1>4, <3>2
  <2> QED BY <1>5, <2>1, <2>2 DEF Work
<1>6. CASE WorkFails(t)
  BY <1>1, <1>2, <1>6, RaiseKeeps DEF WorkFails
<1>7. CASE WaitEnds(t)
  BY <1>1, <1>2, <1>7, RaiseKeeps DEF WaitEnds
<1>8. CASE Poll(t)
  <2>1. CASE Goto(t, "stage", 5)
    BY <1>4, <2>1 DEF Stages
  <2>2. CASE Raise(t)
    BY <1>1, <1>2, <2>2, RaiseKeeps
  <2> QED BY <1>8, <2>1, <2>2 DEF Poll
<1> QED BY <1>5, <1>6, <1>7, <1>8

\* submit_rag changes the RAG job of the review, if anything.
LEMMA SubmitKeeps ==
  ASSUME IInv, NEW t \in Thread, SubmitRag(t)
  PROVE  IInv'
<1>1. thread[t].pc \in Working /\ TypeOK /\ Subject(t) \in Review
  <2>1. thread[t].pc \in Working
    BY DEF SubmitRag, At, Working
  <2> QED BY <2>1, HasReview DEF IInv, Working
<1>2. PICK r \in Review : Subject(t) = r
  BY <1>1
<1>3. UNCHANGED <<bookkeeping, active, pool, process, bounds>>
  BY DEF SubmitRag
<1>4. phase' \in [Review -> Rag!Phase] /\ tries' \in [Review -> 0 .. MaxAttempts]
  <2>1. Rag!Accept(r) \/ Rag!Retry(r) \/ UNCHANGED rag
    BY <1>2 DEF SubmitRag
  <2>2. CASE UNCHANGED rag
    BY <1>1, <2>2 DEF TypeOK, rag
  <2> QED BY <1>1, <2>1, <2>2, RagTypes
<1>5. Goto(t, "stage", 4) \/ Goto(t, "failed", 4) \/ Goto(t, "failed", 0)
  BY DEF SubmitRag, Raise
<1>6. {0, 4} \subseteq Stages /\ {"stage", "failed"} \subseteq Working
  BY DEF Stages, Working
<1> QED
  BY <1>1, <1>3, <1>4, <1>5, <1>6, QuietStep

\* Nobody comes to be registered by a write of states that spares the
\* advertisements.
LEMMA StaysRegistered ==
  ASSUME Registered,
         \A q \in Review : book'.review[q].state \notin {"NONE", "DELETED"} =>
                             Kept(q) /\ book'.review[q].ad = AdOf(q),
         \A a \in Ad : book.ad[a].status # "GONE" => book'.ad[a].status # "GONE",
         disk' \in {disk, book, book'}
  PROVE  Registered'
<1>1. \A q \in Review : Kept(q) => AdOf(q) \in Ad /\ book.ad[AdOf(q)].status # "GONE"
  BY DEF Registered, Kept, AdOf
<1>2. ASSUME NEW q \in Review, book'.review[q].state \notin {"NONE", "DELETED"}
      PROVE  book'.review[q].ad \in Ad /\ book'.ad[book'.review[q].ad].status # "GONE"
  BY <1>1, <1>2
<1>3. ASSUME NEW q \in Review, disk'.review[q].state \notin {"NONE", "DELETED"}
      PROVE  disk'.review[q].ad \in Ad /\ disk'.ad[disk'.review[q].ad].status # "GONE"
  <2>1. CASE disk' = book' BY <1>2, <1>3, <2>1
  <2>2. CASE disk' \in {disk, book} BY <1>3, <2>2 DEF Registered
  <2> QED BY <2>1, <2>2
<1> QED
  BY <1>2, <1>3 DEF Registered

\* A thread writes its review and saves the book, and what a completed review
\* shows is saved with it.
LEMMA SavingStep ==
  ASSUME IInv, NEW t \in Thread, NEW r \in Review, Subject(t) = r, thread[t].pc \in Inside,
         NEW pc \in Inside \cup {"leave"}, NEW n \in Stages, Goto(t, pc, n),
         UNCHANGED <<active, pool, process, bounds, rag>>,
         book' \in Books, \A q \in Review \ {r} : book'.review[q] = book.review[q],
         book'.review[r].state \notin {"NONE", "DELETED"} => Kept(r) /\ book'.review[r].ad = AdOf(r),
         \A a \in Ad : book.ad[a].status # "GONE" => book'.ad[a].status # "GONE",
         pc \in Working => book'.review[r].state \in Alive,
         pc = "failing" => book'.review[r].state \in {"FAILED", "DELETED"},
         pc = "paused" => process = "stopping",
         pc = "leave" => /\ book'.review[r].state # "NONE"
                         /\ process = "stopping" \/ book'.review[r].state \notin Unfinished,
         book'.review[r].state \in Unfinished => process # "up" \/ InProgress(r),
         disk' = book',
         \/ book'.review[r].state # "COMPLETED" /\ items' = items /\ results' = results
         \/ items' = items \cup {r} /\ results' = items'
  PROVE  IInv'
<1> USE InvariantIs
<1>1. TypeOK'
  BY GotoIs DEF TypeOK, Local, bounds, rag
<1>2. Whereabouts'
  BY Moves
<1>3. Registered'
  BY StaysRegistered DEF Records, Kept, AdOf
<1>4. Saved'
  BY DEF Saved
<1>5. ResultsKept'
  <2> SUFFICES ASSUME NEW q \in Review, book'.review[q].state = "COMPLETED", q \notin torn
               PROVE  q \in items' \cap results'
    BY DEF ResultsKept, StateOf, bounds
  <2>1. CASE q = r
    BY <2>1
  <2>2. CASE q # r
    BY <2>2 DEF Records, ResultsKept, StateOf
  <2> QED BY <2>1, <2>2
<1> QED BY <1>1, <1>2, <1>3, <1>4, <1>5 DEF IInv, Whereabouts

\* A stage starts, and saves what it has done so far.
LEMMA StageKeeps ==
  ASSUME IInv, NEW t \in Thread, Stage(t)
  PROVE  IInv'
<1>1. thread[t].pc \in Working /\ Subject(t) \in Review
  BY HasReview DEF Stage, IInv, Working
<1>2. PICK r \in Review : Subject(t) = r
  BY <1>1
<1>3. CASE Canceled(r)
  BY <1>1, <1>2, <1>3, RaiseKeeps DEF Stage, bookkeeping
<1>4. CASE ~Canceled(r) /\ process = "stopping"
  BY <1>1, <1>2, <1>4, RaiseKeeps DEF Stage, bookkeeping
<1>5. CASE ~Canceled(r) /\ process # "stopping"
  <2>1. book' = WithBoth(r, "RUNNING", "ANALYZING") /\ disk' = book'
        /\ Goto(t, "work", thread[t].n)
    BY <1>2, <1>5 DEF Stage, Persist
  <2>2. "RUNNING" \in State /\ "ANALYZING" \in AdStatus \ {"GONE"}
    BY StatusIs DEF StatusOf, State, Unfinished
  <2>3. StateOf(r) \in Unfinished /\ book \in Books
    BY <1>1, <1>2, <1>5 DEF IInv, ThreadsKnow, TypeOK, Alive, Canceled, StateOf
  <2>4. /\ book' \in Books /\ \A q \in Review \ {r} : book'.review[q] = book.review[q]
        /\ book'.review[r].state = "RUNNING" /\ book'.review[r].ad = AdOf(r)
        /\ \A a \in Ad : book.ad[a].status # "GONE" => book'.ad[a].status # "GONE"
    BY <2>1, <2>2, <2>3, WithStateIs, WithBothIs DEF Unfinished
  <2>5. Kept(r) /\ InProgress(r)
    BY <2>3 DEF Kept, InProgress, StateOf, Unfinished
  <2>6. PICK n \in Stages : thread[t].n = n
    BY DEF IInv, TypeOK
  <2>7. "work" \in Working /\ "RUNNING" \in Alive
    BY DEF Working, Alive, Unfinished
  <2>8. UNCHANGED <<items, results, active, pool, process, bounds, rag>>
    BY DEF Stage
  <2> QED BY <1>1, <1>2, <2>1, <2>4, <2>5, <2>6, <2>7, <2>8, SavingStep DEF Inside
<1> QED BY <1>3, <1>4, <1>5

\* The result is projected under the lock, unless the review was canceled or deleted.
LEMMA CompleteKeeps ==
  ASSUME IInv, NEW t \in Thread, Complete(t)
  PROVE  IInv'
<1>1. thread[t].pc \in Working /\ Subject(t) \in Review
  BY HasReview DEF Complete, At, IInv, Working
<1>2. PICK r \in Review : Subject(t) = r
  BY <1>1
<1>3. CASE Canceled(r)
  BY <1>1, <1>2, <1>3, RaiseKeeps DEF Complete, bookkeeping
<1>4. CASE ~Canceled(r)
  <2>1. book' = WithBoth(r, "COMPLETED", "REVIEW_COMPLETED") /\ disk' = book'
        /\ items' = items \cup {r} /\ results' = items' /\ Goto(t, "leave", 0)
    BY <1>2, <1>4 DEF Complete, PersistResults, Persist
  <2>2. "COMPLETED" \in State /\ "REVIEW_COMPLETED" \in AdStatus \ {"GONE"}
    BY StatusIs DEF StatusOf, State, Unfinished
  <2>3. StateOf(r) \in Unfinished /\ book \in Books
    BY <1>1, <1>2, <1>4 DEF IInv, ThreadsKnow, TypeOK, Alive, Canceled, StateOf
  <2>4. /\ book' \in Books /\ \A q \in Review \ {r} : book'.review[q] = book.review[q]
        /\ book'.review[r].state = "COMPLETED" /\ book'.review[r].ad = AdOf(r)
        /\ \A a \in Ad : book.ad[a].status # "GONE" => book'.ad[a].status # "GONE"
    BY <2>1, <2>2, <2>3, WithStateIs, WithBothIs DEF Unfinished
  <2>5. Kept(r) /\ "COMPLETED" \notin Unfinished /\ "leave" \notin Working
    BY <2>3 DEF Kept, StateOf, Unfinished, Working
  <2>6. UNCHANGED <<active, pool, process, bounds, rag>>
    BY DEF Complete
  <2>7. 0 \in Stages
    BY DEF Stages
  <2> QED BY <1>1, <1>2, <2>1, <2>4, <2>5, <2>6, <2>7, SavingStep DEF Inside
<1> QED BY <1>3, <1>4

\* A shutdown marks a review to be taken up again.
LEMMA PauseKeeps ==
  ASSUME IInv, NEW t \in Thread, Pause(t)
  PROVE  IInv'
<1>1. thread[t].pc \in Working /\ Subject(t) \in Review
  BY HasReview DEF Pause, IInv, Working
<1>2. PICK r \in Review : Subject(t) = r
  BY <1>1
<1>3. Goto(t, "leave", 0) /\ process = "stopping" /\ book \in Books /\ StateOf(r) \in Alive
  BY <1>1, <1>2 DEF Pause, IInv, ThreadsKnow, TypeOK
<1>4. UNCHANGED <<items, results, active, pool, process, bounds, rag>>
  BY DEF Pause
<1>5. "RETRY_PENDING" \in State /\ "ANALYSIS_REQUESTED" \in AdStatus \ {"GONE"}
  <2>1. "RETRY_PENDING" \in State BY DEF State, Unfinished
  <2> QED BY <2>1, StatusIs DEF StatusOf
<1>6. 0 \in Stages /\ "leave" \notin Working
  BY DEF Stages, Working
<1>7. CASE book.ad[AdOf(r)].status = "GONE"
  <2>1. book' = WithState(r, "RETRY_PENDING") /\ disk' = disk
    BY <1>2, <1>7 DEF Pause
  <2>2. StateOf(r) = "DELETED"
    BY <1>3, <1>7 DEF IInv, Registered, Alive, Unfinished, StateOf, AdOf
  <2>3. book' = book
    <3>1. book.review[r].state = "DELETED"
      BY <2>2 DEF StateOf
    <3>2. book.review \in [Review -> ReviewRecord] /\ book = [review |-> book.review, ad |-> book.ad]
      BY <1>3, BooksAre
    <3>3. [book.review[r] EXCEPT !.state = "DELETED"] = book.review[r]
      BY <3>1, <3>2 DEF ReviewRecord
    <3>4. book' = [review |-> [book.review EXCEPT ![r] = book.review[r]], ad |-> book.ad]
      BY <2>1, <3>1, <3>2, <3>3 DEF WithState
    <3>5. [book.review EXCEPT ![r] = book.review[r]] = book.review
      BY <3>2
    <3> QED BY <3>2, <3>4, <3>5
  <2>4. UNCHANGED bookkeeping /\ Canceled(r)
    BY <1>4, <2>1, <2>2, <2>3 DEF bookkeeping, Canceled, StateOf
  <2>5. phase' \in [Review -> Rag!Phase] /\ tries' \in [Review -> 0 .. MaxAttempts]
    BY <1>4 DEF IInv, TypeOK, rag
  <2> QED BY <1>1, <1>2, <1>3, <1>4, <1>6, <2>4, <2>5, QuietStep
<1>8. CASE book.ad[AdOf(r)].status # "GONE"
  <2>1. book' = WithBoth(r, "RETRY_PENDING", "ANALYSIS_REQUESTED") /\ disk' = book'
    BY <1>2, <1>8 DEF Pause, Persist
  <2>2. /\ book' \in Books /\ \A q \in Review \ {r} : book'.review[q] = book.review[q]
        /\ book'.review[r].state = IF StateOf(r) = "DELETED" THEN "DELETED" ELSE "RETRY_PENDING"
        /\ book'.review[r].ad = AdOf(r)
        /\ \A a \in Ad : book.ad[a].status # "GONE" => book'.ad[a].status # "GONE"
    BY <1>3, <1>5, <2>1, WithStateIs, WithBothIs
  <2>3. StateOf(r) # "DELETED" => Kept(r)
    BY <1>3 DEF Kept, StateOf, Alive, Unfinished
  <2> QED BY <1>1, <1>2, <1>3, <1>4, <1>6, <2>1, <2>2, <2>3, SavingStep DEF Inside
<1> QED BY <1>7, <1>8

\* The first half of a failure: the review.
LEMMA FailReviewKeeps ==
  ASSUME IInv, NEW t \in Thread, FailReview(t)
  PROVE  IInv'
<1>1. thread[t].pc \in Working /\ Subject(t) \in Review
  BY HasReview DEF FailReview, IInv, Working
<1>2. PICK r \in Review : Subject(t) = r
  BY <1>1
<1>3. StateOf(r) \in Alive /\ book \in Books /\ "FAILED" \in State
  BY <1>1, <1>2 DEF IInv, ThreadsKnow, TypeOK, State
<1>4. UNCHANGED <<disk, items, results, active, pool, process, bounds, rag>>
  BY DEF FailReview
<1>5. CASE ~Kept(r) /\ Goto(t, "leave", 0) /\ book' = book
  <2>1. RaiseCanceled(t) /\ Canceled(r)
    BY <1>3, <1>5 DEF RaiseCanceled, Kept, Canceled, StateOf, Alive, Unfinished
  <2> QED BY <1>1, <1>2, <1>4, <1>5, <2>1, RaiseKeeps DEF bookkeeping
<1>6. CASE book' = WithState(r, "FAILED") /\ Goto(t, "failing", 0)
  <2>1. /\ book' \in Books /\ book'.ad = book.ad
        /\ \A q \in Review \ {r} : book'.review[q] = book.review[q]
        /\ book'.review[r].state = IF StateOf(r) = "DELETED" THEN "DELETED" ELSE "FAILED"
        /\ book'.review[r].ad = AdOf(r)
    BY <1>3, <1>6, WithStateIs
  <2>2. 0 \in Stages /\ "failing" \in Inside /\ "failing" \notin Working /\ thread[t].pc \in Inside
    BY <1>1 DEF Stages, Inside, Working
  <2>3. /\ thread' \in [Thread -> Local] /\ thread'[t].pc = "failing" /\ thread'[t].review = r
        /\ \A u \in Thread \ {t} : thread'[u] = thread[u]
    BY <1>2, <1>6, <2>2, GotoIs DEF IInv
  <2>4. TypeOK'
    BY <1>4, <2>1, <2>3 DEF IInv, TypeOK, Local, bounds, rag
  <2>5. Whereabouts'
    <3>1. book'.review[r].state \notin Unfinished
      BY <2>1 DEF Unfinished
    <3> QED BY <1>2, <1>4, <1>6, <2>1, <2>2, <3>1, Moves, InvariantIs
  <2>6. Registered'
    <3>1. StateOf(r) # "DELETED" => Kept(r)
      BY <1>3 DEF Kept, StateOf, Alive, Unfinished
    <3> QED BY <1>4, <2>1, <3>1, StaysRegistered DEF IInv, Kept, AdOf
  <2>7. Saved'
    <3> SUFFICES ASSUME NEW q \in Review
                 PROVE  \/ book'.review[q] = disk.review[q]
                        \/ /\ book'.review[q].state = "FAILED" /\ disk.review[q].state # "COMPLETED"
                           /\ \E u \in Thread : thread'[u].review = q /\ thread'[u].pc = "failing"
      BY <1>4 DEF Saved, StateOf, Subject
    <3>1. CASE q # r
      <4>1. book'.review[q] = book.review[q]
        BY <2>1, <3>1
      <4>2. CASE book.review[q] = disk.review[q]
        BY <4>1, <4>2
      <4>3. CASE book.review[q] # disk.review[q]
        <5>1. PICK u \in Thread : Subject(u) = q /\ thread[u].pc = "failing"
          BY <4>3 DEF IInv, Saved
        <5>2. u # t
          BY <1>1, <5>1 DEF Working
        <5> QED BY <2>3, <4>1, <4>3, <5>1, <5>2 DEF IInv, Saved, StateOf, Subject
      <4> QED BY <4>2, <4>3
    <3>2. CASE q = r
      <4>1. book.review[r] = disk.review[r] /\ book.review[r].state # "COMPLETED"
        BY <1>3 DEF IInv, Saved, StateOf, Alive, Unfinished
      <4>2. CASE StateOf(r) = "DELETED"
        <5>1. book'.review[r] = book.review[r]
          <6>1. book.review \in [Review -> ReviewRecord] /\ book.review[r].state = "DELETED"
                /\ book = [review |-> book.review, ad |-> book.ad]
            BY <1>3, <4>2, BooksAre DEF StateOf
          <6>2. [book.review[r] EXCEPT !.state = "DELETED"] = book.review[r]
            BY <6>1 DEF ReviewRecord
          <6> QED BY <1>6, <6>1, <6>2 DEF WithState
        <5> QED BY <3>2, <4>1, <5>1
      <4>3. CASE StateOf(r) # "DELETED"
        BY <2>1, <2>3, <3>2, <4>1, <4>3
      <4> QED BY <4>2, <4>3
    <3> QED BY <3>1, <3>2
  <2>8. ResultsKept'
    <3> SUFFICES ASSUME NEW q \in Review, book'.review[q].state = "COMPLETED", q \notin torn
                 PROVE  q \in items \cap results
      BY <1>4 DEF ResultsKept, StateOf, bounds
    <3>1. q # r
      BY <2>1
    <3> QED BY <2>1, <3>1 DEF IInv, ResultsKept, StateOf
  <2> QED BY <2>4, <2>5, <2>6, <2>7, <2>8 DEF IInv, Whereabouts
<1> QED BY <1>2, <1>5, <1>6 DEF FailReview

\* The second half: the advertisement, if it is still there.
LEMMA FailAdKeeps ==
  ASSUME IInv, NEW t \in Thread, FailAd(t)
  PROVE  IInv'
<1>1. thread[t].pc = "failing" /\ Subject(t) \in Review
  BY HasReview DEF FailAd, IInv
<1>2. PICK r \in Review : Subject(t) = r
  BY <1>1
<1>3. StateOf(r) \in {"FAILED", "DELETED"} /\ book \in Books
  BY <1>1, <1>2 DEF IInv, ThreadsKnow, TypeOK
<1>4. UNCHANGED <<items, results, active, pool, process, bounds, rag>> /\ Goto(t, "leave", 0)
  BY DEF FailAd
<1>5. 0 \in Stages /\ thread[t].pc \in Inside /\ "leave" \notin Inside
  BY <1>1 DEF Stages, Inside, Working
<1>6. CASE book.ad[AdOf(r)].status = "GONE"
  <2>1. book' = book /\ disk' = disk
    BY <1>2, <1>6 DEF FailAd
  <2>2. StateOf(r) = "DELETED"
    BY <1>3, <1>6 DEF IInv, Registered, StateOf, AdOf
  <2>3. TypeOK'
    BY <1>4, <1>5, <2>1, TypesQuietly DEF IInv, TypeOK, bookkeeping, rag
  <2>4. Whereabouts'
    BY <1>2, <1>4, <1>5, <2>1, <2>2, Moves, InvariantIs DEF StateOf, Inside, Unfinished
  <2>5. Registered' /\ ResultsKept'
    BY <1>4, <2>1 DEF IInv, Registered, ResultsKept, StateOf, bounds
  <2>6. Saved'
    <3>1. \A u \in Thread \ {t} : thread'[u] = thread[u]
      BY <1>4, <1>5, GotoIs DEF IInv
    <3> SUFFICES ASSUME NEW q \in Review, book.review[q] # disk.review[q]
                 PROVE  /\ book.review[q].state = "FAILED" /\ disk.review[q].state # "COMPLETED"
                        /\ \E u \in Thread : thread'[u].review = q /\ thread'[u].pc = "failing"
      BY <2>1 DEF Saved, StateOf, Subject
    <3>2. PICK u \in Thread : Subject(u) = q /\ thread[u].pc = "failing"
      BY DEF IInv, Saved
    <3>3. book.review[q].state = "FAILED" /\ disk.review[q].state # "COMPLETED"
      BY DEF IInv, Saved, StateOf
    <3>4. u # t
      BY <1>2, <2>2, <3>2, <3>3 DEF StateOf
    <3> QED BY <3>1, <3>2, <3>3, <3>4 DEF Subject
  <2> QED BY <2>3, <2>4, <2>5, <2>6 DEF IInv, Whereabouts
<1>7. CASE book.ad[AdOf(r)].status # "GONE"
  <2>1. book' = [book EXCEPT !.ad[AdOf(r)].status = "REVIEW_FAILED"] /\ disk' = book'
    BY <1>2, <1>7 DEF FailAd, Persist
  <2>2. "REVIEW_FAILED" \in AdStatus \ {"GONE"}
    BY StatusIs DEF StatusOf, State, Unfinished
  <2>3. /\ book' \in Books /\ book'.review = book.review
        /\ \A a \in Ad : book.ad[a].status # "GONE" => book'.ad[a].status # "GONE"
    <3> DEFINE a0 == AdOf(r)
               ads == [book.ad EXCEPT ![a0] = [@ EXCEPT !.status = "REVIEW_FAILED"]]
    <3>1. book.review \in [Review -> ReviewRecord] /\ book.ad \in [Ad -> AdRecord]
      BY <1>3, BooksAre
    <3>2. book' = [review |-> book.review, ad |-> ads]
      BY <1>3, <2>1, BooksAre
    <3>3. \A a \in Ad : [book.ad[a] EXCEPT !.status = "REVIEW_FAILED"] \in AdRecord
      BY <2>2, <3>1 DEF AdRecord
    <3>4. ads \in [Ad -> AdRecord]
      BY <3>1, <3>3
    <3>5. \A a \in Ad : ads[a].status \in {book.ad[a].status, "REVIEW_FAILED"}
      BY <3>1 DEF AdRecord
    <3> HIDE DEF ads
    <3>6. book' \in Books /\ book'.review = book.review /\ book'.ad = ads
      BY <3>1, <3>2, <3>4, BooksAre
    <3> QED BY <3>5, <3>6
  <2>4. book'.review[r].state # "DELETED" => Kept(r)
    BY <1>3, <2>3 DEF Kept, StateOf
  <2> QED BY <1>2, <1>3, <1>4, <1>5, <2>1, <2>3, <2>4, SavingStep
      DEF StateOf, AdOf, Inside, Unfinished
<1> QED BY <1>6, <1>7

\* The exception of a projection may leave its items behind, or may have saved
\* them; no completed review loses its own.
LEMMA ProjectionFailsKeeps ==
  ASSUME IInv, NEW t \in Thread, ProjectionFails(t)
  PROVE  IInv'
<1>1. thread[t].pc \in Working /\ Subject(t) \in Review
  BY HasReview DEF ProjectionFails, At, IInv, Working
<1>2. PICK r \in Review : Subject(t) = r
  BY <1>1
<1>3. StateOf(r) \in Alive
  BY <1>1, <1>2 DEF IInv, ThreadsKnow
<1>4. UNCHANGED <<book, active, pool, process, bounds, rag>> /\ Goto(t, "failed", 0)
  BY DEF ProjectionFails, Raise
<1>5. /\ items' \in {items, items \cup {r}, items \ {r}}
      /\ \/ disk' = disk /\ results' = results
         \/ disk' = book /\ results' = items' /\ items \subseteq items'
  BY <1>2 DEF ProjectionFails
<1>6. 0 \in Stages /\ thread[t].pc \in Inside /\ "failed" \in Working
  BY <1>1 DEF Stages, Inside, Working
<1>7. /\ thread' \in [Thread -> Local]
      /\ \A u \in Thread \ {t} : thread'[u] = thread[u]
  BY <1>4, <1>6, GotoIs DEF IInv, Inside
<1>8. TypeOK'
  BY <1>4, <1>5, <1>7 DEF IInv, TypeOK, Local, bounds, rag
<1>9. Whereabouts'
  BY <1>2, <1>3, <1>4, <1>6, Moves, InvariantIs DEF Inside, StateOf, InProgress
<1>10. Registered'
  BY <1>4, <1>5 DEF IInv, Registered
<1>11. Saved'
  <2>1. CASE disk' = book
    BY <1>4, <2>1 DEF Saved
  <2>2. CASE disk' = disk
    <3> SUFFICES ASSUME NEW q \in Review, book.review[q] # disk.review[q]
                 PROVE  /\ book.review[q].state = "FAILED" /\ disk.review[q].state # "COMPLETED"
                        /\ \E u \in Thread : thread'[u].review = q /\ thread'[u].pc = "failing"
      BY <1>4, <2>2 DEF Saved, StateOf, Subject
    <3>1. PICK u \in Thread : Subject(u) = q /\ thread[u].pc = "failing"
      BY DEF IInv, Saved
    <3>2. u # t
      BY <1>1, <3>1 DEF Working
    <3> QED BY <1>7, <3>1, <3>2 DEF IInv, Saved, StateOf, Subject
  <2> QED BY <1>5, <2>1, <2>2
<1>12. ResultsKept'
  <2> SUFFICES ASSUME NEW q \in Review, book.review[q].state = "COMPLETED", q \notin torn
               PROVE  q \in items' \cap results'
    BY <1>4 DEF ResultsKept, StateOf, bounds
  <2>1. q # r /\ q \in items \cap results
    BY <1>3 DEF IInv, ResultsKept, StateOf, Alive, Unfinished
  <2> QED BY <1>5, <2>1
<1> QED BY <1>8, <1>9, <1>10, <1>11, <1>12 DEF IInv, Whereabouts

\* A thread takes the oldest work item (the executor's queue).
LEMMA TakeKeeps ==
  ASSUME IInv, NEW t \in Thread, Take(t)
  PROVE  IInv'
<1>1. /\ pool \in Seq(Review) /\ pool # <<>> /\ pool' = Tail(pool)
      /\ thread \in [Thread -> Local] /\ Subject(t) = None
      /\ UNCHANGED <<bookkeeping, active, process, bounds, rag>>
  BY DEF Take, IInv, TypeOK, Local, ThreadsKnow
<1>2. PICK r \in Review : r = Head(pool)
  BY <1>1, HeadTailProperties
<1>3. /\ Len(pool) \in Nat \ {0} /\ r = pool[1]
      /\ pool' \in Seq(Review) /\ Len(pool') = Len(pool) - 1
      /\ \A i \in 1 .. Len(pool) - 1 : pool'[i] = pool[i + 1]
  BY <1>1, <1>2, HeadTailProperties, EmptySeq
<1>4. \A i \in 1 .. Len(pool) - 1 : i + 1 \in 1 .. Len(pool) /\ i + 1 # 1
  BY <1>3
<1>5. \A i \in 1 .. Len(pool) : i # 1 => i - 1 \in 1 .. Len(pool) - 1 /\ (i - 1) + 1 = i
  BY <1>3
<1>6. 1 \in 1 .. Len(pool) /\ None \notin Review /\ 0 \in Stages
  BY <1>3, ConstantsAssumption DEF Stages
<1>7. /\ thread'[t] = [pc |-> "stage", n |-> 0, review |-> r]
      /\ \A u \in Thread \ {t} : thread'[u] = thread[u]
      /\ thread' \in [Thread -> Local]
  BY <1>1, <1>2, <1>6 DEF Take, Local
<1>8. TypeOK'
  BY <1>1, <1>3, <1>7 DEF IInv, TypeOK, Local, bookkeeping, bounds, rag
<1>9. book' = book /\ StateOf(r) \in Alive /\ \A u \in Thread : Subject(u) # r
  BY <1>1, <1>3, <1>6 DEF IInv, PoolKnows, Apart, bookkeeping
<1>10. ThreadsKnow'
  BY <1>1, <1>6, <1>7, <1>9 DEF IInv, ThreadsKnow, StateOf, Subject, InProgress, Working
<1>11. PoolKnows'
  BY <1>3, <1>4, <1>9 DEF IInv, PoolKnows, StateOf
<1>12. Apart'
  <2>1. \A i, j \in 1 .. Len(pool') : pool'[i] = pool'[j] => i = j
    <3> SUFFICES ASSUME NEW i \in 1 .. Len(pool) - 1, NEW j \in 1 .. Len(pool) - 1, pool'[i] = pool'[j]
                 PROVE  i = j
      BY <1>3
    <3>1. i + 1 = j + 1
      BY <1>3, <1>4 DEF IInv, Apart
    <3> QED BY <3>1
  <2>2. \A t1, t2 \in Thread : thread'[t1].review = thread'[t2].review /\ thread'[t1].review # None
                                => t1 = t2
    BY <1>7, <1>9 DEF IInv, Apart, Subject
  <2>3. \A i \in 1 .. Len(pool) - 1, u \in Thread : pool'[i] # thread'[u].review
    BY <1>3, <1>4, <1>6, <1>7 DEF IInv, Apart, Subject
  <2> QED BY <1>3, <2>1, <2>2, <2>3 DEF Apart, Subject
<1>13. Tended'
  <2> SUFFICES ASSUME process = "up", NEW q \in Review, InProgress(q)
               PROVE  q \in active /\ Placed(q)'
    BY <1>1, <1>9 DEF Tended, InProgress
  <2>1. q \in active /\ Placed(q)
    BY DEF IInv, Tended
  <2>2. CASE q = r
    BY <1>7, <2>1, <2>2 DEF Placed, Subject
  <2>3. CASE \E i \in 1 .. Len(pool) : pool[i] = q /\ q # r
    <3>1. PICK i \in 1 .. Len(pool) : pool[i] = q /\ i # 1
      BY <1>3, <2>3
    <3>2. i - 1 \in 1 .. Len(pool') /\ pool'[i - 1] = q
      BY <1>3, <1>5, <3>1
    <3> QED BY <2>1, <3>2 DEF Placed
  <2>4. CASE \E u \in Thread : Subject(u) = q
    <3>1. PICK u \in Thread : Subject(u) = q
      BY <2>4
    <3>2. u # t
      BY <1>1, <1>6, <3>1
    <3> QED BY <1>7, <2>1, <3>1, <3>2 DEF Placed, Subject
  <2> QED BY <2>1, <2>2, <2>3, <2>4 DEF Placed
<1>14. DownIsEmpty'
  BY <1>1 DEF IInv, DownIsEmpty
<1>15. Registered' /\ ResultsKept'
  BY <1>1 DEF IInv, Registered, ResultsKept, StateOf, bookkeeping, bounds
<1>16. Saved'
  <2> SUFFICES ASSUME NEW q \in Review, book.review[q] # disk.review[q]
               PROVE  /\ book.review[q].state = "FAILED" /\ disk.review[q].state # "COMPLETED"
                      /\ \E u \in Thread : thread'[u].review = q /\ thread'[u].pc = "failing"
    BY <1>1 DEF Saved, StateOf, Subject, bookkeeping
  <2>1. PICK u \in Thread : Subject(u) = q /\ thread[u].pc = "failing"
    BY DEF IInv, Saved
  <2>2. u # t
    BY <2>1 DEF Take
  <2> QED BY <1>7, <2>1, <2>2 DEF IInv, Saved, StateOf, Subject
<1> QED
  BY <1>8, <1>10, <1>11, <1>12, <1>13, <1>14, <1>15, <1>16 DEF IInv

\* A thread leaves a review that is not in progress, or the server stops.
LEMMA LeaveKeeps ==
  ASSUME IInv, NEW t \in Thread, Leave(t)
  PROVE  IInv'
<1>1. thread[t].pc = "leave" /\ Subject(t) \in Review /\ process # "down"
  BY HasReview DEF Leave, IInv
<1>2. PICK r \in Review : Subject(t) = r
  BY <1>1
<1>3. /\ active' = active \ {r}
      /\ UNCHANGED <<bookkeeping, pool, process, bounds, rag>>
  BY <1>2 DEF Leave
<1>4. /\ thread'[t] = [pc |-> "idle", n |-> 0, review |-> None]
      /\ \A u \in Thread \ {t} : thread'[u] = thread[u]
      /\ thread' \in [Thread -> Local]
  BY DEF Leave, IInv, TypeOK, Local, IdleThread, Stages
<1>5. TypeOK'
  BY <1>3, <1>4 DEF IInv, TypeOK, Local, bookkeeping, bounds, rag
<1>6. book' = book /\ disk' = disk /\ None \notin Review
  BY <1>3, ConstantsAssumption DEF bookkeeping
<1>7. ThreadsKnow'
  BY <1>3, <1>4, <1>6 DEF IInv, ThreadsKnow, StateOf, Subject, InProgress, Working
<1>8. PoolKnows'
  BY <1>3, <1>6 DEF IInv, PoolKnows, StateOf
<1>9. Apart'
  <2>1. \A i \in 1 .. Len(pool) : pool[i] # None
    BY <1>6 DEF IInv, TypeOK
  <2> QED BY <1>3, <1>4, <2>1 DEF IInv, Apart, Subject
<1>10. Tended'
  <2> SUFFICES ASSUME process = "up", NEW q \in Review, InProgress(q)
               PROVE  q \in active' /\ Placed(q)'
    BY <1>3, <1>6 DEF Tended, InProgress
  <2>1. q # r
    BY <1>1, <1>2 DEF IInv, ThreadsKnow
  <2>2. q \in active /\ Placed(q)
    BY DEF IInv, Tended
  <2> QED BY <1>2, <1>3, <1>4, <2>1, <2>2 DEF Placed, Subject
<1>11. DownIsEmpty'
  BY <1>1, <1>3 DEF DownIsEmpty
<1>12. Registered' /\ ResultsKept'
  BY <1>3 DEF IInv, Registered, ResultsKept, StateOf, bookkeeping, bounds
<1>13. Saved'
  <2> SUFFICES ASSUME NEW q \in Review, book.review[q] # disk.review[q]
               PROVE  /\ book.review[q].state = "FAILED" /\ disk.review[q].state # "COMPLETED"
                      /\ \E u \in Thread : thread'[u].review = q /\ thread'[u].pc = "failing"
    BY <1>6 DEF Saved, StateOf, Subject
  <2>1. PICK u \in Thread : Subject(u) = q /\ thread[u].pc = "failing"
    BY DEF IInv, Saved
  <2>2. u # t
    BY <1>1, <2>1
  <2> QED BY <1>4, <2>1, <2>2 DEF IInv, Saved, StateOf, Subject
<1> QED
  BY <1>5, <1>7, <1>8, <1>9, <1>10, <1>11, <1>12, <1>13 DEF IInv

\* A label saves the book as it is.
LEMMA LabelKeeps ==
  ASSUME IInv, NEW t \in Thread, Label(t)
  PROVE  IInv'
<1>1. disk' = book /\ UNCHANGED <<book, items, results, active, pool, thread, process, stops, torn, phase, tries>>
  BY DEF Label, bridge, bounds, rag
<1>2. process # "down"
  BY DEF Label, IInv, DownIsEmpty
<1>3. TypeOK'
  BY <1>1 DEF IInv, TypeOK
<1>4. ThreadsKnow' /\ PoolKnows' /\ Apart' /\ ResultsKept'
  BY <1>1 DEF IInv, ThreadsKnow, PoolKnows, Apart, ResultsKept, StateOf, Subject, InProgress
<1>5. Tended' /\ DownIsEmpty'
  BY <1>1, <1>2 DEF IInv, Tended, DownIsEmpty, InProgress, Placed, Subject
<1>6. Registered' /\ Saved'
  BY <1>1 DEF IInv, Registered, Saved
<1> QED BY <1>3, <1>4, <1>5, <1>6 DEF IInv

(***************************************************************************)
(* The handlers.                                                           *)
(***************************************************************************)

\* A handler may cancel what is in progress and delete anything: the threads
\* still know what they need.
LEMMA HandlersLeaveThreads ==
  ASSUME TypeOK, Whereabouts, process = "up", UNCHANGED <<pool, thread, process>>,
         \A q \in Review : \/ book'.review[q] = book.review[q]
                           \/ book'.review[q].state = "DELETED"
                           \/ InProgress(q) /\ book'.review[q].state = "CANCELED",
         \A q \in active : q \in active' \/ book'.review[q].state \notin Unfinished
  PROVE  Whereabouts'
<1> USE DEF Whereabouts
<1>1. None \notin Review /\ "DELETED" \notin Unfinished /\ "CANCELED" \notin Unfinished
  BY ConstantsAssumption DEF Unfinished
<1>2. ThreadsKnow'
  <2> SUFFICES ASSUME NEW t \in Thread
               PROVE  /\ thread[t].pc = "idle" <=> thread[t].review = None
                      /\ thread[t].pc \in Working => book'.review[thread[t].review].state \in Alive
                      /\ thread[t].pc = "failing" =>
                           book'.review[thread[t].review].state \in {"FAILED", "DELETED"}
                      /\ thread[t].pc = "paused" => process = "stopping"
                      /\ thread[t].pc = "leave" =>
                           /\ book'.review[thread[t].review].state # "NONE"
                           /\ book'.review[thread[t].review].state \notin Unfinished
    BY DEF ThreadsKnow, StateOf, Subject, InProgress
  <2>1. CASE Subject(t) = None
    BY <1>1, <2>1 DEF ThreadsKnow, Working, Subject
  <2>2. CASE Subject(t) # None
    <3>1. PICK r \in Review : Subject(t) = r
      BY <2>2 DEF TypeOK, Subject
    <3>2. /\ thread[t].pc \in Working => book.review[r].state \in Alive
          /\ thread[t].pc = "failing" => book.review[r].state \in {"FAILED", "DELETED"}
          /\ thread[t].pc = "leave" =>
               book.review[r].state # "NONE" /\ book.review[r].state \notin Unfinished
      BY <3>1 DEF ThreadsKnow, StateOf, InProgress
    <3>3. \/ book'.review[r] = book.review[r]
          \/ book'.review[r].state = "DELETED"
          \/ book.review[r].state \in Unfinished /\ book'.review[r].state = "CANCELED"
      BY DEF InProgress
    <3>4. thread[t].pc \in Working => book'.review[r].state \in Alive
      BY <3>2, <3>3 DEF Alive
    <3>5. thread[t].pc = "failing" => book'.review[r].state \in {"FAILED", "DELETED"}
      BY <3>2, <3>3 DEF Unfinished
    <3>6. thread[t].pc = "leave" =>
            book'.review[r].state # "NONE" /\ book'.review[r].state \notin Unfinished
      BY <1>1, <3>2, <3>3
    <3> QED BY <3>1, <3>4, <3>5, <3>6 DEF ThreadsKnow, Subject
  <2> QED BY <2>1, <2>2
<1>3. PoolKnows'
  <2> SUFFICES ASSUME NEW i \in 1 .. Len(pool) PROVE book'.review[pool[i]].state \in Alive
    BY DEF PoolKnows, StateOf
  <2>1. pool[i] \in Review /\ book.review[pool[i]].state \in Alive
    BY DEF TypeOK, PoolKnows, StateOf
  <2> QED BY <2>1 DEF Alive
<1>4. Apart'
  BY DEF Apart, Subject
<1>5. Tended'
  <2> SUFFICES ASSUME NEW q \in Review, book'.review[q].state \in Unfinished
               PROVE  q \in active' /\ Placed(q)'
    BY DEF Tended, InProgress
  <2>1. InProgress(q)
    BY <1>1 DEF InProgress
  <2> QED BY <2>1 DEF Tended, Placed, Subject
<1>6. DownIsEmpty'
  BY DEF DownIsEmpty
<1> QED BY <1>2, <1>3, <1>4, <1>5, <1>6

\* A cancellation takes an unfinished review and saves before it answers.
LEMMA CancelKeeps ==
  ASSUME IInv, NEW r \in Review, Cancel(r)
  PROVE  IInv'
<1>1. /\ process = "up" /\ InProgress(r) /\ book \in Books
      /\ book' = [WithBoth(r, "CANCELED", "UPLOADED") EXCEPT !.review[r].canceled = TRUE]
      /\ disk' = book' /\ active' = active \ {r}
      /\ UNCHANGED <<items, results, pool, thread, process, bounds, rag>>
  BY DEF Cancel, Persist, IInv, TypeOK
<1>2. "CANCELED" \in State /\ "UPLOADED" \in AdStatus \ {"GONE"}
  BY DEF State, AdStatus
<1> DEFINE b == WithBoth(r, "CANCELED", "UPLOADED")
<1>3. /\ b \in Books /\ b.review[r].state = "CANCELED" /\ b.review[r].ad = AdOf(r)
      /\ \A q \in Review \ {r} : b.review[q] = book.review[q]
      /\ \A a \in Ad : book.ad[a].status # "GONE" => b.ad[a].status # "GONE"
  <2>1. StateOf(r) # "DELETED"
    BY <1>1 DEF InProgress, StateOf, Unfinished
  <2> QED BY <1>1, <1>2, <2>1, WithStateIs, WithBothIs
<1> HIDE DEF b
<1>4. /\ book' \in Books /\ book'.review[r].state = "CANCELED" /\ book'.review[r].ad = AdOf(r)
      /\ \A q \in Review \ {r} : book'.review[q] = book.review[q]
      /\ book'.ad = b.ad
  <2> DEFINE written == [b.review[r] EXCEPT !.canceled = TRUE]
  <2>1. /\ b.review \in [Review -> ReviewRecord] /\ b.ad \in [Ad -> AdRecord]
        /\ b = [review |-> b.review, ad |-> b.ad]
    BY <1>3, BooksAre
  <2>2. book' = [review |-> [b.review EXCEPT ![r] = written], ad |-> b.ad]
    BY <1>1, <2>1 DEF b
  <2>3. written \in ReviewRecord /\ written.state = b.review[r].state /\ written.ad = b.review[r].ad
    BY <2>1 DEF ReviewRecord
  <2> HIDE DEF written
  <2>4. book'.review = [b.review EXCEPT ![r] = written] /\ book'.ad = b.ad
    BY <2>2
  <2>5. book' \in Books
    BY <2>1, <2>2, <2>3, BooksAre
  <2> QED BY <1>3, <2>1, <2>3, <2>4, <2>5
<1>5. TypeOK'
  BY <1>1, <1>4 DEF IInv, TypeOK, bounds, rag
<1>6. Whereabouts'
  <2>1. "CANCELED" \notin Unfinished
    BY DEF Unfinished
  <2> QED BY <1>1, <1>4, <2>1, HandlersLeaveThreads, InvariantIs
<1>7. Registered'
  <2>1. Kept(r)
    BY <1>1 DEF Kept, InProgress, Unfinished
  <2> QED BY <1>1, <1>3, <1>4, <2>1, StaysRegistered DEF IInv, Kept, AdOf
<1>8. Saved'
  BY <1>1 DEF Saved
<1>9. ResultsKept'
  <2> SUFFICES ASSUME NEW q \in Review, book'.review[q].state = "COMPLETED", q \notin torn
               PROVE  q \in items \cap results
    BY <1>1 DEF ResultsKept, StateOf, bounds
  <2>1. q # r
    BY <1>4
  <2> QED BY <1>4, <2>1 DEF IInv, ResultsKept, StateOf
<1> QED BY <1>5, <1>6, <1>7, <1>8, <1>9 DEF IInv, Whereabouts

\* What was completed keeps its results when others are deleted and everything
\* is saved.
LEMMA DeletionKeeps ==
  ASSUME IInv, process = "up", NEW gone \in SUBSET Review, book' \in Books,
         \A q \in gone : book'.review[q].state = "DELETED",
         \A q \in Review \ gone : book'.review[q] = book.review[q],
         Registered', disk' = book', items' = items \ gone, results' = items',
         UNCHANGED <<bridge, process, bounds, rag>>
  PROVE  IInv'
<1>1. TypeOK'
  BY DEF IInv, TypeOK, bridge, bounds, rag
<1>2. Whereabouts'
  BY HandlersLeaveThreads, InvariantIs DEF bridge
<1>3. Saved'
  BY DEF Saved
<1>4. ResultsKept'
  BY DEF IInv, ResultsKept, StateOf, bounds
<1> QED BY <1>1, <1>2, <1>3, <1>4 DEF IInv, Whereabouts

\* The deletion of a review that no thread works on.
LEMMA DeleteReviewKeeps ==
  ASSUME IInv, NEW r \in Review, DeleteReview(r)
  PROVE  IInv'
<1>1. PICK latest \in Remaining(r) : book' = WithoutReview(r, latest)
  BY DEF DeleteReview
<1>2. /\ process = "up" /\ book \in Books /\ disk' = book' /\ items' = items \ {r} /\ results' = items'
      /\ UNCHANGED <<bridge, process, bounds, rag>>
  BY DEF DeleteReview, PersistResults, Persist, IInv, TypeOK
<1>3. /\ book' \in Books /\ book'.review[r].state = "DELETED"
      /\ \A q \in Review \ {r} : book'.review[q] = book.review[q]
      /\ \A a \in Ad : book.ad[a].status # "GONE" => book'.ad[a].status # "GONE"
  BY <1>1, <1>2, WithoutReviewIs
<1>4. Registered'
  BY <1>2, <1>3, StaysRegistered DEF IInv, Kept, AdOf
<1>5. PICK gone \in SUBSET Review : gone = {r}
  OBVIOUS
<1>6. /\ \A q \in gone : book'.review[q].state = "DELETED"
      /\ \A q \in Review \ gone : book'.review[q] = book.review[q]
      /\ items' = items \ gone
  BY <1>2, <1>3, <1>5
<1> QED BY <1>2, <1>3, <1>4, <1>6, DeletionKeeps

\* The deletion of an advertisement with all of its reviews.
LEMMA DeleteAdKeeps ==
  ASSUME IInv, NEW a \in Ad, DeleteAd(a)
  PROVE  IInv'
<1>1. /\ process = "up" /\ book \in Books /\ book' = WithoutAd(a) /\ disk' = book'
      /\ items' = items \ ReviewsOf(a) /\ results' = items'
      /\ UNCHANGED <<bridge, process, bounds, rag>>
  BY DEF DeleteAd, PersistResults, Persist, IInv, TypeOK
<1>2. /\ book' \in Books /\ \A q \in ReviewsOf(a) : book'.review[q].state = "DELETED"
      /\ \A q \in Review \ ReviewsOf(a) : book'.review[q] = book.review[q]
      /\ \A c \in Ad \ {a} : book'.ad[c] = book.ad[c]
  BY <1>1, WithoutAdIs
<1>3. PICK gone \in SUBSET Review : gone = ReviewsOf(a)
  BY DEF ReviewsOf
<1>4. Registered'
  <2> SUFFICES ASSUME NEW q \in Review, book'.review[q].state \notin {"NONE", "DELETED"}
               PROVE  book'.review[q].ad \in Ad /\ book'.ad[book'.review[q].ad].status # "GONE"
    BY <1>1 DEF Registered
  <2>1. q \notin ReviewsOf(a) /\ book'.review[q] = book.review[q]
    BY <1>2
  <2>2. book.review[q].ad # a
    BY <2>1 DEF ReviewsOf, Kept, AdOf
  <2>3. book.review[q].ad \in Ad /\ book.ad[book.review[q].ad].status # "GONE"
    BY <2>1 DEF IInv, Registered
  <2> QED BY <1>2, <2>1, <2>2, <2>3
<1> QED BY <1>1, <1>2, <1>3, <1>4, DeletionKeeps

\* A new review has no work item and no thread, and gets one.
LEMMA RequestKeeps ==
  ASSUME IInv, NEW a \in Ad, NEW r \in Review, Request(a, r)
  PROVE  IInv'
<1>1. /\ process = "up" /\ StateOf(r) = "NONE" /\ book.ad[a].status # "GONE"
      /\ disk' = book' /\ active' = active \cup {r} /\ pool' = Append(pool, r)
      /\ UNCHANGED <<items, results, thread, process, bounds, rag>>
      /\ pool \in Seq(Review)
  BY DEF Request, Persist, IInv, TypeOK, StateOf
<1>2. /\ book' \in Books /\ book'.review[r].state = "PENDING" /\ book'.review[r].ad = a
      /\ \A q \in Review \ {r} : book'.review[q] = book.review[q]
      /\ \A c \in Ad : book.ad[c].status # "GONE" => book'.ad[c].status # "GONE"
  BY RequestIs DEF IInv
<1>3. /\ pool' \in Seq(Review) /\ Len(pool) \in Nat /\ Len(pool') = Len(pool) + 1
      /\ \A i \in 1 .. Len(pool) : pool'[i] = pool[i] /\ pool[i] \in Review
      /\ pool'[Len(pool) + 1] = r
  BY <1>1, AppendProperties, LenProperties
<1>4. 1 .. Len(pool) + 1 = 1 .. Len(pool) \cup {Len(pool) + 1} /\ None \notin Review
      /\ Len(pool) + 1 \notin 1 .. Len(pool)
  BY <1>3, ConstantsAssumption
<1>5. "NONE" \notin Alive /\ "PENDING" \in Alive
  BY DEF Alive, Unfinished
<1>6. \A i \in 1 .. Len(pool) : pool[i] # r
  BY <1>1, <1>5 DEF IInv, PoolKnows
<1>7. \A t \in Thread : Subject(t) # r
  <2> SUFFICES ASSUME NEW t \in Thread, Subject(t) = r PROVE FALSE
    OBVIOUS
  <2>1. thread[t].pc \in Working \cup {"failing", "leave"}
    <3>1. thread[t].pc # "idle"
      BY <1>4 DEF IInv, ThreadsKnow
    <3>2. thread[t].pc \in {"idle", "stage", "work", "paused", "failed", "failing", "leave"}
      BY DEF IInv, TypeOK
    <3> QED BY <3>1, <3>2 DEF Working
  <2> QED BY <1>1, <1>5, <2>1 DEF IInv, ThreadsKnow
<1>8. TypeOK'
  BY <1>1, <1>2, <1>3 DEF IInv, TypeOK, bounds, rag
<1>9. ThreadsKnow'
  <2> SUFFICES ASSUME NEW t \in Thread
               PROVE  /\ thread[t].pc = "idle" <=> thread[t].review = None
                      /\ thread[t].pc \in Working => book'.review[thread[t].review].state \in Alive
                      /\ thread[t].pc = "failing" =>
                           book'.review[thread[t].review].state \in {"FAILED", "DELETED"}
                      /\ thread[t].pc = "paused" => process = "stopping"
                      /\ thread[t].pc = "leave" =>
                           /\ book'.review[thread[t].review].state # "NONE"
                           /\ process = "stopping" \/ book'.review[thread[t].review].state \notin Unfinished
    BY <1>1 DEF ThreadsKnow, StateOf, Subject, InProgress
  <2>1. CASE Subject(t) = None
    BY <1>4, <2>1 DEF IInv, ThreadsKnow, Working, Subject
  <2>2. CASE Subject(t) # None
    <3>1. Subject(t) \in Review \ {r}
      BY <1>7, <2>2 DEF IInv, TypeOK, Subject
    <3>2. book'.review[Subject(t)] = book.review[Subject(t)]
      BY <1>2, <3>1
    <3> QED BY <3>2 DEF IInv, ThreadsKnow, StateOf, Subject, InProgress
  <2> QED BY <2>1, <2>2
<1>10. PoolKnows'
  <2> SUFFICES ASSUME NEW i \in 1 .. Len(pool) + 1
               PROVE  book'.review[pool'[i]].state \in Alive
    BY <1>3 DEF PoolKnows, StateOf
  <2>1. CASE i = Len(pool) + 1
    BY <1>2, <1>3, <1>5, <2>1
  <2>2. CASE i \in 1 .. Len(pool)
    BY <1>2, <1>3, <1>6, <2>2 DEF IInv, PoolKnows, StateOf
  <2> QED BY <1>4, <2>1, <2>2
<1>11. Apart'
  <2>1. \A i, j \in 1 .. Len(pool) + 1 : pool'[i] = pool'[j] => i = j
    BY <1>3, <1>4, <1>6 DEF IInv, Apart
  <2>2. \A i \in 1 .. Len(pool) + 1, t \in Thread : pool'[i] # Subject(t)
    BY <1>3, <1>4, <1>7 DEF IInv, Apart
  <2> QED BY <1>1, <1>3, <2>1, <2>2 DEF IInv, Apart, Subject
<1>12. Tended'
  <2> SUFFICES ASSUME NEW q \in Review, book'.review[q].state \in Unfinished
               PROVE  q \in active' /\ Placed(q)'
    BY DEF Tended, InProgress
  <2>1. CASE q = r
    <3>1. Len(pool) + 1 \in 1 .. Len(pool')
      BY <1>3
    <3> QED BY <1>1, <1>3, <2>1, <3>1 DEF Placed
  <2>2. CASE q # r
    <3>1. q \in active /\ Placed(q)
      BY <1>1, <1>2, <2>2 DEF IInv, Tended, InProgress
    <3>2. CASE \E t \in Thread : Subject(t) = q
      BY <1>1, <3>1, <3>2 DEF Placed, Subject
    <3>3. CASE \E i \in 1 .. Len(pool) : pool[i] = q
      <4>1. PICK i \in 1 .. Len(pool) : pool[i] = q
        BY <3>3
      <4>2. i \in 1 .. Len(pool') /\ pool'[i] = q
        BY <1>3, <1>4, <4>1
      <4> QED BY <1>1, <3>1, <4>2 DEF Placed
    <3> QED BY <3>1, <3>2, <3>3 DEF Placed
  <2> QED BY <2>1, <2>2
<1>13. DownIsEmpty' /\ Saved'
  BY <1>1 DEF DownIsEmpty, Saved
<1>14. Registered'
  <2> SUFFICES ASSUME NEW q \in Review, book'.review[q].state \notin {"NONE", "DELETED"}
               PROVE  book'.review[q].ad \in Ad /\ book'.ad[book'.review[q].ad].status # "GONE"
    BY <1>1 DEF Registered
  <2>1. CASE q = r
    BY <1>1, <1>2, <2>1
  <2>2. CASE q # r
    <3>1. book.review[q].ad \in Ad /\ book.ad[book.review[q].ad].status # "GONE"
      BY <1>2, <2>2 DEF IInv, Registered
    <3> QED BY <1>2, <2>2, <3>1
  <2> QED BY <2>1, <2>2
<1>15. ResultsKept'
  <2> SUFFICES ASSUME NEW q \in Review, book'.review[q].state = "COMPLETED", q \notin torn
               PROVE  q \in items \cap results
    BY <1>1 DEF ResultsKept, StateOf, bounds
  <2>1. q # r
    BY <1>2
  <2> QED BY <1>2, <2>1 DEF IInv, ResultsKept, StateOf
<1> QED
  BY <1>8, <1>9, <1>10, <1>11, <1>12, <1>13, <1>14, <1>15 DEF IInv

(***************************************************************************)
(* The RAG service, shutdowns, crashes and restarts.                       *)
(***************************************************************************)
LEMMA RagKeeps ==
  ASSUME IInv, NEW r \in Review, RagStep(r) \/ RagRecovers(r)
  PROVE  IInv'
<1>1. UNCHANGED <<book, items, disk, results, active, pool, thread, process, stops, torn>>
  BY DEF RagStep, RagRecovers, bookkeeping, bridge, bounds
<1>2. phase' \in [Review -> Rag!Phase] /\ tries' \in [Review -> 0 .. MaxAttempts]
  <2>1. \/ Rag!Start(r) \/ Rag!Again(r)
        \/ \E outcome \in Rag!Settled : Rag!Settle(r, outcome)
    BY DEF RagStep, RagRecovers, Rag!Settled
  <2> QED BY <2>1, RagTypes DEF IInv
<1>3. TypeOK'
  BY <1>1, <1>2 DEF IInv, TypeOK
<1>4. ThreadsKnow' /\ PoolKnows' /\ Apart' /\ ResultsKept'
  BY <1>1 DEF IInv, ThreadsKnow, PoolKnows, Apart, ResultsKept, StateOf, Subject, InProgress
<1>5. Tended' /\ DownIsEmpty'
  BY <1>1 DEF IInv, Tended, DownIsEmpty, InProgress, Placed, Subject
<1>6. Registered' /\ Saved'
  BY <1>1 DEF IInv, Registered, Saved, StateOf, Subject
<1> QED BY <1>3, <1>4, <1>5, <1>6 DEF IInv

\* A shutdown begins.
LEMMA StopKeeps ==
  ASSUME IInv, Stop
  PROVE  IInv'
<1>1. /\ process = "up" /\ process' = "stopping" /\ stops' = stops + 1 /\ stops < MaxStops
      /\ UNCHANGED <<book, items, disk, results, active, pool, thread, torn, phase, tries>>
  BY DEF Stop, bookkeeping, bridge, rag
<1>2. TypeOK'
  BY <1>1, ConstantsAssumption DEF IInv, TypeOK
<1>3. ThreadsKnow' /\ PoolKnows' /\ Apart' /\ ResultsKept'
  BY <1>1 DEF IInv, ThreadsKnow, PoolKnows, Apart, ResultsKept, StateOf, Subject, InProgress
<1>4. Tended' /\ DownIsEmpty'
  BY <1>1 DEF Tended, DownIsEmpty
<1>5. Registered' /\ Saved'
  BY <1>1 DEF IInv, Registered, Saved, StateOf, Subject
<1> QED BY <1>2, <1>3, <1>4, <1>5 DEF IInv

\* What the file calls completed is in the results file, unless its deletion was
\* cut off.
LEMMA FilesAgree ==
  ASSUME IInv, NEW q \in Review, disk.review[q].state = "COMPLETED", q \notin torn
  PROVE  q \in results
  BY DEF IInv, Saved, ResultsKept, StateOf

\* The process dies: the files are what the next one will read.
LEMMA DieKeeps ==
  ASSUME IInv, Die, disk' = disk, results' \in SUBSET Review, torn' \in SUBSET Review,
         stops' \in 0 .. MaxStops,
         \A q \in Review : disk.review[q].state = "COMPLETED" /\ q \notin torn' => q \in results'
  PROVE  IInv'
<1>1. /\ process' = "down" /\ active' = {} /\ pool' = <<>>
      /\ thread' = [t \in Thread |-> IdleThread] /\ book' = disk /\ items' = results'
  BY DEF Die
<1>2. TypeOK'
  <2>1. phase' \in [Review -> Rag!Phase] /\ tries' \in [Review -> 0 .. MaxAttempts]
    BY RagCrashTypes DEF IInv, Die
  <2>2. IdleThread \in Local
    BY DEF IdleThread, Local, Stages
  <2>3. <<>> \in Seq(Review)
    OBVIOUS
  <2> QED BY <1>1, <2>1, <2>2, <2>3 DEF IInv, TypeOK, Local
<1>3. \A t \in Thread : thread'[t].pc = "idle" /\ thread'[t].review = None
  BY <1>1 DEF IdleThread
<1>4. Len(<<>>) = 0 /\ 1 .. 0 = {}
  OBVIOUS
<1>5. ThreadsKnow'
  BY <1>3 DEF ThreadsKnow, Subject, Working
<1>6. PoolKnows'
  BY <1>1, <1>4 DEF PoolKnows
<1>7. Apart'
  BY <1>1, <1>3, <1>4 DEF Apart, Subject
<1>8. Tended' /\ DownIsEmpty'
  BY <1>1, <1>3 DEF Tended, DownIsEmpty
<1>9. Registered' /\ Saved'
  BY <1>1 DEF IInv, Registered, Saved
<1>10. ResultsKept'
  BY <1>1 DEF ResultsKept, StateOf
<1> QED
  BY <1>2, <1>5, <1>6, <1>7, <1>8, <1>9, <1>10 DEF IInv

\* The end of a process is counted, and takes its threads.
LEMMA StopsCounted ==
  ASSUME IInv, Crashes
  PROVE  stops' \in 0 .. MaxStops /\ Die
  BY ConstantsAssumption DEF Crashes, IInv, TypeOK

\* The process ends in order, or at any moment.
LEMMA ExitOrCrashKeeps ==
  ASSUME IInv, Exit \/ Crash
  PROVE  IInv'
<1>1. Die /\ disk' = disk /\ results' = results /\ torn' = torn
  BY DEF Exit, Crash, Crashes, bounds
<1>2. stops' \in 0 .. MaxStops
  <2>1. CASE Exit BY <2>1 DEF Exit, bounds, IInv, TypeOK
  <2>2. CASE Crash BY <2>2, StopsCounted DEF Crash
  <2> QED BY <2>1, <2>2
<1>3. results' \in SUBSET Review /\ torn' \in SUBSET Review
  BY <1>1 DEF IInv, TypeOK
<1> QED BY <1>1, <1>2, <1>3, FilesAgree, DieKeeps

\* The crash between the two files of a completion leaves results to a review
\* that is not completed; that of a deletion takes them from one that is.
LEMMA CrashBetweenFilesKeeps ==
  ASSUME IInv,
         \/ \E t \in Thread : CrashInComplete(t)
         \/ \E r \in Review : CrashInDeleteReview(r)
         \/ \E a \in Ad : CrashInDeleteAd(a)
  PROVE  IInv'
<1>1. ASSUME NEW t \in Thread, CrashInComplete(t) PROVE IInv'
  <2>1. thread[t].pc \in Working /\ Subject(t) \in Review
    BY <1>1, HasReview DEF CrashInComplete, At, IInv, Working
  <2>2. PICK r \in Review : Subject(t) = r
    BY <2>1
  <2>3. Die /\ disk' = disk /\ results' = items \cup {r} /\ torn' = torn /\ stops' \in 0 .. MaxStops
    BY <1>1, <2>2, StopsCounted DEF CrashInComplete, FirstFile
  <2>4. results' \in SUBSET Review /\ torn' \in SUBSET Review
    BY <2>3 DEF IInv, TypeOK
  <2>5. ASSUME NEW q \in Review, disk.review[q].state = "COMPLETED", q \notin torn
        PROVE  q \in results'
    BY <2>3, <2>5 DEF IInv, Saved, ResultsKept, StateOf
  <2> QED BY <2>3, <2>4, <2>5, DieKeeps
<1>2. ASSUME NEW gone \in SUBSET Review, disk' = disk, results' = items \ gone, torn' = torn \cup gone,
             Crashes
      PROVE  IInv'
  <2>1. Die /\ stops' \in 0 .. MaxStops
    BY <1>2, StopsCounted
  <2>2. results' \in SUBSET Review /\ torn' \in SUBSET Review
    BY <1>2 DEF IInv, TypeOK
  <2>3. ASSUME NEW q \in Review, disk.review[q].state = "COMPLETED", q \notin torn'
        PROVE  q \in results'
    BY <1>2, <2>3 DEF IInv, Saved, ResultsKept, StateOf
  <2> QED BY <1>2, <2>1, <2>2, <2>3, DieKeeps
<1>3. ASSUME NEW r \in Review, CrashInDeleteReview(r) PROVE IInv'
  <2>1. PICK gone \in SUBSET Review : gone = {r}
    OBVIOUS
  <2> QED BY <1>2, <1>3, <2>1 DEF CrashInDeleteReview, FirstFile
<1>4. ASSUME NEW a \in Ad, CrashInDeleteAd(a) PROVE IInv'
  <2>1. PICK gone \in SUBSET Review : gone = ReviewsOf(a)
    BY DEF ReviewsOf
  <2> QED BY <1>2, <1>4, <2>1 DEF CrashInDeleteAd, FirstFile
<1> QED BY <1>1, <1>3, <1>4

\* restore takes up what is in progress, each review once.
LEMMA OrderIs ==
  ASSUME NEW S \in SUBSET Review, NEW s \in SetToSeqs(S)
  PROVE  /\ s \in Seq(Review)
         /\ \A i, j \in 1 .. Len(s) : s[i] = s[j] => i = j
         /\ \A i \in 1 .. Len(s) : s[i] \in S
         /\ \A r \in S : \E i \in 1 .. Len(s) : s[i] = r
<1> DEFINE n == Cardinality(S)
<1>1. IsFiniteSet(S) /\ n \in Nat
  BY FS_Subset, FS_CardinalityType, ConstantsAssumption
<1>2. s \in [1 .. n -> S] /\ \A i, j \in 1 .. n : i # j => s[i] # s[j]
  BY DEF SetToSeqs
<1>3. s \in Seq(S) /\ Len(s) = n
  BY <1>1, <1>2
<1>4. s \in Seq(Review)
  BY <1>3
<1>5. s \in Injection(1 .. n, S)
  BY <1>2 DEF Injection, IsInjective
<1>6. Cardinality(1 .. n) = n
  BY <1>1, FS_Interval
<1>7. s \in Surjection(1 .. n, S)
  BY <1>1, <1>5, <1>6, FS_Injection
<1>8. \A r \in S : \E i \in 1 .. n : s[i] = r
  BY <1>7 DEF Surjection
<1> QED BY <1>2, <1>3, <1>4, <1>8

\* A restart reads the file and takes up the reviews that have not ended.
LEMMA RestoreKeeps ==
  ASSUME IInv, Restore
  PROVE  IInv'
<1>1. /\ process = "down" /\ process' = "up" /\ active' = Resumable /\ pool' \in SetToSeqs(Resumable)
      /\ UNCHANGED <<book, items, disk, results, thread, stops, torn, phase, tries>>
  BY DEF Restore, bookkeeping, bounds, rag
<1>2. PICK S \in SUBSET Review : S = Resumable
  BY DEF Resumable
<1>3. PICK s \in SetToSeqs(S) : pool' = s
  BY <1>1, <1>2
<1>4. /\ s \in Seq(Review) /\ \A i, j \in 1 .. Len(s) : s[i] = s[j] => i = j
      /\ \A i \in 1 .. Len(s) : s[i] \in S
      /\ \A r \in S : \E i \in 1 .. Len(s) : s[i] = r
  BY OrderIs
<1>5. \A t \in Thread : thread[t].pc = "idle" /\ Subject(t) = None
  BY <1>1 DEF IInv, DownIsEmpty, ThreadsKnow
<1>6. TypeOK'
  BY <1>1, <1>2, <1>3, <1>4 DEF IInv, TypeOK
<1>7. ThreadsKnow'
  BY <1>1, <1>5 DEF ThreadsKnow, Working, Subject
<1>8. PoolKnows'
  BY <1>1, <1>2, <1>3, <1>4 DEF PoolKnows, Resumable, InProgress, StateOf, Alive
<1>9. Apart'
  <2>1. None \notin Review
    BY ConstantsAssumption
  <2> QED BY <1>1, <1>2, <1>3, <1>4, <1>5, <2>1 DEF Apart, Subject
<1>10. Tended'
  <2> SUFFICES ASSUME NEW q \in Review, InProgress(q)
               PROVE  q \in active' /\ Placed(q)'
    BY <1>1 DEF Tended, InProgress
  <2>1. q \in S
    BY <1>2 DEF Resumable
  <2> QED BY <1>1, <1>2, <1>3, <1>4, <2>1 DEF Placed
<1>11. DownIsEmpty'
  BY <1>1 DEF DownIsEmpty
<1>12. Registered' /\ Saved' /\ ResultsKept'
  BY <1>1 DEF IInv, Registered, Saved, ResultsKept, StateOf, Subject
<1> QED BY <1>6, <1>7, <1>8, <1>9, <1>10, <1>11, <1>12 DEF IInv

(***************************************************************************)
(* The invariant, and what follows from it.                                *)
(***************************************************************************)
LEMMA InitInvariant == Init => IInv
<1> SUFFICES ASSUME Init PROVE IInv
  OBVIOUS
<1>1. NoReview \in ReviewRecord /\ NewAd \in AdRecord /\ IdleThread \in Local
  <2>1. 0 \in 0 .. Cardinality(Review)
    BY FS_CardinalityType, ConstantsAssumption
  <2> QED BY <2>1 DEF NoReview, NewAd, ReviewRecord, AdRecord, AdStatus, State, IdleThread, Local, Stages
<1>2. EmptyBook \in Books /\ \A r \in Review : EmptyBook.review[r] = NoReview
  BY <1>1, BooksAre DEF EmptyBook
<1>3. /\ book = EmptyBook /\ disk = EmptyBook /\ items = {} /\ results = {} /\ active = {} /\ pool = <<>>
      /\ thread = [t \in Thread |-> IdleThread] /\ process = "up" /\ stops = 0 /\ torn = {}
      /\ phase = [r \in Review |-> "none"] /\ tries = [r \in Review |-> 0]
  BY DEF Init, Rag!Init
<1>4. TypeOK
  <2>1. <<>> \in Seq(Review) /\ 0 \in 0 .. MaxStops /\ 0 \in 0 .. MaxAttempts /\ "none" \in Rag!Phase
    BY ConstantsAssumption DEF Rag!Phase
  <2> QED BY <1>1, <1>2, <1>3, <2>1 DEF TypeOK, Local
<1>5. \A r \in Review : StateOf(r) = "NONE"
  BY <1>2, <1>3 DEF StateOf, NoReview
<1>6. \A t \in Thread : thread[t].pc = "idle" /\ Subject(t) = None
  BY <1>3 DEF IdleThread, Subject
<1>7. Len(<<>>) = 0 /\ 1 .. 0 = {}
  OBVIOUS
<1>8. ThreadsKnow /\ PoolKnows /\ Apart
  BY <1>3, <1>6, <1>7 DEF ThreadsKnow, PoolKnows, Apart, Working
<1>9. Tended /\ DownIsEmpty
  BY <1>3, <1>5 DEF Tended, DownIsEmpty, InProgress, StateOf, Unfinished
<1>10. Registered /\ Saved /\ ResultsKept
  BY <1>3, <1>5 DEF Registered, Saved, ResultsKept, StateOf
<1> QED BY <1>4, <1>8, <1>9, <1>10 DEF IInv

\* A step that changes nothing.
LEMMA StutterKeeps ==
  ASSUME IInv, UNCHANGED vars
  PROVE  IInv'
<1>1. UNCHANGED <<book, items, disk, results, active, pool, thread, process, stops, torn, phase, tries>>
  BY DEF vars, bookkeeping, bridge, bounds, rag
<1>2. TypeOK'
  BY <1>1 DEF IInv, TypeOK
<1>3. ThreadsKnow' /\ PoolKnows' /\ Apart' /\ ResultsKept'
  BY <1>1 DEF IInv, ThreadsKnow, PoolKnows, Apart, ResultsKept, StateOf, Subject, InProgress
<1>4. Tended' /\ DownIsEmpty'
  BY <1>1 DEF IInv, Tended, DownIsEmpty, InProgress, Placed, Subject
<1>5. Registered' /\ Saved'
  BY <1>1 DEF IInv, Registered, Saved, StateOf, Subject
<1> QED BY <1>2, <1>3, <1>4, <1>5 DEF IInv

\* Every step of the bridge keeps the invariant.
LEMMA NextInvariant == IInv /\ [Next]_vars => IInv'
<1> SUFFICES ASSUME IInv, [Next]_vars PROVE IInv'
  OBVIOUS
<1>1. ASSUME NEW a \in Ad, DeleteAd(a) PROVE IInv'
  BY <1>1, DeleteAdKeeps
<1>2. ASSUME NEW a \in Ad, NEW r \in Review, Request(a, r) PROVE IInv'
  BY <1>2, RequestKeeps
<1>3. ASSUME NEW r \in Review, Cancel(r) \/ DeleteReview(r) PROVE IInv'
  BY <1>3, CancelKeeps, DeleteReviewKeeps
<1>4. CASE \/ \E t \in Thread : CrashInComplete(t)
           \/ \E r \in Review : CrashInDeleteReview(r)
           \/ \E a \in Ad : CrashInDeleteAd(a)
  BY <1>4, CrashBetweenFilesKeeps
<1>5. ASSUME NEW r \in Review, RagStep(r) \/ RagRecovers(r) PROVE IInv'
  BY <1>5, RagKeeps
<1>6. ASSUME NEW t \in Thread, ThreadStep(t) PROVE IInv'
  BY <1>6, TakeKeeps, StageKeeps, WorkKeeps, SubmitKeeps, CompleteKeeps, ProjectionFailsKeeps,
     FailReviewKeeps, FailAdKeeps, PauseKeeps, LeaveKeeps DEF ThreadStep
<1>7. ASSUME NEW t \in Thread, Label(t) PROVE IInv'
  BY <1>7, LabelKeeps
<1>8. CASE Stop \/ Exit \/ Crash \/ Restore
  BY <1>8, StopKeeps, ExitOrCrashKeeps, RestoreKeeps
<1>9. CASE UNCHANGED vars
  BY <1>9, StutterKeeps
<1> QED
  BY <1>1, <1>2, <1>3, <1>4, <1>5, <1>6, <1>7, <1>8, <1>9 DEF Next

\* The strengthened invariant holds in every reachable state of the bridge
\* (operational_web_bridge.py).
THEOREM Inductive == Spec => []IInv
<1> QED BY InitInvariant, NextInvariant, PTL DEF Spec

\* Memory, files and local states have the values the code gives them.
THEOREM TypesHold == Spec => []TypeOK
<1>1. IInv => TypeOK
  BY DEF IInv
<1> QED BY <1>1, Inductive, PTL

\* A set of which two elements are never different has at most one.
LEMMA AtMostOne ==
  ASSUME NEW S, \A a, b \in S : a = b
  PROVE  /\ Cardinality(S) \in {0, 1}
         /\ Cardinality(S) = 0 <=> S = {}
<1>1. CASE S = {}
  BY <1>1, FS_EmptySet
<1>2. CASE S # {}
  <2>1. PICK a \in S : TRUE
    BY <1>2
  <2>2. S = {a}
    BY <2>1
  <2>3. Cardinality({a}) = 1
    BY FS_Singleton
  <2> QED BY <1>2, <2>2, <2>3
<1> QED BY <1>1, <1>2

\* A review is in one place at most: the pool or a thread.
LEMMA PlacesAre ==
  ASSUME IInv, NEW r \in Review
  PROVE  /\ Places(r) \in {0, 1}
         /\ Places(r) = 1 <=> Placed(r)
<1> DEFINE P == {i \in 1 .. Len(pool) : pool[i] = r}
           T == {t \in Thread : Subject(t) = r}
<1>1. r # None
  BY ConstantsAssumption
<1>2. Cardinality(P) \in {0, 1} /\ (Cardinality(P) = 0 <=> P = {})
  <2>1. \A a, b \in P : a = b
    BY DEF IInv, Apart
  <2> HIDE DEF P
  <2> QED BY <2>1, AtMostOne
<1>3. Cardinality(T) \in {0, 1} /\ (Cardinality(T) = 0 <=> T = {})
  <2>1. \A a, b \in T : a = b
    BY <1>1 DEF IInv, Apart
  <2> HIDE DEF T
  <2> QED BY <2>1, AtMostOne
<1>4. P = {} \/ T = {}
  BY DEF IInv, Apart
<1>5. Placed(r) <=> P # {} \/ T # {}
  BY DEF Placed
<1>6. Places(r) = Cardinality(P) + Cardinality(T)
  BY DEF Places
<1> HIDE DEF P, T
<1> QED BY <1>2, <1>3, <1>4, <1>5, <1>6

\* In a server that is up a review in progress has exactly one work item or
\* thread and is protected from deletion, and no review ever has two (publish,
\* restore, the finally clause of run).
THEOREM NothingIsForgotten == Spec => []NoReviewForgotten
<1>1. IInv => NoReviewForgotten
  <2> SUFFICES ASSUME IInv, NEW r \in Review
               PROVE  /\ Places(r) <= 1
                      /\ process = "up" /\ InProgress(r) => Places(r) = 1 /\ r \in active
    BY DEF NoReviewForgotten
  <2>1. Places(r) \in {0, 1} /\ (Places(r) = 1 <=> Placed(r))
    BY PlacesAre
  <2>2. process = "up" /\ InProgress(r) => Placed(r) /\ r \in active
    BY DEF IInv, Tended
  <2> QED BY <2>1, <2>2
<1> QED BY <1>1, Inductive, PTL

\* What the server has answered survives a crash, and a completed review has its
\* results unless a crash has cut its deletion off (persist, run, delete_review).
THEOREM AnswersSurvive == Spec => []AnswersAreDurable
<1>1. IInv => AnswersAreDurable
  BY DEF IInv, AnswersAreDurable, Saved, ResultsKept, StateOf
<1> QED BY <1>1, Inductive, PTL

(***************************************************************************)
(* What a completed and a canceled review can become.                      *)
(***************************************************************************)

\* What EndsOnce says of one step.
EndsOnceStep ==
  \A r \in Review :
    /\ StateOf(r) = "COMPLETED" => book'.review[r].state \in {"COMPLETED", "DELETED"}
    /\ StateOf(r) = "CANCELED" =>
         \/ book'.review[r].state \in {"CANCELED", "FAILED", "DELETED"}
         \/ book'.review[r].state = "RETRY_PENDING" /\ process = "stopping"

\* Inside run only Complete writes COMPLETED, and it looks at the cancellation, as
\* Stage does; the handlers do not, but they write FAILED or, while the server
\* stops, RETRY_PENDING.
LEMMA ThreadsEndOnce ==
  ASSUME IInv, NEW t \in Thread, ThreadStep(t)
  PROVE  EndsOnceStep
<1>1. CASE book'.review = book.review
  BY <1>1 DEF EndsOnceStep, StateOf
<1>2. ASSUME NEW r \in Review, r = Subject(t), thread[t].pc \in Inside,
             NEW state \in State \ {"COMPLETED"}, book'.review = WithState(r, state).review,
             StateOf(r) = "CANCELED" =>
               state = "FAILED" \/ (state = "RETRY_PENDING" /\ process = "stopping")
      PROVE  EndsOnceStep
  <2>1. StateOf(r) # "COMPLETED" /\ book \in Books
    BY <1>2 DEF IInv, TypeOK, ThreadsKnow, Inside, Alive, Unfinished
  <2>2. /\ book'.review[r].state = IF StateOf(r) = "DELETED" THEN "DELETED" ELSE state
        /\ \A q \in Review \ {r} : book'.review[q] = book.review[q]
    BY <1>2, <2>1, WithStateIs
  <2>3. StateOf(r) = "CANCELED" =>
          \/ book'.review[r].state = "FAILED"
          \/ book'.review[r].state = "RETRY_PENDING" /\ process = "stopping"
    BY <1>2, <2>2
  <2>4. ASSUME NEW q \in Review \ {r} PROVE book'.review[q].state = StateOf(q)
    BY <2>2 DEF StateOf
  <2> QED BY <2>1, <2>3, <2>4 DEF EndsOnceStep
<1>3. CASE UNCHANGED book
  BY <1>1, <1>3
<1>4. {"RUNNING", "FAILED", "RETRY_PENDING"} \subseteq State \ {"COMPLETED"} /\ "COMPLETED" \in State
  BY DEF State, Unfinished
<1>5. {"ANALYZING", "ANALYSIS_REQUESTED", "REVIEW_COMPLETED"} \subseteq AdStatus
  <2>1. {"RUNNING", "PENDING", "COMPLETED"} \subseteq State \ {"NONE", "DELETED"}
    BY DEF State, Unfinished
  <2> QED BY <2>1, StatusIs DEF StatusOf
<1>6. book \in Books
  BY DEF IInv, TypeOK
<1>7. thread[t].pc # "idle" => Subject(t) \in Review
  BY HasReview DEF IInv
<1>8. CASE Stage(t)
  <2>1. thread[t].pc \in Inside /\ thread[t].pc # "idle"
    BY <1>8 DEF Stage, Inside, Working
  <2>2. UNCHANGED book \/ book' = WithBoth(Subject(t), "RUNNING", "ANALYZING")
    BY <1>8 DEF Stage
  <2>3. PICK r \in Review : r = Subject(t)
    BY <1>7, <2>1
  <2>4. CASE StateOf(r) = "CANCELED"
    BY <1>3, <1>8, <2>3, <2>4 DEF Stage, Canceled, StateOf
  <2>5. CASE StateOf(r) # "CANCELED" /\ book' = WithBoth(r, "RUNNING", "ANALYZING")
    <3>1. book'.review = WithState(r, "RUNNING").review
      BY <1>4, <1>5, <1>6, <2>5, WithBothIs
    <3> QED BY <1>2, <1>4, <2>1, <2>3, <2>5, <3>1
  <2> QED BY <1>3, <2>2, <2>3, <2>4, <2>5
<1>9. CASE Complete(t)
  <2>1. thread[t].pc \in Inside /\ thread[t].pc # "idle"
    BY <1>9 DEF Complete, At, Inside, Working
  <2>2. PICK r \in Review : r = Subject(t)
    BY <1>7, <2>1
  <2>3. CASE Canceled(r)
    BY <1>3, <1>9, <2>2, <2>3 DEF Complete, bookkeeping
  <2>4. CASE ~Canceled(r)
    <3>1. book' = WithBoth(r, "COMPLETED", "REVIEW_COMPLETED")
      BY <1>9, <2>2, <2>4 DEF Complete
    <3>2. \A q \in Review \ {r} : book'.review[q] = book.review[q]
      BY <1>4, <1>5, <1>6, <3>1, WithStateIs, WithBothIs
    <3>3. StateOf(r) \notin {"COMPLETED", "CANCELED"}
      BY <2>1, <2>2, <2>4 DEF IInv, ThreadsKnow, Inside, Alive, Unfinished, Canceled, StateOf
    <3> QED BY <3>2, <3>3 DEF EndsOnceStep, StateOf
  <2> QED BY <2>3, <2>4
<1>10. CASE FailReview(t)
  <2>1. thread[t].pc \in Inside /\ thread[t].pc # "idle"
    BY <1>10 DEF FailReview, Inside, Working
  <2>2. PICK r \in Review : r = Subject(t)
    BY <1>7, <2>1
  <2>3. UNCHANGED book \/ book' = WithState(r, "FAILED")
    BY <1>10, <2>2 DEF FailReview
  <2> QED BY <1>2, <1>3, <1>4, <2>1, <2>2, <2>3
<1>11. CASE Pause(t)
  <2>1. thread[t].pc \in Inside /\ thread[t].pc # "idle"
    BY <1>11 DEF Pause, Inside, Working
  <2>2. PICK r \in Review : r = Subject(t)
    BY <1>7, <2>1
  <2>3. \/ book' = WithState(r, "RETRY_PENDING")
        \/ book' = WithBoth(r, "RETRY_PENDING", "ANALYSIS_REQUESTED")
    BY <1>11, <2>2 DEF Pause
  <2>4. book'.review = WithState(r, "RETRY_PENDING").review
    BY <1>4, <1>5, <1>6, <2>3, WithBothIs
  <2>5. process = "stopping"
    BY <1>11 DEF IInv, ThreadsKnow, Pause
  <2> QED BY <1>2, <1>4, <2>1, <2>2, <2>4, <2>5
<1>12. CASE FailAd(t)
  <2>1. UNCHANGED book \/ book' = [book EXCEPT !.ad[AdOf(Subject(t))].status = "REVIEW_FAILED"]
    BY <1>12 DEF FailAd
  <2>2. book = [review |-> book.review, ad |-> book.ad]
    BY <1>6, BooksAre
  <2> QED BY <1>1, <2>1, <2>2
<1>13. CASE Take(t) \/ Work(t) \/ WorkFails(t) \/ WaitEnds(t) \/ SubmitRag(t) \/ Poll(t)
            \/ ProjectionFails(t) \/ Leave(t)
  BY <1>3, <1>13 DEF Take, Work, WorkFails, WaitEnds, SubmitRag, Poll, ProjectionFails, Leave, bookkeeping
<1> QED
  BY <1>8, <1>9, <1>10, <1>11, <1>12, <1>13 DEF ThreadStep

\* A process that dies goes back to the file, which knows what has ended.
LEMMA DeathEndsOnce ==
  ASSUME IInv, book' = disk
  PROVE  EndsOnceStep
  BY DEF IInv, Saved, EndsOnceStep, StateOf

\* No step takes a completion back, or takes up a canceled review.
LEMMA NextEndsOnce == IInv /\ [Next]_vars => EndsOnceStep
<1> SUFFICES ASSUME IInv, [Next]_vars PROVE EndsOnceStep
  OBVIOUS
<1>1. CASE UNCHANGED book
  BY <1>1 DEF EndsOnceStep, StateOf
<1>2. book \in Books
  BY DEF IInv, TypeOK
<1>3. ASSUME NEW a \in Ad, DeleteAd(a) PROVE EndsOnceStep
  BY <1>2, <1>3, WithoutAdIs DEF DeleteAd, EndsOnceStep, StateOf
<1>4. ASSUME NEW a \in Ad, NEW r \in Review, Request(a, r) PROVE EndsOnceStep
  <2>1. StateOf(r) = "NONE"
    BY <1>4 DEF Request, StateOf
  <2>2. \A q \in Review \ {r} : book'.review[q] = book.review[q]
    BY <1>4, RequestIs DEF IInv
  <2> QED BY <2>1, <2>2 DEF EndsOnceStep, StateOf
<1>5. ASSUME NEW r \in Review, DeleteReview(r) PROVE EndsOnceStep
  <2>1. PICK latest \in Remaining(r) : book' = WithoutReview(r, latest)
    BY <1>5 DEF DeleteReview
  <2>2. /\ \A q \in Review \ {r} : book'.review[q] = book.review[q]
        /\ book'.review[r].state = "DELETED"
    BY <1>2, <2>1, WithoutReviewIs
  <2> QED BY <2>2 DEF EndsOnceStep, StateOf
<1>6. ASSUME NEW r \in Review, Cancel(r) PROVE EndsOnceStep
  <2>1. /\ StateOf(r) \in Unfinished
        /\ book' = [WithBoth(r, "CANCELED", "UPLOADED") EXCEPT !.review[r].canceled = TRUE]
    BY <1>6 DEF Cancel, InProgress, StateOf
  <2> DEFINE b == WithBoth(r, "CANCELED", "UPLOADED")
  <2>2. "CANCELED" \in State /\ "UPLOADED" \in AdStatus
    BY DEF State, AdStatus
  <2>3. b \in Books /\ \A q \in Review \ {r} : b.review[q] = book.review[q]
    BY <1>2, <2>2, WithStateIs, WithBothIs
  <2> HIDE DEF b
  <2>4. b.review \in [Review -> ReviewRecord] /\ b = [review |-> b.review, ad |-> b.ad]
    BY <2>3, BooksAre
  <2>5. book' = [b EXCEPT !.review[r].canceled = TRUE]
    BY <2>1 DEF b
  <2>6. \A q \in Review \ {r} : book'.review[q] = b.review[q]
    BY <2>4, <2>5
  <2> QED BY <2>1, <2>3, <2>6 DEF EndsOnceStep, StateOf, Unfinished
<1>7. CASE \/ \E t \in Thread : CrashInComplete(t)
           \/ \E r \in Review : CrashInDeleteReview(r)
           \/ \E a \in Ad : CrashInDeleteAd(a)
           \/ Exit \/ Crash
  <2>1. book' = disk
    BY <1>7 DEF CrashInComplete, CrashInDeleteReview, CrashInDeleteAd, FirstFile, Exit, Crash,
                Crashes, Die
  <2> QED BY <2>1, DeathEndsOnce
<1>8. ASSUME NEW r \in Review, RagStep(r) \/ RagRecovers(r) PROVE EndsOnceStep
  BY <1>1, <1>8 DEF RagStep, RagRecovers, bookkeeping
<1>9. ASSUME NEW t \in Thread, ThreadStep(t) PROVE EndsOnceStep
  BY <1>9, ThreadsEndOnce
<1>10. ASSUME NEW t \in Thread, Label(t) PROVE EndsOnceStep
  BY <1>1, <1>10 DEF Label
<1>11. CASE Stop \/ Restore
  BY <1>1, <1>11 DEF Stop, Restore, bookkeeping
<1>12. CASE UNCHANGED vars
  BY <1>1, <1>12 DEF vars, bookkeeping
<1> QED
  BY <1>3, <1>4, <1>5, <1>6, <1>7, <1>8, <1>9, <1>10, <1>11, <1>12 DEF Next

\* A completed review never changes until it is deleted, whatever is restarted in
\* between.  From CANCELED no step leads to a completion, and none but a pause
\* while the server stops leads back to a review in progress (cancel, the block
\* under the lock in run, the handlers of ReviewPaused and Exception, restore).
THEOREM ReviewsEndOnce == Spec => EndsOnce
<1>1. IInv /\ [Next]_vars =>
        [\A r \in Review :
           /\ book.review[r].state = "COMPLETED" => book'.review[r].state \in {"COMPLETED", "DELETED"}
           /\ book.review[r].state = "CANCELED" =>
                \/ book'.review[r].state \in {"CANCELED", "FAILED", "DELETED"}
                \/ book'.review[r].state = "RETRY_PENDING" /\ process = "stopping"]_vars
  BY NextEndsOnce DEF EndsOnceStep, StateOf
<1> QED
  BY <1>1, Inductive, PTL DEF Spec, EndsOnce

(***************************************************************************)
(* An advertisement shows its newest review.                               *)
(***************************************************************************)

KeptIn(b, r) == b.review[r].state \notin {"NONE", "DELETED"}
Among(b, a) == {r \in Review : KeptIn(b, r) /\ b.review[r].ad = a}
IsHighest(b, r, S) == r \in S /\ \A p \in S : b.review[p].round <= b.review[r].round

\* What LatestIsNewest says of a book, in memory or in the file.
ShowsNewest(b) ==
  \A a \in Ad : IF Among(b, a) = {} THEN b.ad[a].latest = None ELSE IsHighest(b, b.ad[a].latest, Among(b, a))

\* Two books with the same reviews, whatever their states.
SameReviews(b, c) ==
  /\ \A r \in Review : /\ KeptIn(c, r) <=> KeptIn(b, r)
                       /\ c.review[r].ad = b.review[r].ad /\ c.review[r].round = b.review[r].round
  /\ \A a \in Ad : c.ad[a].latest = b.ad[a].latest

LEMMA SameShowsNewest ==
  ASSUME NEW b, NEW c, ShowsNewest(b), SameReviews(b, c)
  PROVE  ShowsNewest(c)
<1>1. \A a : Among(c, a) = Among(b, a)
  BY DEF SameReviews, Among
<1>2. \A a : Among(b, a) \subseteq Review
  BY DEF Among
<1> QED
  BY <1>1, <1>2 DEF ShowsNewest, IsHighest, SameReviews

LEMMA NewestIs == ShowsNewest(book) <=> LatestIsNewest
<1>1. \A a : Among(book, a) = ReviewsOf(a)
  BY DEF Among, KeptIn, ReviewsOf, Kept, AdOf
<1>2. ASSUME NEW a \in Ad
      PROVE  (IF Among(book, a) = {} THEN book.ad[a].latest = None
              ELSE IsHighest(book, book.ad[a].latest, Among(book, a)))
               <=> book.ad[a].latest \in NewestOf(ReviewsOf(a))
  <2> DEFINE S == ReviewsOf(a)  latest == book.ad[a].latest
  <2>1. latest \in NewestOf(S) <=> IF S = {} THEN latest = None ELSE IsHighest(book, latest, S)
    <3> HIDE DEF S, latest
    <3>1. CASE S = {}
      BY <3>1 DEF NewestOf
    <3>2. CASE S # {}
      BY <3>2 DEF NewestOf, IsHighest, Round
    <3> QED BY <3>1, <3>2
  <2> QED BY <1>1, <2>1
<1> QED
  BY <1>2 DEF ShowsNewest, LatestIsNewest

\* A review that is there changes its state only.
LEMMA WithBothSame ==
  ASSUME book \in Books, NEW r \in Review, StateOf(r) # "NONE",
         NEW state \in State \ {"NONE", "DELETED"}, NEW status \in AdStatus
  PROVE  /\ SameReviews(book, WithState(r, state))
         /\ SameReviews(book, WithBoth(r, state, status))
<1> DEFINE record == book.review[r]
           written == [record EXCEPT !.state = IF @ = "DELETED" THEN @ ELSE state]
           b == WithState(r, state)
           a0 == AdOf(r)
           ads == [b.ad EXCEPT ![a0] = [@ EXCEPT !.status = status]]
<1>1. /\ book.review \in [Review -> ReviewRecord] /\ book.ad \in [Ad -> AdRecord]
      /\ book = [review |-> book.review, ad |-> book.ad]
  BY BooksAre
<1>2. b = [review |-> [book.review EXCEPT ![r] = written], ad |-> book.ad]
  BY <1>1 DEF WithState
<1>3. /\ written.ad = record.ad /\ written.round = record.round
      /\ written.state = IF record.state = "DELETED" THEN "DELETED" ELSE state
  BY <1>1 DEF ReviewRecord
<1> HIDE DEF written
<1>4. b.review = [book.review EXCEPT ![r] = written] /\ b.ad = book.ad
  BY <1>2
<1> HIDE DEF b
<1>5. b.review[r] = written /\ \A q \in Review \ {r} : b.review[q] = book.review[q]
  BY <1>1, <1>4
<1>6. \A q \in Review : /\ KeptIn(b, q) <=> KeptIn(book, q)
                        /\ b.review[q].ad = book.review[q].ad /\ b.review[q].round = book.review[q].round
  BY <1>3, <1>5 DEF KeptIn, StateOf
<1>7. SameReviews(book, b)
  BY <1>4, <1>6 DEF SameReviews
<1>8. WithBoth(r, state, status) = [review |-> b.review, ad |-> ads]
  <2>1. b = [review |-> b.review, ad |-> b.ad]
    BY <1>2, <1>4
  <2> QED BY <2>1 DEF WithBoth, b
<1>9. \A a \in Ad : ads[a].latest = b.ad[a].latest
  BY <1>1, <1>4 DEF AdRecord
<1> HIDE DEF ads
<1>10. SameReviews(book, WithBoth(r, state, status))
  BY <1>6, <1>7, <1>8, <1>9 DEF SameReviews, KeptIn
<1> QED
  BY <1>7, <1>10 DEF b

\* delete_review shows the newest of those that remain.
LEMMA WithoutReviewShowsNewest ==
  ASSUME book \in Books, ShowsNewest(book), NEW r \in Review, Kept(r), AdOf(r) \in Ad,
         NEW latest \in Remaining(r)
  PROVE  ShowsNewest(WithoutReview(r, latest))
<1> DEFINE b == WithoutReview(r, latest)
           a0 == AdOf(r)
           entry == [latest |-> latest,
                     status |-> IF latest = None THEN "UPLOADED" ELSE StatusOf[book.review[latest].state]]
           gone == [book.review[r] EXCEPT !.state = "DELETED"]
<1>1. book.review \in [Review -> ReviewRecord] /\ book.ad \in [Ad -> AdRecord]
  BY BooksAre
<1>2. gone.state = "DELETED" /\ gone.ad = a0
  BY <1>1 DEF ReviewRecord, AdOf
<1>3. b = [review |-> [book.review EXCEPT ![r] = gone], ad |-> [book.ad EXCEPT ![a0] = entry]]
  BY DEF WithoutReview
<1>4. entry.latest = latest
  OBVIOUS
<1> HIDE DEF gone, entry
<1>5. b.review = [book.review EXCEPT ![r] = gone] /\ b.ad = [book.ad EXCEPT ![a0] = entry]
  BY <1>3
<1> HIDE DEF b, a0
<1>6. /\ b.review[r] = gone /\ \A q \in Review \ {r} : b.review[q] = book.review[q]
      /\ b.ad[a0] = entry /\ \A a \in Ad \ {a0} : b.ad[a] = book.ad[a]
  BY <1>1, <1>5 DEF a0
<1>7. Among(b, a0) = Among(book, a0) \ {r} /\ \A a : a # a0 => Among(b, a) = Among(book, a)
  BY <1>2, <1>6 DEF Among, KeptIn, a0, AdOf
<1>8. ASSUME NEW a \in Ad, a # a0
      PROVE  IF Among(b, a) = {} THEN b.ad[a].latest = None ELSE IsHighest(b, b.ad[a].latest, Among(b, a))
  <2>1. \A q \in Among(book, a) : q \in Review \ {r}
    BY <1>8 DEF Among, a0, AdOf
  <2> QED BY <1>6, <1>7, <1>8, <2>1 DEF ShowsNewest, IsHighest
<1>9. IF Among(b, a0) = {} THEN b.ad[a0].latest = None ELSE IsHighest(b, b.ad[a0].latest, Among(b, a0))
  <2>1. ReviewsOf(a0) = Among(book, a0)
    BY DEF Among, KeptIn, ReviewsOf, Kept, AdOf
  <2>2. Remaining(r) = NewestOf(Among(b, a0))
    BY <1>7, <2>1 DEF Remaining, a0
  <2>3. \A q \in Among(b, a0) : q \in Review \ {r}
    BY <1>7 DEF Among
  <2> QED BY <1>4, <1>6, <2>2, <2>3 DEF NewestOf, IsHighest, Round
<1> QED
  BY <1>8, <1>9 DEF ShowsNewest, b

\* delete_advertisement leaves no review to show.
LEMMA WithoutAdShowsNewest ==
  ASSUME book \in Books, ShowsNewest(book), NEW a \in Ad
  PROVE  ShowsNewest(WithoutAd(a))
<1> DEFINE b == WithoutAd(a)
           entry == [NewAd EXCEPT !.status = "GONE"]
<1>1. book.review \in [Review -> ReviewRecord] /\ book.ad \in [Ad -> AdRecord]
  BY BooksAre
<1>2. /\ \A q \in ReviewsOf(a) : b.review[q].state = "DELETED"
      /\ \A q \in Review \ ReviewsOf(a) : b.review[q] = book.review[q]
      /\ \A c \in Ad \ {a} : b.ad[c] = book.ad[c]
  BY WithoutAdIs
<1>3. b.ad[a].latest = None
  <2>1. entry.latest = None
    BY DEF NewAd
  <2>2. b.ad = [book.ad EXCEPT ![a] = entry]
    BY DEF WithoutAd
  <2> HIDE DEF entry, b
  <2> QED BY <1>1, <2>1, <2>2
<1> HIDE DEF b
<1>4. ReviewsOf(a) = Among(book, a)
  BY DEF Among, KeptIn, ReviewsOf, Kept, AdOf
<1>5. Among(b, a) = {}
  BY <1>2, <1>4 DEF Among, KeptIn
<1>6. ASSUME NEW c \in Ad, c # a
      PROVE  IF Among(b, c) = {} THEN b.ad[c].latest = None ELSE IsHighest(b, b.ad[c].latest, Among(b, c))
  <2>1. Among(b, c) = Among(book, c) /\ \A q \in Among(book, c) : b.review[q] = book.review[q]
    BY <1>2, <1>4, <1>6 DEF Among, KeptIn
  <2> QED BY <1>2, <1>6, <2>1 DEF ShowsNewest, IsHighest
<1> QED
  BY <1>3, <1>5, <1>6 DEF ShowsNewest, b

\* A new review has a round above all that are left of its advertisement.
LEMMA RequestShowsNewest ==
  ASSUME TypeOK, ShowsNewest(book), NEW a \in Ad, NEW r \in Review, Request(a, r)
  PROVE  ShowsNewest(book')
<1>1. book.review \in [Review -> ReviewRecord] /\ book.ad \in [Ad -> AdRecord]
  BY BooksAre DEF TypeOK
<1>2. PICK n \in 1 .. Cardinality(Review) :
        /\ IsNextRound(a, n)
        /\ book' = [review |-> [book.review EXCEPT ![r] =
                     [state |-> "PENDING", ad |-> a, round |-> n, canceled |-> FALSE]],
                    ad |-> [book.ad EXCEPT ![a] = [latest |-> r, status |-> "ANALYSIS_REQUESTED"]]]
  BY DEF Request
<1> DEFINE new == [state |-> "PENDING", ad |-> a, round |-> n, canceled |-> FALSE]
           entry == [latest |-> r, status |-> "ANALYSIS_REQUESTED"]
<1>3. PICK b : b = book'
  OBVIOUS
<1>4. b.review = [book.review EXCEPT ![r] = new] /\ b.ad = [book.ad EXCEPT ![a] = entry]
  BY <1>2, <1>3
<1>5. new.state = "PENDING" /\ new.ad = a /\ new.round = n /\ entry.latest = r
  OBVIOUS
<1> HIDE DEF new, entry
<1>6. /\ b.review[r] = new /\ \A q \in Review \ {r} : b.review[q] = book.review[q]
      /\ b.ad[a] = entry /\ \A c \in Ad \ {a} : b.ad[c] = book.ad[c]
  BY <1>1, <1>4
<1>7. ~KeptIn(book, r)
  BY DEF Request, KeptIn
<1>8. Among(b, a) = Among(book, a) \cup {r} /\ \A c : c # a => Among(b, c) = Among(book, c)
  BY <1>5, <1>6, <1>7 DEF Among, KeptIn
<1>9. \A c : Among(book, c) \subseteq Review \ {r}
  BY <1>7 DEF Among
<1>10. IsHighest(b, b.ad[a].latest, Among(b, a)) /\ Among(b, a) # {}
  <2>1. ReviewsOf(a) = Among(book, a)
    BY DEF Among, KeptIn, ReviewsOf, Kept, AdOf
  <2>2. \A p \in Among(book, a) : book.review[p].round < n
    BY <1>2, <2>1 DEF IsNextRound, Round
  <2>3. n \in Nat /\ \A p \in Among(book, a) : book.review[p].round \in Nat
    <3>1. Cardinality(Review) \in Nat
      BY FS_CardinalityType, ConstantsAssumption
    <3>2. \A p \in Review : book.review[p].round \in 0 .. Cardinality(Review)
      BY <1>1 DEF ReviewRecord
    <3> QED BY <1>2, <1>9, <3>1, <3>2
  <2>4. \A p \in Among(book, a) : b.review[p].round <= n
    BY <1>6, <1>9, <2>2, <2>3
  <2>5. b.review[r].round = n /\ b.ad[a].latest = r
    BY <1>5, <1>6
  <2> QED BY <1>8, <2>3, <2>4, <2>5 DEF IsHighest
<1>11. ASSUME NEW c \in Ad, c # a
       PROVE  IF Among(b, c) = {} THEN b.ad[c].latest = None ELSE IsHighest(b, b.ad[c].latest, Among(b, c))
  BY <1>6, <1>8, <1>9, <1>11 DEF ShowsNewest, IsHighest
<1> QED
  BY <1>3, <1>10, <1>11 DEF ShowsNewest

\* Both books, so that a restart shows the newest as well.
NInv == ShowsNewest(book) /\ ShowsNewest(disk)

LEMMA InitShowsNewest == Init => NInv
<1>1. \A a \in Ad : Among(EmptyBook, a) = {} /\ EmptyBook.ad[a].latest = None
  BY DEF Among, KeptIn, EmptyBook, NoReview, NewAd
<1> QED
  BY <1>1 DEF Init, NInv, ShowsNewest

\* The threads change states, and no rounds.
LEMMA ThreadsShowNewest ==
  ASSUME IInv, NInv, NEW t \in Thread, ThreadStep(t)
  PROVE  ShowsNewest(book') /\ disk' \in {disk, book, book'}
<1>1. ASSUME UNCHANGED book PROVE ShowsNewest(book')
  BY <1>1 DEF NInv
<1>2. {"RUNNING", "FAILED", "RETRY_PENDING", "COMPLETED"} \subseteq State \ {"NONE", "DELETED"}
  BY DEF State, Unfinished
<1>3. {"ANALYZING", "ANALYSIS_REQUESTED", "REVIEW_COMPLETED"} \subseteq AdStatus
  <2>1. {"RUNNING", "PENDING", "COMPLETED"} \subseteq State \ {"NONE", "DELETED"}
    BY DEF State, Unfinished
  <2> QED BY <2>1, StatusIs DEF StatusOf
<1>4. book \in Books
  BY DEF IInv, TypeOK
<1>5. ASSUME thread[t].pc \in Working,
             NEW state \in State \ {"NONE", "DELETED"}, NEW status \in AdStatus,
             book' \in {WithState(Subject(t), state), WithBoth(Subject(t), state, status)}
      PROVE  ShowsNewest(book')
  <2>1. PICK r \in Review : r = Subject(t)
    BY <1>5, HasReview DEF IInv, Working
  <2>2. StateOf(r) # "NONE"
    BY <1>5, <2>1 DEF IInv, ThreadsKnow, Alive, Unfinished
  <2>3. SameReviews(book, book')
    BY <1>4, <1>5, <2>1, <2>2, WithBothSame
  <2> QED BY <2>3, SameShowsNewest DEF NInv
<1>6. CASE Stage(t)
  BY <1>1, <1>2, <1>3, <1>5, <1>6 DEF Stage, Working, Persist
<1>7. CASE Complete(t)
  BY <1>1, <1>2, <1>3, <1>5, <1>7 DEF Complete, At, Working, bookkeeping, PersistResults, Persist
<1>8. CASE FailReview(t)
  BY <1>1, <1>2, <1>3, <1>5, <1>8 DEF FailReview, Working, Persist
<1>9. CASE Pause(t)
  BY <1>1, <1>2, <1>3, <1>5, <1>9 DEF Pause, Working, Persist
<1>10. CASE FailAd(t)
  <2>1. disk' \in {disk, book'}
    BY <1>10 DEF FailAd, Persist
  <2>2. ASSUME book' = [book EXCEPT !.ad[AdOf(Subject(t))].status = "REVIEW_FAILED"]
        PROVE  ShowsNewest(book')
    <3> DEFINE a0 == AdOf(Subject(t))
               ads == [book.ad EXCEPT ![a0] = [@ EXCEPT !.status = "REVIEW_FAILED"]]
    <3>1. book = [review |-> book.review, ad |-> book.ad] /\ book.ad \in [Ad -> AdRecord]
      BY <1>4, BooksAre
    <3>2. book' = [review |-> book.review, ad |-> ads]
      BY <2>2, <3>1
    <3>3. \A a \in Ad : ads[a].latest = book.ad[a].latest
      BY <3>1 DEF AdRecord
    <3> HIDE DEF ads
    <3>4. SameReviews(book, book')
      BY <3>2, <3>3 DEF SameReviews, KeptIn
    <3> QED BY <3>4, SameShowsNewest DEF NInv
  <2> QED BY <1>1, <1>10, <2>1, <2>2 DEF FailAd
<1>11. CASE Take(t) \/ Work(t) \/ WorkFails(t) \/ WaitEnds(t) \/ SubmitRag(t) \/ Poll(t)
            \/ ProjectionFails(t) \/ Leave(t)
  BY <1>1, <1>11 DEF Take, Work, WorkFails, WaitEnds, SubmitRag, Poll, ProjectionFails, Leave,
                    bookkeeping
<1> QED
  BY <1>6, <1>7, <1>8, <1>9, <1>10, <1>11 DEF ThreadStep

\* A cancellation changes the state and sets a flag.
LEMMA CancelShowsNewest ==
  ASSUME IInv, NInv, NEW r \in Review, Cancel(r)
  PROVE  ShowsNewest(book')
<1> DEFINE b == WithBoth(r, "CANCELED", "UPLOADED")
<1>1. /\ StateOf(r) # "NONE"
      /\ book' = [b EXCEPT !.review[r].canceled = TRUE]
  BY DEF Cancel, InProgress, StateOf, Unfinished
<1>2. "CANCELED" \in State \ {"NONE", "DELETED"} /\ "UPLOADED" \in AdStatus /\ book \in Books
  BY DEF State, Unfinished, AdStatus, IInv, TypeOK
<1>3. b \in Books /\ SameReviews(book, b)
  BY <1>1, <1>2, WithBothIs, WithBothSame
<1> HIDE DEF b
<1>4. ShowsNewest(b)
  BY <1>3, SameShowsNewest DEF NInv
<1>5. b.review \in [Review -> ReviewRecord] /\ b = [review |-> b.review, ad |-> b.ad]
  BY <1>3, BooksAre
<1> DEFINE flagged == [b.review EXCEPT ![r] = [@ EXCEPT !.canceled = TRUE]]
<1>6. book' = [review |-> flagged, ad |-> b.ad]
  BY <1>1, <1>5
<1>7. \A q \in Review : /\ flagged[q].state = b.review[q].state
                        /\ flagged[q].ad = b.review[q].ad /\ flagged[q].round = b.review[q].round
  BY <1>5 DEF ReviewRecord
<1> HIDE DEF flagged
<1>8. SameReviews(b, book')
  BY <1>6, <1>7 DEF SameReviews, KeptIn
<1> QED
  BY <1>4, <1>8, SameShowsNewest

\* Only a request and a deletion change what there is to show.
LEMMA NextShowsNewest == IInv /\ NInv /\ [Next]_vars => NInv'
<1> SUFFICES ASSUME IInv, NInv, [Next]_vars PROVE NInv'
  OBVIOUS
<1>1. ASSUME ShowsNewest(book'), disk' \in {disk, book, book'} PROVE NInv'
  BY <1>1 DEF NInv, ShowsNewest, Among, KeptIn, IsHighest
<1>2. CASE book' = book /\ disk' \in {disk, book}
  BY <1>1, <1>2 DEF NInv
<1>3. TypeOK /\ book \in Books
  BY DEF IInv, TypeOK
<1>4. ASSUME NEW a \in Ad, DeleteAd(a) PROVE NInv'
  BY <1>1, <1>3, <1>4, WithoutAdShowsNewest DEF DeleteAd, PersistResults, Persist, NInv
<1>5. ASSUME NEW a \in Ad, NEW r \in Review, Request(a, r) PROVE NInv'
  <2>1. disk' = book'
    BY <1>5 DEF Request, Persist
  <2> QED BY <1>1, <1>3, <1>5, <2>1, RequestShowsNewest DEF NInv
<1>6. ASSUME NEW r \in Review, DeleteReview(r) PROVE NInv'
  <2>1. PICK latest \in Remaining(r) : book' = WithoutReview(r, latest)
    BY <1>6 DEF DeleteReview
  <2>2. Kept(r) /\ disk' = book'
    BY <1>6 DEF DeleteReview, PersistResults, Persist
  <2>3. AdOf(r) \in Ad
    BY <2>2 DEF IInv, Registered, Kept, AdOf
  <2> QED BY <1>1, <1>3, <2>1, <2>2, <2>3, WithoutReviewShowsNewest DEF NInv
<1>7. ASSUME NEW r \in Review, Cancel(r) PROVE NInv'
  BY <1>1, <1>7, CancelShowsNewest DEF Cancel, Persist
<1>8. CASE \/ \E t \in Thread : CrashInComplete(t)
           \/ \E r \in Review : CrashInDeleteReview(r)
           \/ \E a \in Ad : CrashInDeleteAd(a)
           \/ Exit \/ Crash
  <2>1. book' = disk /\ disk' = disk
    BY <1>8 DEF CrashInComplete, CrashInDeleteReview, CrashInDeleteAd, FirstFile, Exit, Crash,
                Crashes, Die
  <2> QED BY <1>1, <2>1 DEF NInv
<1>9. ASSUME NEW r \in Review, RagStep(r) \/ RagRecovers(r) PROVE NInv'
  BY <1>2, <1>9 DEF RagStep, RagRecovers, bookkeeping
<1>10. ASSUME NEW t \in Thread, ThreadStep(t) PROVE NInv'
  BY <1>1, <1>10, ThreadsShowNewest
<1>11. ASSUME NEW t \in Thread, Label(t) PROVE NInv'
  BY <1>2, <1>11 DEF Label
<1>12. CASE Stop \/ Restore
  BY <1>2, <1>12 DEF Stop, Restore, bookkeeping
<1>13. CASE UNCHANGED vars
  BY <1>2, <1>13 DEF vars, bookkeeping
<1> QED
  BY <1>4, <1>5, <1>6, <1>7, <1>8, <1>9, <1>10, <1>11, <1>12, <1>13 DEF Next

\* The review that an advertisement shows is the newest that is left, whatever is
\* requested, deleted or restarted in between (delete_review, publish, next_round).
THEOREM AdsShowTheirNewest == Spec => []LatestIsNewest
<1>1. NInv => LatestIsNewest
  BY NewestIs DEF NInv
<1> QED
  BY <1>1, InitShowsNewest, NextShowsNewest, Inductive, PTL DEF Spec
=============================================================================
