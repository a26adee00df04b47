--------------------------- MODULE ReviewLifecycle ---------------------------
(***************************************************************************)
(* What the review service promises about a review, without queue, workers *)
(* or time: an advertisement has at most one unfinished review, a review   *)
(* is worked on only between a start and a release, and it ends once, done *)
(* or failed, and stays ended.                                             *)
(***************************************************************************)
CONSTANTS Ad, Job, None

VARIABLES
  life,   \* the phase of each review
  of,     \* the advertisement of each review
  latest  \* the last review of each advertisement

vars == <<life, of, latest>>

Phase == {"none", "waiting", "working", "done", "failed"}
Unfinished == {"waiting", "working"}

Init ==
  /\ life = [j \in Job |-> "none"]
  /\ of = [j \in Job |-> None]
  /\ latest = [a \in Ad |-> None]

Submit(a, j) ==
  /\ life[j] = "none"
  /\ \A k \in Job : of[k] = a => life[k] \notin Unfinished
  /\ life' = [life EXCEPT ![j] = "waiting"]
  /\ of' = [of EXCEPT ![j] = a]
  /\ latest' = [latest EXCEPT ![a] = j]

Become(j, from, to) ==
  /\ life[j] \in from
  /\ life' = [life EXCEPT ![j] = to]
  /\ UNCHANGED <<of, latest>>

Start(j) == Become(j, {"waiting"}, "working")
Conclude(j) == Become(j, {"working"}, "done")
Abandon(j) == Become(j, Unfinished, "failed")

\* Recovery takes the reviews of several dead workers back in one step.
ReleaseAll(jobs) ==
  /\ \A j \in jobs : life[j] = "working"
  /\ life' = [j \in Job |-> IF j \in jobs THEN "waiting" ELSE life[j]]
  /\ UNCHANGED <<of, latest>>

Next ==
  \/ \E a \in Ad, j \in Job : Submit(a, j)
  \/ \E j \in Job : Start(j) \/ Conclude(j) \/ Abandon(j)
  \/ \E jobs \in SUBSET Job : ReleaseAll(jobs)

Spec == Init /\ [][Next]_vars

\* Every review that is submitted ends.
EveryReviewEnds == \A j \in Job : life[j] \in Unfinished ~> life[j] \in {"done", "failed"}
=============================================================================
