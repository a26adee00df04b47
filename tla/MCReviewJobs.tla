---------------------------- MODULE MCReviewJobs ----------------------------
(* Constants and symmetry for the TLC runs of ReviewJobs.                   *)
EXTENDS ReviewJobs, TLC

CONSTANTS w1, w2, j1, j2, o1, o2

\* Every process has a worker_id of its own.
DistinctWorkers == {w1, w2}
DistinctIds == [w \in DistinctWorkers |-> w]

OneWorker == {w1}
OneId == [w \in OneWorker |-> w]

OneJob == {j1}
TwoJobs == {j1, j2}
NoJobs == {}

NoDelays == <<>>
ShortDelays == <<1>>
CodeDelays == <<1, 3, 10>>

SymmetryAll == Permutations(Worker) \cup Permutations(Client) \cup Permutations(Job)
SymmetryWorkers == Permutations(Worker)
=============================================================================
