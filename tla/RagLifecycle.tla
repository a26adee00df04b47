----------------------------- MODULE RagLifecycle -----------------------------
(***************************************************************************)
(* What the RAG job service promises about the job of one                  *)
(* client_request_id, without files, executor or subprocesses: a job is    *)
(* queued, run at most MaxAttempts times, and settles; a settled job moves *)
(* only when it is retried; a crash makes the service forget the jobs that *)
(* are queued.  RagJobs implements it, WebBridge is built on it.           *)
(***************************************************************************)
EXTENDS Naturals

CONSTANTS Key, MaxAttempts

VARIABLES
  phase,  \* the phase of the job of each key
  tries   \* the attempts it has started

vars == <<phase, tries>>

Settled == {"succeeded", "failed", "input"}
Phase == {"none", "queued", "running", "lost"} \cup Settled

Init ==
  /\ phase = [k \in Key |-> "none"]
  /\ tries = [k \in Key |-> 0]

Become(k, from, to) ==
  /\ phase[k] \in from
  /\ phase' = [phase EXCEPT ![k] = to]

Accept(k) == Become(k, {"none"}, "queued") /\ UNCHANGED tries

Start(k) ==
  /\ tries[k] < MaxAttempts
  /\ Become(k, {"queued"}, "running")
  /\ tries' = [tries EXCEPT ![k] = @ + 1]

\* A transient failure or a restart of the service.
Again(k) == tries[k] < MaxAttempts /\ Become(k, {"running"}, "queued") /\ UNCHANGED tries

Settle(k, outcome) == Become(k, {"running"}, outcome) /\ UNCHANGED tries

Retry(k) == tries[k] < MaxAttempts /\ Become(k, Settled, "queued") /\ UNCHANGED tries

Crash ==
  /\ phase' = [k \in Key |-> IF phase[k] = "queued" THEN "lost" ELSE phase[k]]
  /\ UNCHANGED tries

Next ==
  \/ \E k \in Key : \/ Accept(k) \/ Start(k) \/ Again(k) \/ Retry(k)
                    \/ \E outcome \in Settled : Settle(k, outcome)
  \/ Crash

Spec == Init /\ [][Next]_vars
=============================================================================
