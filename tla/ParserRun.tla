------------------------------- MODULE ParserRun -------------------------------
(***************************************************************************)
(* How the web bridge parses the files of an advertisement, over all the   *)
(* reviews of it (operational_web_bridge.py, Bridge.parse and what it      *)
(* calls).  A review has a run directory of its own; a rerun may take the  *)
(* parser output of the review it was started from.  The reviews of the    *)
(* advertisement are numbered in the order of their requests.              *)
(*                                                                         *)
(* What a parser writes for a file is a pair [by, n, template, good]: the  *)
(* review it ran for, its how-manieth output there, the template it was    *)
(* given and whether the pair is readable.                                 *)
(***************************************************************************)
EXTENDS Integers, FiniteSets, TLC

CONSTANTS
    Files,          \* files of the advertisement, numbered 1, 2, ...
    Templates,
    Slots,          \* parsers that may run at once
    MaxReviews,
    Budgets         \* bounds: how many [reviews, faults, events] a behaviour has

VARIABLES
    reviews,        \* [1..MaxReviews -> [status, parent, template]]
    disk,           \* run directories
    thread,         \* [pc, job, got, source] of the thread of each review
    left            \* what is left of the budget of reviews, of parsers and captures
                    \* that fail, and of cancellations, deletions and restarts

vars == <<reviews, disk, thread, left>>

Ids == 1..MaxReviews
None == [by |-> 0]
Nothing == [f \in Files |-> None]
Unused == [status |-> "none", parent |-> 0, template |-> "none"]
Empty == [intake |-> "none", initial |-> Nothing, retry |-> Nothing, parser |-> Nothing,
          images |-> Nothing, reuse |-> 0, integrated |-> Nothing]

\* got: the pairs that parse has accepted so far; source: the review whose
\* output it is about to take; runs: the executions of this attempt.
At(label) == [pc |-> label, job |-> [f \in Files |-> "queued"], got |-> Nothing,
              source |-> 0, runs |-> [f \in Files |-> 0]]

Init ==
    /\ reviews = [r \in Ids |-> Unused] /\ disk = [r \in Ids |-> Empty]
    /\ thread = [r \in Ids |-> At("idle")]
    /\ left \in Budgets

Status(r) == reviews[r].status
Exists(r) == Status(r) \notin {"none", "DELETED"}
Known(pair) == pair # None
Readable(pair) == Known(pair) /\ pair.good
Set(r, status) == reviews' = [reviews EXCEPT ![r].status = status]
Goto(r, new) == thread' = [thread EXCEPT ![r] = new]
pc(r) == thread[r].pc
Spend(what) == left[what] > 0 /\ left' = [left EXCEPT ![what] = @ - 1]

-----------------------------------------------------------------------------
(* Requests of users *)

\* One review of an advertisement is active; a rerun names an earlier one.
Request ==
    \E r \in Ids, parent \in {0} \cup Ids, template \in Templates :
        /\ Status(r) = "none" /\ \A q \in Ids : q < r => Status(q) \notin {"none", "RUNNING"}
        /\ parent # 0 => parent < r /\ Exists(parent)
        /\ reviews' = [reviews EXCEPT ![r] = [status |-> "RUNNING", parent |-> parent, template |-> template]]
        /\ Goto(r, At("resume"))
        /\ Spend("reviews") /\ UNCHANGED disk

\* A cancellation takes effect at once; the thread goes on to its next check.
Cancel ==
    \E r \in Ids :
        /\ Status(r) = "RUNNING"
        /\ Set(r, "CANCELED") /\ Spend("events")
        /\ UNCHANGED <<disk, thread>>

\* delete_review, of a review whose thread has ended: the run directory goes.
Delete ==
    \E r \in Ids :
        /\ Exists(r) /\ Status(r) # "RUNNING" /\ pc(r) = "idle"
        /\ Set(r, "DELETED")
        /\ disk' = [disk EXCEPT ![r] = Empty]
        /\ Spend("events") /\ UNCHANGED thread

-----------------------------------------------------------------------------
(* Reuse of the output of an earlier review *)

Reusable == {"FAILED", "COMPLETED"}

\* Mutant: a canceled review is as good as one that has failed.
MayReuseAny(s, template) == Exists(s) /\ Status(s) # "RUNNING" /\ disk[s].intake = template
\* Mutant: the template of the source is not compared.
MayReuseUnasked(s, template) == Status(s) \in Reusable

\* A review whose output a review of a template may take, its own or the one
\* it has itself taken.
MayReuse(s, template) == Status(s) \in Reusable /\ disk[s].intake = template

Whole(s) == \A f \in Files : Known(disk[s].parser[f])

\* The walk from the parent along the parser-reuse.json pointers; 0 is None.
Source(r) ==
    LET from[s \in 0..MaxReviews] ==
            IF s = 0 \/ ~MayReuse(s, reviews[r].template) THEN 0
            ELSE IF Whole(s) THEN s ELSE from[disk[s].reuse]
    IN from[reviews[r].parent]

-----------------------------------------------------------------------------
(* The thread of a review *)

Ends(r) == Goto(r, At("idle"))
Fails(r) == Set(r, "FAILED") /\ Ends(r)

\* The integrated input of an earlier attempt is taken as it is; else the
\* intake is written.
Resume(r) ==
    /\ pc(r) = "resume"
    /\ IF disk[r].integrated # Nothing /\ disk[r].intake = reviews[r].template
       THEN Goto(r, [At("parsed") EXCEPT !.got = disk[r].integrated]) /\ UNCHANGED disk
       ELSE Goto(r, At("find")) /\ disk' = [disk EXCEPT ![r].intake = reviews[r].template]
    /\ UNCHANGED <<reviews, left>>

FindSource(r) ==
    /\ pc(r) = "find"
    /\ Goto(r, IF Source(r) = 0 THEN At("parse") ELSE [At("reuse") EXCEPT !.source = Source(r)])
    /\ UNCHANGED <<reviews, disk, left>>

\* The source may have been deleted by now: what is gone when it is validated
\* means a new parse; what goes after that is an error that nobody catches.
ReadSource(r) ==
    LET s == thread[r].source
        pairs == disk[s].parser
        readable == \A f \in Files : Readable(pairs[f])
    IN /\ pc(r) = "reuse"
       /\ \/ /\ readable
             /\ disk' = [disk EXCEPT ![r].reuse = s]
             /\ Goto(r, [At("parsed") EXCEPT !.got = pairs]) /\ UNCHANGED reviews
          \/ ~readable /\ Goto(r, At("parse")) /\ UNCHANGED <<reviews, disk>>
          \/ ~Exists(s) /\ Fails(r) /\ UNCHANGED disk
       /\ UNCHANGED left

Job(r, f) == thread[r].job[f]
Move(r, f, state) == Goto(r, [thread[r] EXCEPT !.job[f] = state])
Busy == {w \in Ids \X Files : Job(w[1], w[2]) \in {"parsing", "retrying"}}

\* parse_assets_in_parallel starts a parser for each file as slots get free.
StartParser(r, f) ==
    /\ pc(r) = "parse" /\ Job(r, f) = "queued" /\ Cardinality(Busy) < Slots
    /\ Move(r, f, "parsing")
    /\ UNCHANGED <<reviews, disk, left>>

\* retry_missing_parser_assets takes the files that lack a pair, one by one.
Retries(r, f) == Job(r, f) = "missing"

StartRetry(r, f) ==
    /\ pc(r) = "retry" /\ Retries(r, f) /\ Cardinality(Busy) < Slots
    /\ \A g \in Files : g < f => Job(r, g) \notin {"missing", "retrying", "retried"}
    /\ Move(r, f, "retrying")
    /\ UNCHANGED <<reviews, disk, left>>

\* An execution leaves a good pair, an unreadable one, or what an earlier one
\* has left.
Outputs(r, old) ==
    {[by |-> r, n |-> IF Known(old) THEN old.n + 1 ELSE 1, template |-> reviews[r].template, good |-> good] :
        good \in BOOLEAN} \cup {old}

Leaves(old, new) ==
    IF new # old /\ new.good THEN UNCHANGED left ELSE Spend("faults")

EndParser(r, f) ==
    /\ \/ /\ Job(r, f) = "parsing"
          /\ \E pair \in Outputs(r, disk[r].initial[f]) :
                Leaves(disk[r].initial[f], pair) /\ disk' = [disk EXCEPT ![r].initial[f] = pair]
       \/ /\ Job(r, f) = "retrying"
          /\ \E pair \in Outputs(r, disk[r].retry[f]) :
                Leaves(disk[r].retry[f], pair) /\ disk' = [disk EXCEPT ![r].retry[f] = pair]
    /\ Goto(r, [thread[r] EXCEPT !.runs[f] = @ + 1,
                                 !.job[f] = IF @ = "parsing" THEN "parsed" ELSE "retried"])
    /\ UNCHANGED reviews

\* capture_parser_page_images: the images of a pair that is accepted.  When it
\* fails, those of an earlier pair stay.
Captured(r, f, pair, run) ==
    \/ disk' = [disk EXCEPT ![r] = [run EXCEPT !.images[f] = pair]] /\ UNCHANGED left
    \/ disk' = [disk EXCEPT ![r] = run] /\ Spend("faults")

\* The futures are waited for in the order of the files.  A good pair is
\* copied to parser/.
Collect(r, f) ==
    LET pair == disk[r].initial[f]
        next == [thread[r] EXCEPT !.pc = IF \E g \in Files : g > f THEN "parse" ELSE "retry"]
    IN /\ pc(r) = "parse" /\ Job(r, f) = "parsed"
       /\ \A g \in Files : g < f => Job(r, g) \in {"done", "missing"}
       /\ IF Readable(pair)
          THEN /\ Captured(r, f, pair, [disk[r] EXCEPT !.parser[f] = pair])
               /\ Goto(r, [next EXCEPT !.got[f] = pair, !.job[f] = "done"])
          ELSE Goto(r, [next EXCEPT !.job[f] = "missing"]) /\ UNCHANGED <<disk, left>>
       /\ UNCHANGED reviews

CollectRetry(r, f) ==
    LET pair == disk[r].retry[f] IN
    /\ pc(r) = "retry" /\ Job(r, f) = "retried"
    /\ IF Readable(pair)
       THEN /\ Captured(r, f, pair, disk[r])
            /\ Goto(r, [thread[r] EXCEPT !.got[f] = pair, !.job[f] = "recovered"])
       ELSE Move(r, f, "lost") /\ UNCHANGED <<disk, left>>
    /\ UNCHANGED reviews

\* PARSER_ASSET_FAILED when a file still lacks its pair.
Integrate(r) ==
    /\ pc(r) = "retry" /\ \A f \in Files : Job(r, f) \in {"done", "recovered", "lost"}
    /\ IF \E f \in Files : Job(r, f) = "lost" THEN Fails(r)
       ELSE Goto(r, [At("parsed") EXCEPT !.got = thread[r].got]) /\ UNCHANGED reviews
    /\ UNCHANGED <<disk, left>>

\* run, after parse: the check for a cancellation, the scopes (which may not
\* fit what was read), and integrated.json.
SaveIntegrated(r) ==
    /\ pc(r) = "parsed"
    /\ \/ Status(r) = "CANCELED" /\ Ends(r) /\ UNCHANGED <<reviews, disk>>
       \/ Status(r) # "CANCELED" /\ Fails(r) /\ UNCHANGED disk
       \/ /\ Status(r) # "CANCELED" /\ Goto(r, At("judge")) /\ UNCHANGED reviews
          /\ disk' = [disk EXCEPT ![r].integrated = thread[r].got]
    /\ UNCHANGED left

\* What follows (WebBridge, RagJobs) ends one way or another.
Judge(r) ==
    /\ pc(r) = "judge"
    /\ IF Status(r) = "CANCELED" THEN UNCHANGED reviews
       ELSE \E end \in {"FAILED", "COMPLETED"} : Set(r, end)
    /\ Ends(r)
    /\ UNCHANGED <<disk, left>>

\* A stop loses the threads; the next start resumes the reviews that run.
Restart ==
    /\ Spend("events")
    /\ thread' = [r \in Ids |-> At(IF Status(r) = "RUNNING" THEN "resume" ELSE "idle")]
    /\ UNCHANGED <<reviews, disk>>

Next ==
    \/ Request \/ Cancel \/ Delete \/ Restart
    \/ \E r \in Ids : \/ Resume(r) \/ FindSource(r) \/ ReadSource(r) \/ Integrate(r)
                      \/ SaveIntegrated(r) \/ Judge(r)
                      \/ \E f \in Files : \/ StartParser(r, f) \/ StartRetry(r, f) \/ EndParser(r, f)
                                          \/ Collect(r, f) \/ CollectRetry(r, f)
Spec == Init /\ [][Next]_vars

-----------------------------------------------------------------------------
(* parser_page_image: the image of the file in the run directory, or in the *)
(* one it was reused from, when the hashes are those of the evidence.       *)
Preview(r, f) ==
    LET from[s \in 0..MaxReviews] ==
            IF s = 0 \/ ~Exists(s) THEN None
            ELSE IF Known(disk[s].images[f])
                 THEN IF disk[s].images[f] = disk[r].integrated[f] THEN disk[s].images[f] ELSE None
                 ELSE from[disk[s].reuse]
    IN from[r]

Judged(r) == disk[r].integrated # Nothing

\* What is judged was parsed, readably, under the template of the review,
\* whichever review of the chain it was parsed for; and a preview shows the
\* output that was judged (reuse_parent_parser_output, parser_page_image).
EvidenceIsOwn ==
    \A r \in Ids, f \in Files : Judged(r) =>
        /\ disk[r].integrated[f].good /\ disk[r].integrated[f].template = reviews[r].template
        /\ Preview(r, f) \in {None, disk[r].integrated[f]}

KeepsEvidence(r) ==
    /\ Judged(r) /\ reviews'[r].status # "DELETED" => disk'[r].integrated = disk[r].integrated
    /\ \A s \in Ids : disk[r].reuse = s /\ Exists(s) /\ reviews'[s].status # "DELETED" =>
          disk'[s].parser = disk[s].parser

\* The evidence of a review is written once: a restart does not change it,
\* and an output that another review has taken stays what it was until it is
\* deleted (nobody parses into that directory any more).
EvidenceIsStable == [][\A r \in Ids : KeepsEvidence(r)]_vars

\* An attempt never parses a file that has its pair; it runs the parser once
\* for a file whose first output is good, and exactly once more for one it
\* gives up or recovers (the message of
\* PARSER_ASSET_FAILED, "only the failed files were retried once").
RetriedOnce ==
    \A r \in Ids, f \in Files :
        /\ Job(r, f) \in {"parsing", "retrying"} => ~Known(thread[r].got[f])
        /\ Job(r, f) = "done" => thread[r].runs[f] = 1
        /\ Job(r, f) \in {"recovered", "lost"} => thread[r].runs[f] = 2
=============================================================================
