------------------------------- MODULE RuleIndex -------------------------------
(***************************************************************************)
(* What every run of the pipeline prepares before it searches: the vectors *)
(* of its rules, from a cache of two files or from the encoder, and an     *)
(* index of its rules in Elasticsearch whose name is the fingerprint of    *)
(* the rules and their vectors (load_or_encode, versioned_rule_index,      *)
(* ensure_rule_index).  Several runs share the files and the indexes; each *)
(* file is replaced in one step, the two of them are not.                  *)
(***************************************************************************)
EXTENDS Naturals
CONSTANTS Run,       \* processes of run_operational_e2e
          Corpus,    \* the texts a run may have encoded under one pair of files
          Rules,     \* the catalog rules among them, which the index gets
          Take,      \* outcomes of the encoder for the same texts
          None,      \* a file that is not there
          Damaged,   \* a file that cannot be used
          MaxRuns, MaxFaults   \* bounds: runs that start, files that are damaged
VARIABLES run, vectors, meta, index, late, started, faults
vars == <<run, vectors, meta, index, late, started, faults>>

\* The encoder may answer the same texts with other bits.
Vectors == [of : Corpus, take : Take]
\* meta.json: the corpus that was encoded, and the checksum of its vectors.
Meta == [of : Corpus, sum : Vectors]
Catalog == {Rules[c] : c \in Corpus}
\* What the index takes of the vectors: those of the rules.
OfRules(v) == [of |-> Rules[v.of], take |-> v.take]
Name == [rules : Catalog, vectors : {OfRules(v) : v \in Vectors}]

ASSUME RuleIndexAssumption ==
    /\ None \notin Vectors \cup Meta \cup Name /\ Damaged \notin Vectors \cup Meta
    /\ MaxRuns \in Nat /\ MaxFaults \in Nat

Idle == [at |-> "idle"]
\* An index that nobody has created, and the mapping and documents of one.
NoIndex == [of |-> None, docs |-> {}]

Init ==
    /\ run = [p \in Run |-> Idle]
    /\ vectors = None /\ meta = None
    /\ index = [i \in Name |-> NoIndex]
    /\ late = {} /\ started = 0 /\ faults = 0

Goto(p, step) == run' = [run EXCEPT ![p] = step]
Stopped(p) == Goto(p, Idle)
Files == <<vectors, meta>>
Bounds == <<started, faults>>
Indexes == <<index, late>>

--------------------------------------------------------------------------------
(* load_or_encode.                                                          *)

Start(p) ==
    /\ run[p] = Idle /\ started < MaxRuns /\ started' = started + 1
    /\ \E c \in Corpus : Goto(p, [at |-> "cache", of |-> c])
    /\ UNCHANGED <<Files, Indexes, faults>>

\* The corpus, the ids and the source that the cache was made of are those of this run.
Matches(c) == vectors # None /\ meta \in Meta /\ meta.of = c
ReadMeta(p) ==
    /\ run[p].at = "cache"
    /\ Goto(p, IF Matches(run[p].of) THEN [at |-> "read", of |-> run[p].of, sum |-> meta.sum]
               ELSE [at |-> "encode", of |-> run[p].of])
    /\ UNCHANGED <<Files, Indexes, Bounds>>

Prepared(p, step, v) == [at |-> step, of |-> run[p].of, vectors |-> v]
ReadVectors(p) ==
    /\ run[p].at = "read"
    /\ Goto(p, IF vectors = run[p].sum THEN Prepared(p, "look", vectors)
               ELSE [at |-> "encode", of |-> run[p].of])
    /\ UNCHANGED <<Files, Indexes, Bounds>>

Encode(p) ==
    /\ run[p].at = "encode"
    /\ \E t \in Take : Goto(p, Prepared(p, "save", [of |-> run[p].of, take |-> t]))
    /\ UNCHANGED <<Files, Indexes, Bounds>>

SaveVectors(p) ==
    /\ run[p].at = "save"
    /\ vectors' = run[p].vectors
    /\ Goto(p, Prepared(p, "sign", run[p].vectors))
    /\ UNCHANGED <<meta, Indexes, Bounds>>
SaveMeta(p) ==
    /\ run[p].at = "sign"
    /\ meta' = [of |-> run[p].of, sum |-> run[p].vectors]
    /\ Goto(p, Prepared(p, "look", run[p].vectors))
    /\ UNCHANGED <<vectors, Indexes, Bounds>>

Damage ==
    /\ faults < MaxFaults /\ faults' = faults + 1
    /\ \/ vectors' = Damaged /\ UNCHANGED meta
       \/ meta' = Damaged /\ UNCHANGED vectors
    /\ UNCHANGED <<run, Indexes, started>>

--------------------------------------------------------------------------------
(* ensure_rule_index.                                                       *)

\* versioned_rule_index.
NameOf(step) == [rules |-> Rules[step.of], vectors |-> OfRules(step.vectors)]
Step(p, step) == Goto(p, Prepared(p, step, run[p].vectors))

Look(p) ==
    /\ run[p].at = "look"
    /\ Step(p, IF index[NameOf(run[p])] = NoIndex THEN "create" ELSE "check")
    /\ UNCHANGED <<Files, Indexes, Bounds>>

\* Mutant: the mapping alone is compared.
CompleteByMapping(step) == index[NameOf(step)] # NoIndex
\* The number of documents is compared; an index holds documents of its rules only.
Complete(step) == index[NameOf(step)].docs = Rules[step.of]
Check(p) ==
    /\ run[p].at = "check"
    /\ IF index[NameOf(run[p])].of = NameOf(run[p]) /\ Complete(run[p]) THEN Step(p, "search") ELSE Stopped(p)
    /\ UNCHANGED <<Files, Indexes, Bounds>>

\* The server refuses a name that exists.
Create(p) ==
    /\ run[p].at = "create"
    /\ IF index[NameOf(run[p])] = NoIndex
       THEN /\ index' = [index EXCEPT ![NameOf(run[p])] = [of |-> NameOf(run[p]), docs |-> {}]]
            /\ Step(p, "load")
       ELSE Stopped(p) /\ UNCHANGED index
    /\ UNCHANGED <<Files, late, Bounds>>

\* One bulk request: a part of it may fail, and without an answer it may be carried out
\* after its run has given up.
Load(p) ==
    /\ run[p].at = "load"
    /\ \/ \E docs \in SUBSET Rules[run[p].of] :
             /\ index' = [index EXCEPT ![NameOf(run[p])].docs = @ \cup docs]
             /\ IF docs = Rules[run[p].of] THEN Step(p, "count") ELSE Stopped(p)
             /\ UNCHANGED late
       \/ late' = late \cup {NameOf(run[p])} /\ Stopped(p) /\ UNCHANGED index
    /\ UNCHANGED <<Files, Bounds>>
Land ==
    /\ \E i \in late : /\ index' = [index EXCEPT ![i].docs = @ \cup i.rules]
                       /\ late' = late \ {i}
    /\ UNCHANGED <<run, Files, Bounds>>

Count(p) ==
    /\ run[p].at = "count"
    /\ IF Complete(run[p]) THEN Step(p, "search") ELSE Stopped(p)
    /\ UNCHANGED <<Files, Indexes, Bounds>>

\* The run ends after its searches, a call of it fails, or its process is killed.
End(p) ==
    /\ run[p] # Idle /\ Stopped(p)
    /\ UNCHANGED <<Files, Indexes, Bounds>>

RunStep(p) ==
    \/ Start(p) \/ ReadMeta(p) \/ ReadVectors(p) \/ Encode(p) \/ SaveVectors(p) \/ SaveMeta(p)
    \/ Look(p) \/ Check(p) \/ Create(p) \/ Load(p) \/ Count(p) \/ End(p)
Next == Damage \/ Land \/ \E p \in Run : RunStep(p)
Spec == Init /\ [][Next]_vars

--------------------------------------------------------------------------------
(* Properties.                                                              *)

Reading == {"cache", "encode"}
Saving == {"save", "sign"}
Indexing == {"look", "create", "check", "load", "count", "search"}
States == {Idle} \cup [at : Reading, of : Corpus] \cup [at : {"read"}, of : Corpus, sum : Vectors]
          \cup [at : Saving \cup Indexing, of : Corpus, vectors : Vectors]
TypeOK ==
    /\ run \in [Run -> States]
    /\ vectors \in Vectors \cup {None, Damaged} /\ meta \in Meta \cup {None, Damaged}
    /\ index \in [Name -> [of : Name \cup {None}, docs : SUBSET UNION Catalog]]
    /\ late \in SUBSET Name
    /\ started \in Nat /\ faults \in Nat

\* Every run searches all of its own rules and nothing else, by vectors that were made of
\* its own texts, whoever replaced a file of the cache or gave up an index meanwhile
\* (load_or_encode, ensure_rule_index).
SearchesAreWhole ==
    \A p \in Run : run[p].at = "search" =>
        /\ run[p].vectors.of = run[p].of
        /\ index[NameOf(run[p])] = [of |-> NameOf(run[p]), docs |-> Rules[run[p].of]]

\* versioned_rule_index: "Do not mutate an index used by an already-running review."
RunningIndexIsLeftAlone ==
    [][\A p \in Run : run[p].at = "search" /\ run'[p].at = "search" => index'[NameOf(run[p])] = index[NameOf(run[p])]]_vars
================================================================================
