--------------------------- MODULE RagPipeline_proofs ---------------------------
(***************************************************************************)
(* Theorems of two parts of the RAG pipeline that share no state: the      *)
(* vector cache and the rule indexes (RuleIndex), and the joins that fold  *)
(* the leaves of a contract (Kleene).                                      *)
(***************************************************************************)
EXTENDS RuleIndex, Kleene, TLAPS

(***************************************************************************)
(* Proofs about RuleIndex.  The invariant says why a checksum is enough:   *)
(* metadata is only written about vectors that were made of its corpus,    *)
(* and a run takes vectors only when they have the checksum it read, so    *)
(* what a run works with is of its own texts although the two files of     *)
(* the cache are replaced one after the other.  An index never holds more  *)
(* than its rules and never loses one.                                     *)
(***************************************************************************)

Working == Saving \cup Indexing

\* A run that reads the cache expects, and a run that has vectors has, vectors of its own
\* corpus; one that loads an index or searches it has an index of its own, which is whole
\* when it is searched.
Sound(step) ==
    /\ step.at = "read" => step.sum.of = step.of
    /\ step.at \in Working => step.vectors.of = step.of
    /\ step.at \in {"load", "count", "search"} => index[NameOf(step)].of = NameOf(step)
    /\ step.at = "search" => Complete(step)
RunsAreSound == \A p \in Run : Sound(run[p])
\* Metadata speaks of vectors of its corpus.
MetaIsTrue == meta \in Meta => meta.sum.of = meta.of
\* An index has the mapping of its name and holds only rules it is named after.
IndexesAreOwn == \A i \in Name : index[i].docs \subseteq i.rules /\ index[i].of \in {None, i}

IInv == TypeOK /\ MetaIsTrue /\ IndexesAreOwn /\ RunsAreSound

\* Nothing takes documents or the mapping from an index.
Grows == \A i \in Name : /\ index[i].docs \subseteq index'[i].docs
                         /\ index[i].of = i => index'[i].of = i
--------------------------------------------------------------------------------
(* What a state of a run is.                                                *)

\* The fields of a step have their types, and the index it names is one of the indexes.
LEMMA Fields ==
    ASSUME NEW step \in States
    PROVE  /\ step # Idle => step.of \in Corpus
           /\ step.at = "read" => step.sum \in Vectors
           /\ step.at \in Working => step.vectors \in Vectors /\ NameOf(step) \in Name
           /\ step.at = "idle" <=> step = Idle
<1>1. step \in {Idle} \/ step \in [at : Reading, of : Corpus]
        \/ step \in [at : {"read"}, of : Corpus, sum : Vectors]
        \/ step \in [at : Working, of : Corpus, vectors : Vectors]
  BY DEF States, Working
<1>2. CASE step \in {Idle}
  BY <1>2 DEF Idle, Working, Saving, Indexing
<1>3. CASE step \in [at : Reading, of : Corpus]
  BY <1>3 DEF Idle, Working, Saving, Indexing, Reading
<1>4. CASE step \in [at : {"read"}, of : Corpus, sum : Vectors]
  BY <1>4 DEF Idle, Working, Saving, Indexing
<1>5. CASE step \in [at : Working, of : Corpus, vectors : Vectors]
  <2>1. step.of \in Corpus /\ step.vectors \in Vectors /\ step.at \in Working
    BY <1>5
  <2>2. Rules[step.of] \in Catalog /\ OfRules(step.vectors) \in {OfRules(v) : v \in Vectors}
    BY <2>1 DEF Catalog
  <2>3. NameOf(step) \in Name
    BY <2>2 DEF NameOf, Name
  <2> QED
    BY <1>5, <2>1, <2>3 DEF Idle, Working, Saving, Indexing
<1> QED
  BY <1>1, <1>2, <1>3, <1>4, <1>5

\* A sound step stays sound while indexes only grow within their rules.
LEMMA StaysSound ==
    ASSUME TypeOK, Grows, IndexesAreOwn', NEW step \in States, Sound(step)
    PROVE  Sound(step)'
<1>1. CASE step.at \in {"load", "count", "search"}
  <2>1. NameOf(step) \in Name /\ step.at \in Working
    BY <1>1, Fields DEF Working, Indexing
  <2>2. index[NameOf(step)].of = NameOf(step) /\ index'[NameOf(step)].of = NameOf(step)
    BY <1>1, <2>1 DEF Sound, Grows
  <2>3. step.at = "search" => index'[NameOf(step)].docs = Rules[step.of]
    <3>1. index'[NameOf(step)].docs \subseteq NameOf(step).rules
      BY <2>1 DEF IndexesAreOwn
    <3>2. NameOf(step).rules = Rules[step.of]
      BY DEF NameOf
    <3>3. step.at = "search" => index[NameOf(step)].docs = Rules[step.of]
      BY DEF Sound, Complete
    <3>4. index[NameOf(step)].docs \subseteq index'[NameOf(step)].docs
      BY <2>1 DEF Grows
    <3> QED
      BY <3>1, <3>2, <3>3, <3>4
  <2> QED
    BY <1>1, <2>2, <2>3 DEF Sound, Complete, NameOf, OfRules
<1>2. CASE step.at \notin {"load", "count", "search"}
  BY <1>2 DEF Sound
<1> QED
  BY <1>1, <1>2

\* A run that goes on to a sound step leaves all of them sound.
LEMMA Moves ==
    ASSUME IInv, Grows, IndexesAreOwn', NEW p \in Run, NEW step \in States, Sound(step)', Goto(p, step)
    PROVE  run' \in [Run -> States] /\ RunsAreSound'
<1>1. run' \in [Run -> States]
  BY DEF IInv, TypeOK, Goto
<1>2. ASSUME NEW q \in Run
      PROVE  Sound(run[q])'
  <2>1. run[q] \in States /\ Sound(run[q])
    BY DEF IInv, TypeOK, RunsAreSound
  <2>2. PICK same \in States : same = run[q]
    BY <2>1
  <2>3. Sound(same)'
    BY <2>1, <2>2, StaysSound DEF IInv
  <2>4. run'[q] = IF q = p THEN step ELSE same
    BY <2>2 DEF Goto, IInv, TypeOK
  <2> QED
    BY <2>3, <2>4 DEF Sound, Complete, NameOf, OfRules
<1> QED
  BY <1>1, <1>2 DEF RunsAreSound

--------------------------------------------------------------------------------
(* The steps.                                                               *)

\* Nothing is prepared at first.
LEMMA Begins == Init => IInv
<1> SUFFICES ASSUME Init PROVE IInv
  OBVIOUS
<1>1. Idle \in States /\ Sound(Idle)
  BY DEF States, Sound, Idle, Working, Saving, Indexing
<1>2. RunsAreSound
  BY <1>1 DEF Init, RunsAreSound
<1>3. TypeOK
  BY <1>1 DEF Init, TypeOK, NoIndex
<1>4. MetaIsTrue /\ IndexesAreOwn
  BY RuleIndexAssumption DEF Init, MetaIsTrue, IndexesAreOwn, NoIndex
<1> QED
  BY <1>2, <1>3, <1>4 DEF IInv

\* Indexes that are left alone have grown.
LEMMA Alone == ASSUME IInv, UNCHANGED index PROVE Grows /\ IndexesAreOwn'
  BY DEF Grows, IInv, IndexesAreOwn

\* The end of a run is sound.
LEMMA IdleIsSound == Idle \in States /\ Sound(Idle) /\ Sound(Idle)'
  BY DEF States, Sound, Idle, Working, Saving, Indexing

\* The cache: ReadMeta, ReadVectors, Encode, SaveVectors and SaveMeta.
LEMMA CacheSteps ==
    ASSUME IInv, NEW p \in Run,
           Start(p) \/ ReadMeta(p) \/ ReadVectors(p) \/ Encode(p) \/ SaveVectors(p) \/ SaveMeta(p)
    PROVE  IInv'
<1>0. UNCHANGED <<index, late>> /\ Grows /\ IndexesAreOwn'
  BY Alone DEF Start, ReadMeta, ReadVectors, Encode, SaveVectors, SaveMeta, Indexes
<1>1. TypeOK /\ MetaIsTrue /\ run[p] \in States /\ Sound(run[p])
  BY DEF IInv, TypeOK, RunsAreSound
<1>2. /\ run[p] # Idle => run[p].of \in Corpus
      /\ run[p].at = "read" => run[p].sum \in Vectors
      /\ run[p].at \in Working => run[p].vectors \in Vectors
  BY <1>1, Fields
<1>3. ASSUME NEW step \in States, Sound(step)', Goto(p, step)
      PROVE  run' \in [Run -> States] /\ RunsAreSound'
  BY <1>0, <1>3, Moves
<1>4. ASSUME NEW c \in Corpus, NEW at \in {"cache", "encode"}
      PROVE  [at |-> at, of |-> c] \in States /\ Sound([at |-> at, of |-> c])'
  BY DEF States, Reading, Sound, Working, Saving, Indexing
<1>5. ASSUME NEW at \in {"save", "sign", "look"}, NEW v \in Vectors, run[p].of \in Corpus, v.of = run[p].of
      PROVE  \E step \in States : step = Prepared(p, at, v) /\ Sound(step)'
  <2>1. PICK of \in Corpus : of = run[p].of
    BY <1>5
  <2>2. Prepared(p, at, v) = [at |-> at, of |-> of, vectors |-> v]
    BY <2>1 DEF Prepared
  <2>3. [at |-> at, of |-> of, vectors |-> v] \in States
    BY DEF States, Saving, Indexing
  <2>4. Sound([at |-> at, of |-> of, vectors |-> v])'
    BY <2>1, <1>5 DEF Sound, Working, Saving, Indexing
  <2> QED
    BY <2>2, <2>3, <2>4
<1>6. CASE Start(p)
  <2>1. PICK c \in Corpus : Goto(p, [at |-> "cache", of |-> c])
    BY <1>6 DEF Start
  <2>2. run' \in [Run -> States] /\ RunsAreSound'
    BY <2>1, <1>3, <1>4
  <2> QED
    BY <2>2, <1>0, <1>1, <1>6 DEF IInv, Start, Files, TypeOK, MetaIsTrue
<1>7. CASE ReadMeta(p)
  <2>1. run[p].of \in Corpus
    BY <1>2, <1>7 DEF ReadMeta, Idle
  <2>2. ASSUME Matches(run[p].of)
        PROVE  \E step \in States : step = [at |-> "read", of |-> run[p].of, sum |-> meta.sum] /\ Sound(step)'
    <3>1. meta.sum \in Vectors /\ meta.sum.of = run[p].of
      BY <1>1, <2>2 DEF Matches, MetaIsTrue, Meta
    <3>2. PICK of \in Corpus, sum \in Vectors : of = run[p].of /\ sum = meta.sum
      BY <2>1, <3>1
    <3>3. [at |-> "read", of |-> of, sum |-> sum] \in States
      BY DEF States
    <3>4. Sound([at |-> "read", of |-> of, sum |-> sum])'
      BY <3>1, <3>2 DEF Sound, Working, Saving, Indexing
    <3> QED
      BY <3>2, <3>3, <3>4
  <2>3. PICK of \in Corpus : of = run[p].of
    BY <2>1
  <2>4. [at |-> "encode", of |-> of] \in States /\ Sound([at |-> "encode", of |-> of])'
    BY <1>4
  <2>5. run' \in [Run -> States] /\ RunsAreSound'
    <3>1. CASE Matches(run[p].of)
      <4>1. PICK step \in States : step = [at |-> "read", of |-> run[p].of, sum |-> meta.sum] /\ Sound(step)'
        BY <2>2, <3>1
      <4> QED
        BY <4>1, <3>1, <1>7, <1>3 DEF ReadMeta
    <3>2. CASE ~Matches(run[p].of)
      BY <3>2, <2>3, <2>4, <1>7, <1>3 DEF ReadMeta
    <3> QED
      BY <3>1, <3>2
  <2> QED
    BY <2>5, <1>0, <1>1, <1>7 DEF IInv, ReadMeta, Files, Bounds, TypeOK, MetaIsTrue
<1>8. CASE ReadVectors(p)
  <2>1. run[p].of \in Corpus /\ run[p].sum \in Vectors /\ run[p].sum.of = run[p].of
    BY <1>1, <1>2, <1>8 DEF ReadVectors, Idle, Sound
  <2>2. CASE vectors = run[p].sum
    <3>1. PICK step \in States : step = Prepared(p, "look", vectors) /\ Sound(step)'
      BY <1>5, <2>1, <2>2
    <3>2. Goto(p, step)
      BY <3>1, <2>2, <1>8 DEF ReadVectors
    <3>3. run' \in [Run -> States] /\ RunsAreSound'
      BY <3>1, <3>2, <1>3
    <3> QED
      BY <3>3, <1>0, <1>1, <1>8 DEF IInv, ReadVectors, Files, Bounds, TypeOK, MetaIsTrue
  <2>3. CASE vectors # run[p].sum
    <3>1. PICK of \in Corpus : of = run[p].of
      BY <2>1
    <3>2. [at |-> "encode", of |-> of] \in States /\ Sound([at |-> "encode", of |-> of])'
      BY <1>4
    <3>3. run' \in [Run -> States] /\ RunsAreSound'
      BY <3>1, <3>2, <2>3, <1>3, <1>8 DEF ReadVectors
    <3> QED
      BY <3>3, <1>0, <1>1, <1>8 DEF IInv, ReadVectors, Files, Bounds, TypeOK, MetaIsTrue
  <2> QED
    BY <2>2, <2>3
<1>9. CASE Encode(p)
  <2>1. run[p].of \in Corpus
    BY <1>2, <1>9 DEF Encode, Idle
  <2>2. PICK t \in Take : Goto(p, Prepared(p, "save", [of |-> run[p].of, take |-> t]))
    BY <1>9 DEF Encode
  <2>3. PICK v \in Vectors : v = [of |-> run[p].of, take |-> t] /\ v.of = run[p].of
    <3>1. [of |-> run[p].of, take |-> t] \in Vectors
      BY <2>1 DEF Vectors
    <3> QED
      BY <3>1
  <2>4. PICK step \in States : step = Prepared(p, "save", v) /\ Sound(step)'
    BY <1>5, <2>1, <2>3
  <2>5. Goto(p, step)
    BY <2>2, <2>3, <2>4
  <2>6. run' \in [Run -> States] /\ RunsAreSound'
    BY <2>4, <2>5, <1>3
  <2> QED
    BY <2>6, <1>0, <1>1, <1>9 DEF IInv, Encode, Files, Bounds, TypeOK, MetaIsTrue
<1>10. CASE SaveVectors(p)
  <2>1. run[p].of \in Corpus /\ run[p].vectors \in Vectors /\ run[p].vectors.of = run[p].of
    BY <1>1, <1>2, <1>10 DEF SaveVectors, Idle, Sound, Working, Saving
  <2>2. PICK step \in States : step = Prepared(p, "sign", run[p].vectors) /\ Sound(step)'
    BY <1>5, <2>1
  <2>3. run' \in [Run -> States] /\ RunsAreSound'
    BY <2>2, <1>3, <1>10 DEF SaveVectors
  <2> QED
    BY <2>1, <2>3, <1>0, <1>1, <1>10 DEF IInv, SaveVectors, Bounds, TypeOK, MetaIsTrue
<1>11. CASE SaveMeta(p)
  <2>1. run[p].of \in Corpus /\ run[p].vectors \in Vectors /\ run[p].vectors.of = run[p].of
    BY <1>1, <1>2, <1>11 DEF SaveMeta, Idle, Sound, Working, Saving
  <2>2. PICK step \in States : step = Prepared(p, "look", run[p].vectors) /\ Sound(step)'
    BY <1>5, <2>1
  <2>3. meta' \in Meta /\ meta'.sum.of = meta'.of
    BY <2>1, <1>11 DEF SaveMeta, Meta
  <2>4. run' \in [Run -> States] /\ RunsAreSound'
    BY <2>2, <1>3, <1>11 DEF SaveMeta
  <2> QED
    BY <2>3, <2>4, <1>0, <1>1, <1>11 DEF IInv, SaveMeta, Bounds, TypeOK, MetaIsTrue
<1> QED
  BY <1>6, <1>7, <1>8, <1>9, <1>10, <1>11

\* A step of a run in the index, and its end.
LEMMA Steps ==
    ASSUME IInv, Grows, IndexesAreOwn', NEW p \in Run, NEW at \in Indexing, Step(p, at), run[p].at \in Working,
           at \in {"load", "count", "search"} => index'[NameOf(run[p])].of = NameOf(run[p]),
           at = "search" => index'[NameOf(run[p])].docs = Rules[run[p].of]
    PROVE  run' \in [Run -> States] /\ RunsAreSound'
<1>1. run[p] \in States /\ Sound(run[p])
  BY DEF IInv, TypeOK, RunsAreSound
<1>2. run[p].of \in Corpus /\ run[p].vectors \in Vectors /\ run[p].vectors.of = run[p].of
  BY <1>1, Fields DEF Sound, Idle, Working, Saving, Indexing
<1>3. PICK of \in Corpus, v \in Vectors : of = run[p].of /\ v = run[p].vectors
  BY <1>2
<1>4. PICK step \in States : step = [at |-> at, of |-> of, vectors |-> v]
  BY DEF States
<1>5. NameOf(step) = NameOf(run[p])
  BY <1>3, <1>4 DEF NameOf
<1>6. Sound(step)'
  <2>1. step.at \in {"load", "count", "search"} => index'[NameOf(step)].of = NameOf(step)
    BY <1>4, <1>5
  <2>2. step.at = "search" => index'[NameOf(step)].docs = Rules[step.of]
    BY <1>3, <1>4, <1>5
  <2>3. step.vectors.of = step.of /\ step.at # "read"
    BY <1>2, <1>3, <1>4 DEF Indexing
  <2> QED
    BY <2>1, <2>2, <2>3 DEF Sound, Complete, NameOf, OfRules
<1>7. Goto(p, step)
  BY <1>3, <1>4 DEF Step, Prepared
<1> QED
  BY <1>6, <1>7, Moves

\* The end of a run leaves the others as they are.
LEMMA Ends ==
    ASSUME IInv, Grows, IndexesAreOwn', NEW p \in Run, Stopped(p)
    PROVE  run' \in [Run -> States] /\ RunsAreSound'
<1>1. PICK step \in States : step = Idle /\ Sound(step)'
  <2>1. PICK step \in States : step = Idle
    BY IdleIsSound
  <2>2. Sound(step)'
    BY <2>1 DEF Sound, Idle, Working, Saving, Indexing
  <2> QED
    BY <2>1, <2>2
<1>2. Goto(p, step)
  BY <1>1 DEF Stopped
<1> QED
  BY <1>1, <1>2, Moves

\* The index: Look, Check, Create, Load, Count and the end of a run.
LEMMA IndexSteps ==
    ASSUME IInv, NEW p \in Run, Look(p) \/ Check(p) \/ Create(p) \/ Load(p) \/ Count(p) \/ End(p)
    PROVE  IInv'
<1>1. TypeOK /\ MetaIsTrue /\ IndexesAreOwn /\ run[p] \in States /\ Sound(run[p])
  BY DEF IInv, TypeOK, RunsAreSound
<1>2. UNCHANGED <<vectors, meta, started, faults>>
  BY DEF Look, Check, Create, Load, Count, End, Files, Bounds
<1>3. ASSUME run' \in [Run -> States], RunsAreSound', IndexesAreOwn',
             index' \in [Name -> [of : Name \cup {None}, docs : SUBSET UNION Catalog]], late' \in SUBSET Name
      PROVE  IInv'
  BY <1>1, <1>2, <1>3 DEF IInv, TypeOK, MetaIsTrue
<1>4. run[p].at \in Working => NameOf(run[p]) \in Name /\ run[p].of \in Corpus
  BY <1>1, Fields DEF Idle, Working, Saving, Indexing
<1>5. Rules[run[p].of] = NameOf(run[p]).rules
  BY DEF NameOf
<1>6. CASE UNCHANGED index
  <2>1. Grows /\ IndexesAreOwn' /\ index' \in [Name -> [of : Name \cup {None}, docs : SUBSET UNION Catalog]]
    BY <1>1, <1>6, Alone DEF TypeOK
  <2>2. late' \in SUBSET Name
    BY <1>1, <1>4, <1>6 DEF Look, Check, Create, Load, Count, End, Indexes, TypeOK, Working, Indexing
  <2>3. CASE Stopped(p)
    BY <2>1, <2>2, <2>3, <1>3, Ends
  <2>4. CASE Look(p)
    <3>1. PICK at \in {"create", "check"} : Step(p, at)
      BY <2>4 DEF Look
    <3>2. run[p].at \in Working
      BY <2>4 DEF Look, Working, Indexing
    <3>3. at \in Indexing /\ at \notin {"load", "count", "search"}
      BY DEF Indexing
    <3>4. run' \in [Run -> States] /\ RunsAreSound'
      BY <2>1, <3>1, <3>2, <3>3, Steps
    <3> QED
      BY <3>4, <2>1, <2>2, <1>3
  <2>5. CASE ~Stopped(p) /\ (Check(p) \/ Count(p))
    <3>1. Step(p, "search") /\ run[p].at \in Working
      BY <2>5 DEF Check, Count, Working, Indexing
    <3>2. Complete(run[p]) /\ index[NameOf(run[p])].of = NameOf(run[p])
      BY <2>5, <1>1 DEF Check, Count, Sound
    <3>3. index'[NameOf(run[p])].of = NameOf(run[p]) /\ index'[NameOf(run[p])].docs = Rules[run[p].of]
      BY <3>2, <1>6 DEF Complete
    <3>4. "search" \in Indexing
      BY DEF Indexing
    <3>5. run' \in [Run -> States] /\ RunsAreSound'
      BY <2>1, <3>1, <3>3, <3>4, Steps
    <3> QED
      BY <3>5, <2>1, <2>2, <1>3
  <2>6. CASE ~Stopped(p) /\ Create(p)
    \* An index that exists is not created again.
    BY <2>6, <1>6, <1>1, <1>4, RuleIndexAssumption DEF Create, NoIndex, TypeOK, Working, Indexing
  <2>7. CASE ~Stopped(p) /\ Load(p)
    <3>1. PICK docs \in SUBSET Rules[run[p].of] :
              /\ index' = [index EXCEPT ![NameOf(run[p])].docs = @ \cup docs]
              /\ docs = Rules[run[p].of] /\ Step(p, "count") /\ run[p].at = "load"
      BY <2>7 DEF Load
    <3>2. run[p].at \in Working /\ "count" \in Indexing
      BY <3>1 DEF Working, Indexing
    <3>3. index'[NameOf(run[p])].of = NameOf(run[p])
      BY <3>1, <1>1, <1>6 DEF Sound
    <3>4. run' \in [Run -> States] /\ RunsAreSound'
      BY <2>1, <3>1, <3>2, <3>3, Steps
    <3> QED
      BY <3>4, <2>1, <2>2, <1>3
  <2> QED
    BY <2>3, <2>4, <2>5, <2>6, <2>7 DEF End
<1>7. CASE Create(p) /\ ~UNCHANGED index
  <2>1. /\ run[p].at = "create" /\ index[NameOf(run[p])] = NoIndex
        /\ index' = [index EXCEPT ![NameOf(run[p])] = [of |-> NameOf(run[p]), docs |-> {}]]
        /\ Step(p, "load") /\ UNCHANGED late
    BY <1>7 DEF Create
  <2>2. run[p].at \in Working /\ "load" \in Indexing
    BY <2>1 DEF Working, Indexing
  <2>3. PICK i \in Name : i = NameOf(run[p])
    BY <1>4, <2>2
  <2>4. [of |-> i, docs |-> {}] \in [of : Name \cup {None}, docs : SUBSET UNION Catalog]
    OBVIOUS
  <2>5. index' \in [Name -> [of : Name \cup {None}, docs : SUBSET UNION Catalog]]
    BY <1>1, <2>1, <2>3, <2>4 DEF TypeOK
  <2>6. \A j \in Name : index'[j] = IF j = i THEN [of |-> i, docs |-> {}] ELSE index[j]
    BY <1>1, <2>1, <2>3 DEF TypeOK
  <2>7. Grows /\ IndexesAreOwn'
    BY <1>1, <2>1, <2>3, <2>6 DEF Grows, IndexesAreOwn, NoIndex
  <2>8. run' \in [Run -> States] /\ RunsAreSound'
    BY <2>1, <2>2, <2>3, <2>6, <2>7, Steps
  <2> QED
    BY <2>1, <2>5, <2>7, <2>8, <1>1, <1>3 DEF TypeOK
<1>8. CASE Load(p) /\ ~UNCHANGED index
  <2>1. PICK docs \in SUBSET Rules[run[p].of] :
            /\ run[p].at = "load" /\ UNCHANGED late
            /\ index' = [index EXCEPT ![NameOf(run[p])].docs = @ \cup docs]
            /\ Step(p, "count") \/ Stopped(p)
    BY <1>8 DEF Load
  <2>2. run[p].at \in Working /\ "count" \in Indexing
    BY <2>1 DEF Working, Indexing
  <2>3. PICK i \in Name : i = NameOf(run[p])
    BY <1>4, <2>2
  <2>4. i.rules \in Catalog /\ docs \subseteq i.rules
    BY <2>1, <2>3, <1>5 DEF Name
  <2>5. \A j \in Name : /\ index'[j].of = index[j].of
                        /\ index'[j].docs = IF j = i THEN index[j].docs \cup docs ELSE index[j].docs
    BY <1>1, <2>1, <2>3 DEF TypeOK
  <2>6. index' \in [Name -> [of : Name \cup {None}, docs : SUBSET UNION Catalog]]
    <3>1. index[i].docs \cup docs \in SUBSET UNION Catalog
      BY <2>4, <1>1 DEF TypeOK
    <3>2. [index[i] EXCEPT !.docs = index[i].docs \cup docs] \in [of : Name \cup {None}, docs : SUBSET UNION Catalog]
      BY <3>1, <1>1 DEF TypeOK
    <3> QED
      BY <3>2, <1>1, <2>1, <2>3 DEF TypeOK
  <2>7. Grows /\ IndexesAreOwn'
    BY <1>1, <2>4, <2>5 DEF Grows, IndexesAreOwn
  <2>8. index'[NameOf(run[p])].of = NameOf(run[p])
    BY <1>1, <2>1, <2>3, <2>5 DEF Sound
  <2>9. run' \in [Run -> States] /\ RunsAreSound'
    BY <2>1, <2>2, <2>7, <2>8, Steps, Ends
  <2> QED
    BY <2>1, <2>6, <2>7, <2>9, <1>1, <1>3 DEF TypeOK
<1> QED
  BY <1>6, <1>7, <1>8 DEF Look, Check, Count, End, Indexes

\* Files are damaged, and a bulk request that was given up is carried out.
LEMMA OutsideSteps == ASSUME IInv, Damage \/ Land PROVE IInv'
<1>1. TypeOK /\ MetaIsTrue /\ IndexesAreOwn /\ RunsAreSound /\ UNCHANGED run
  BY DEF IInv, Damage, Land
<1>2. ASSUME Grows, IndexesAreOwn'
      PROVE  RunsAreSound'
  <2>1. ASSUME NEW q \in Run
        PROVE  Sound(run[q])'
    <3>1. PICK same \in States : same = run[q] /\ Sound(same)
      BY <1>1 DEF TypeOK, RunsAreSound
    <3>2. Sound(same)'
      BY <3>1, <1>1, <1>2, StaysSound
    <3> QED
      BY <3>1, <3>2, <1>1 DEF Sound, Complete, NameOf, OfRules
  <2> QED
    BY <2>1 DEF RunsAreSound
<1>3. CASE Damage
  <2>1. Grows /\ IndexesAreOwn'
    BY <1>3, Alone DEF Damage, Indexes
  <2>2. MetaIsTrue'
    BY <1>1, <1>3, RuleIndexAssumption DEF Damage, MetaIsTrue
  <2> QED
    BY <1>1, <1>2, <1>3, <2>1, <2>2 DEF IInv, TypeOK, Damage, Indexes
<1>4. CASE Land
  <2>1. PICK i \in late : /\ index' = [index EXCEPT ![i].docs = @ \cup i.rules]
                          /\ late' = late \ {i}
    BY <1>4 DEF Land
  <2>2. i \in Name /\ i.rules \in Catalog
    BY <1>1, <2>1 DEF TypeOK, Name
  <2>3. \A j \in Name : /\ index'[j].of = index[j].of
                        /\ index'[j].docs = IF j = i THEN index[j].docs \cup i.rules ELSE index[j].docs
    BY <1>1, <2>1, <2>2 DEF TypeOK
  <2>4. index' \in [Name -> [of : Name \cup {None}, docs : SUBSET UNION Catalog]]
    <3>1. index[i].docs \cup i.rules \in SUBSET UNION Catalog
      BY <2>2, <1>1 DEF TypeOK
    <3>2. [index[i] EXCEPT !.docs = index[i].docs \cup i.rules] \in [of : Name \cup {None}, docs : SUBSET UNION Catalog]
      BY <3>1, <2>2, <1>1 DEF TypeOK
    <3> QED
      BY <3>2, <1>1, <2>1, <2>2 DEF TypeOK
  <2>5. Grows /\ IndexesAreOwn'
    BY <1>1, <2>2, <2>3 DEF Grows, IndexesAreOwn
  <2> QED
    BY <1>1, <1>2, <1>4, <2>1, <2>4, <2>5 DEF IInv, TypeOK, Land, Files, Bounds, MetaIsTrue
<1> QED
  BY <1>3, <1>4

\* Every step keeps the invariant.
LEMMA Continues == IInv /\ [Next]_vars => IInv'
<1> SUFFICES ASSUME IInv, [Next]_vars PROVE IInv'
  OBVIOUS
<1>1. CASE Damage \/ Land
  BY <1>1, OutsideSteps
<1>2. ASSUME NEW p \in Run, RunStep(p)
      PROVE  IInv'
  BY <1>2, CacheSteps, IndexSteps DEF RunStep
<1>3. CASE UNCHANGED vars
  BY <1>3 DEF vars, IInv, TypeOK, MetaIsTrue, IndexesAreOwn, RunsAreSound, Sound, Complete, NameOf, OfRules
<1> QED
  BY <1>1, <1>2, <1>3 DEF Next

--------------------------------------------------------------------------------
(* Theorems.                                                                *)

\* The invariant holds in every reachable state (load_or_encode, ensure_rule_index).
THEOREM Inductive == Spec => []IInv
  BY Begins, Continues, PTL DEF Spec

\* What a search of a run meets.
LEMMA WholeWhenSearched == IInv => SearchesAreWhole
<1> SUFFICES ASSUME IInv, NEW p \in Run, run[p].at = "search"
             PROVE  /\ run[p].vectors.of = run[p].of
                    /\ index[NameOf(run[p])] = [of |-> NameOf(run[p]), docs |-> Rules[run[p].of]]
  BY DEF SearchesAreWhole
<1>1. run[p] \in States /\ Sound(run[p]) /\ run[p].at \in Working
  BY DEF IInv, TypeOK, RunsAreSound, Working, Indexing
<1>2. NameOf(run[p]) \in Name
  BY <1>1, Fields
<1>3. index[NameOf(run[p])] \in [of : Name \cup {None}, docs : SUBSET UNION Catalog]
  BY <1>2 DEF IInv, TypeOK
<1> QED
  BY <1>1, <1>3 DEF Sound, Complete

\* Every run searches its own rules, all of them, by vectors made of its own texts
\* (load_or_encode, ensure_rule_index).
THEOREM SearchesOwnRules == Spec => []SearchesAreWhole
  BY WholeWhenSearched, Inductive, PTL

\* No step changes an index while a run searches it (versioned_rule_index).
THEOREM IndexesInUseAreLeftAlone == Spec => RunningIndexIsLeftAlone
<1>1. TypeOK /\ SearchesAreWhole /\ SearchesAreWhole' /\ [Next]_vars =>
        [\A p \in Run : run[p].at = "search" /\ run'[p].at = "search" =>
             index'[NameOf(run[p])] = index[NameOf(run[p])]]_vars
  <2> SUFFICES ASSUME TypeOK, SearchesAreWhole, SearchesAreWhole', [Next]_vars,
                      NEW p \in Run, run[p].at = "search", run'[p].at = "search"
               PROVE  index'[NameOf(run[p])] = index[NameOf(run[p])]
    OBVIOUS
  <2>1. run'[p] = run[p]
    <3>1. ASSUME NEW q \in Run, RunStep(q)
          PROVE  run'[p] = run[p]
      <4>1. CASE q # p
        <5>1. \E step : Goto(q, step)
          BY <3>1 DEF RunStep, Start, ReadMeta, ReadVectors, Encode, SaveVectors, SaveMeta,
                      Look, Check, Create, Load, Count, End, Step, Stopped
        <5> QED
          BY <4>1, <5>1 DEF Goto, TypeOK
      <4>2. CASE q = p
        <5>1. run' = [run EXCEPT ![p] = Idle]
          BY <3>1, <4>2 DEF RunStep, Start, ReadMeta, ReadVectors, Encode, SaveVectors, SaveMeta,
                            Look, Check, Create, Load, Count, End, Stopped, Goto, Idle
        <5> QED
          BY <5>1 DEF TypeOK, Idle
      <4> QED
        BY <4>1, <4>2
    <3> QED
      BY <3>1 DEF Next, Damage, Land, vars
  <2>2. index'[NameOf(run[p])] = [of |-> NameOf(run[p]), docs |-> Rules[run[p].of]]
    BY <2>1 DEF SearchesAreWhole, NameOf, OfRules
  <2> QED
    BY <2>2 DEF SearchesAreWhole
<1>2. Spec => [](TypeOK /\ SearchesAreWhole)
  <2>1. IInv => TypeOK
    BY DEF IInv
  <2> QED
    BY <2>1, WholeWhenSearched, Inductive, PTL
<1> QED
  BY <1>1, <1>2, PTL DEF Spec, RunningIndexIsLeftAlone

(***************************************************************************)
(* The joins of rag/judgment/obligation_logic.py are monotone: resolving   *)
(* unknown leaves resolves a join or leaves it, and never turns it around. *)
(* This is why a verdict may be stored while some of its checks are open.  *)
(***************************************************************************)

\* The leaves of a join, before and after some of the unknown ones are resolved.
Resolves(S, f, g) == \A i \in S : f[i] \in Truth /\ g[i] \in Truth /\ Below(f[i], g[i])
Leaves(S, f) == {f[i] : i \in S}

\* "all" over leaves: what it has decided, it has decided for good (aggregate of "all").
THEOREM AllOfIsMonotone ==
    ASSUME NEW S, NEW f, NEW g, Resolves(S, f, g)
    PROVE  Below(AllOf(Leaves(S, f)), AllOf(Leaves(S, g)))
<1>1. CASE "F" \in Leaves(S, f)
  <2>1. PICK i \in S : f[i] = "F"
    BY <1>1 DEF Leaves
  <2>2. g[i] = "F"
    BY <2>1 DEF Resolves, Below
  <2>3. "F" \in Leaves(S, g)
    BY <2>2 DEF Leaves
  <2> QED
    BY <1>1, <2>3 DEF AllOf, Below
<1>2. CASE "F" \notin Leaves(S, f) /\ "U" \in Leaves(S, f)
  BY <1>2 DEF AllOf, Below
<1>3. CASE "F" \notin Leaves(S, f) /\ "U" \notin Leaves(S, f)
  <2>1. \A i \in S : f[i] = g[i]
    BY <1>3 DEF Resolves, Below, Leaves
  <2>2. Leaves(S, f) = Leaves(S, g)
    BY <2>1 DEF Leaves
  <2> QED
    BY <2>2 DEF Below
<1> QED
  BY <1>1, <1>2, <1>3

\* "any" over leaves, likewise.
THEOREM AnyOfIsMonotone ==
    ASSUME NEW S, NEW f, NEW g, Resolves(S, f, g)
    PROVE  Below(AnyOf(Leaves(S, f)), AnyOf(Leaves(S, g)))
<1>1. CASE "T" \in Leaves(S, f)
  <2>1. PICK i \in S : f[i] = "T"
    BY <1>1 DEF Leaves
  <2>2. g[i] = "T"
    BY <2>1 DEF Resolves, Below
  <2>3. "T" \in Leaves(S, g)
    BY <2>2 DEF Leaves
  <2> QED
    BY <1>1, <2>3 DEF AnyOf, Below
<1>2. CASE "T" \notin Leaves(S, f) /\ "U" \in Leaves(S, f)
  BY <1>2 DEF AnyOf, Below
<1>3. CASE "T" \notin Leaves(S, f) /\ "U" \notin Leaves(S, f)
  <2>1. \A i \in S : f[i] = g[i]
    BY <1>3 DEF Resolves, Below, Leaves
  <2>2. Leaves(S, f) = Leaves(S, g)
    BY <2>1 DEF Leaves
  <2> QED
    BY <2>2 DEF Below
<1> QED
  BY <1>1, <1>2, <1>3

\* A negation and a branch are monotone in all their arguments ("not" and "if").
THEOREM NegatedAndBranchAreMonotone ==
    ASSUME NEW c \in Truth, NEW d \in Truth, NEW y \in Truth, NEW z \in Truth,
           NEW n \in Truth, NEW m \in Truth,
           Below(c, d), Below(y, z), Below(n, m)
    PROVE  Below(Negated(c), Negated(d)) /\ Below(Branch(c, y, n), Branch(d, z, m))
<1>1. Below(Negated(c), Negated(d))
  BY DEF Below, Negated, Truth
<1>2. Below(Branch(c, y, n), Branch(d, z, m))
  BY DEF Below, Branch, Truth
<1> QED
  BY <1>1, <1>2

\* An alternative is the negation of the conjunction of the negations, so the contracts
\* may state either form ("any" and "all" of the code agree).
THEOREM AnyOfIsDual ==
    ASSUME NEW S, NEW f, \A i \in S : f[i] \in Truth
    PROVE  AnyOf(Leaves(S, f)) = Negated(AllOf({Negated(f[i]) : i \in S}))
<1> DEFINE N == {Negated(f[i]) : i \in S}
<1>1. ("F" \in N) <=> ("T" \in Leaves(S, f))
  BY DEF Negated, Leaves, Truth
<1>2. ("U" \in N) <=> ("U" \in Leaves(S, f))
  BY DEF Negated, Leaves, Truth
<1> QED
  BY <1>1, <1>2 DEF AnyOf, AllOf, Negated
=================================================================================
