-------------------------- MODULE Advertisements_proofs --------------------------
(***************************************************************************)
(* Proofs about Advertisements for both repositories and every number of   *)
(* processes, uploads, requests and faults: rows and objects go together   *)
(* although no transaction spans them, and revisions and checksums are     *)
(* registered one after another.                                           *)
(***************************************************************************)
EXTENDS Advertisements, FiniteSetTheorems, SequenceTheorems, TLAPS

Uploaded == UNION {ToSet(uploads) : uploads \in Uploads}
Stored == [sum : Uploaded, key : Nat]
Row == [ad : Nat, no : Nat, sum : Uploaded, key : Nat, seen : SUBSET Nat]
Request ==
  [at : {"idle", "storing", "inserting", "removing"}, op : {"none", "create", "revision", "delete"},
   ad : Nat, left : Seq(Uploaded), stored : Seq(Stored), no : Nat, seen : SUBSET Nat]

TypeOK ==
  /\ engine \in {"memory", "postgres"} /\ ads \in Seq(BOOLEAN)
  /\ rows \subseteq Row /\ proc \in [Apis -> Request]
  /\ objects \subseteq Nat /\ torn \subseteq Nat /\ litter \subseteq Nat
  /\ keys \in Nat /\ requests \in Nat /\ faults \in Nat

-----------------------------------------------------------------------------
(* The inductive invariant *)

\* A request that has stored objects and not yet registered them.
Building == {"storing", "inserting"}
Holds(p) == KeysOf(proc[p].stored)
\* The keys that a row or a transaction knows of.
Filled == {r.key : r \in rows}
SeenByRows == UNION {r.seen : r \in rows}
SeenByRequests == UNION {proc[p].seen : p \in Apis}
Known == Filled \union torn \union SeenByRows \union SeenByRequests
Revised(a) == {r \in RowsOf(a) : r.no > 0}

\* Keys are issued once.
Issued == Known \subseteq 1..keys /\ objects \subseteq 1..keys /\ \A p \in Apis : Holds(p) \subseteq 1..keys

\* What a request has stored, and not registered, is there, and is its own.
Own ==
  \A p \in Apis : proc[p].at \in Building =>
    /\ Holds(p) \subseteq objects /\ Holds(p) \cap Known = {}
    /\ \A q \in Apis : q # p => Holds(p) \cap Holds(q) = {}

\* A registration has something to store or to register; a revision is one
\* file, and has the number after the last of its advertisement.
Steps ==
  \A p \in Apis :
    /\ proc[p].at = "idle" => proc[p].stored = <<>>
    /\ proc[p].at = "removing" => proc[p].stored # <<>>
    /\ proc[p].at \in Building =>
         /\ proc[p].op \in {"create", "revision"}
         /\ proc[p].stored # <<>> \/ proc[p].left # <<>>
         /\ proc[p].op = "revision" => Len(proc[p].stored) + Len(proc[p].left) = 1
    /\ proc[p].at = "inserting" =>
         /\ proc[p].left = <<>>
         /\ proc[p].op = "create" => proc[p].no = 0
         /\ proc[p].op = "revision" => proc[p].ad \in Live /\ proc[p].no = 1 + Cardinality(Revised(proc[p].ad))
    /\ \A q \in Apis :
         /\ p # q /\ proc[p].at = "inserting" /\ proc[p].op = "revision"
         /\ proc[q].at = "inserting" /\ proc[q].op = "revision"
         => proc[p].ad # proc[q].ad

\* A file is of one advertisement, and a visible one has its original files.
Filed ==
  /\ IsFiniteSet(rows)
  /\ \A r \in rows : r.ad \in DOMAIN ads
  /\ \A r, s \in rows : r.key = s.key => r.ad = s.ad
  /\ \A a \in Live : \E r \in RowsOf(a) : r.no = 0

\* No request will take back the object of a visible file, but where the answer
\* to a commit was lost.
Returned ==
  \A p \in Apis, r \in rows : r.ad \in Live /\ r.key \in Holds(p) => r.key \in torn

\* What a transaction did not see when it checked, it does not see later.
Checked ==
  \A p \in Apis : proc[p].at = "inserting" =>
    \A s \in Registered : s.sum \in Sums(proc[p].stored) => s.key \notin proc[p].seen

IInv == /\ TypeOK /\ Issued /\ Own /\ Steps /\ Filed /\ Returned /\ Checked
        /\ FilesHaveObjects /\ OneHistory

-----------------------------------------------------------------------------
(* Sequences of stored files, and sets of rows *)

LEMMA KeysOfNone == KeysOf(<<>>) = {} /\ Sums(<<>>) = {}
BY DEF KeysOf, Sums

LEMMA KeysOfStored ==
  ASSUME NEW s \in Seq(Stored)
  PROVE  /\ KeysOf(s) \subseteq Nat
         /\ \A k \in KeysOf(s) : \E i \in 1..Len(s) : s[i].key = k
         /\ \A i \in 1..Len(s) : s[i] \in Stored /\ s[i].key \in KeysOf(s) /\ s[i].sum \in Sums(s)
<1>1. Len(s) \in Nat /\ DOMAIN s = 1..Len(s) /\ \A i \in 1..Len(s) : s[i] \in Stored
  BY LenProperties, ElementOfSeq
<1>. QED  BY <1>1 DEF KeysOf, Sums, Stored

LEMMA KeysOfAppend ==
  ASSUME NEW s \in Seq(Stored), NEW e \in Stored
  PROVE  /\ Append(s, e) \in Seq(Stored) /\ Append(s, e) # <<>> /\ Len(Append(s, e)) = Len(s) + 1
         /\ KeysOf(Append(s, e)) = KeysOf(s) \union {e.key}
<1>. DEFINE t == Append(s, e)
<1>1. /\ Len(s) \in Nat /\ DOMAIN s = 1..Len(s) /\ t \in Seq(Stored) /\ Len(t) = Len(s) + 1
      /\ DOMAIN t = 1..Len(s) + 1 /\ t[Len(s) + 1] = e /\ \A i \in 1..Len(s) : t[i] = s[i]
  BY LenProperties
<1>2. t # <<>>
  BY <1>1
<1>. HIDE DEF t
<1>3. \A i \in 1..Len(s) + 1 : i \in 1..Len(s) \/ i = Len(s) + 1
  BY <1>1
<1>4. KeysOf(t) = KeysOf(s) \union {e.key}
  BY <1>1, <1>3 DEF KeysOf
<1>. QED  BY <1>1, <1>2, <1>4 DEF t

LEMMA KeysOfTail ==
  ASSUME NEW s \in Seq(Stored), s # <<>>
  PROVE  /\ Tail(s) \in Seq(Stored) /\ KeysOf(Tail(s)) \subseteq KeysOf(s)
         /\ Head(s).key \in KeysOf(s) /\ KeysOf(s) \subseteq KeysOf(Tail(s)) \union {Head(s).key}
         /\ Len(s) # 1 => Tail(s) # <<>>
         /\ Len(s) = 1 => KeysOf(s) = {Head(s).key}
<1>. DEFINE t == Tail(s)
<1>1. /\ Len(s) \in Nat \ {0} /\ DOMAIN s = 1..Len(s) /\ Head(s) = s[1]
      /\ t \in Seq(Stored) /\ Len(t) = Len(s) - 1 /\ DOMAIN t = 1..Len(s) - 1
      /\ \A i \in 1..Len(s) - 1 : t[i] = s[i + 1]
  BY LenProperties, HeadTailProperties, EmptySeq
<1>. HIDE DEF t
<1>2. Len(s) # 1 => t # <<>>
  <2>1. Len(<<>>) = 0
    BY EmptySeq
  <2>2. Len(s) # 1 => Len(t) # 0
    BY <1>1
  <2>. QED  BY <2>1, <2>2
<1>3. \A i \in 1..Len(s) - 1 : i + 1 \in 1..Len(s)
  BY <1>1
<1>4. \A i \in 1..Len(s) : i = 1 \/ \E j \in 1..Len(s) - 1 : i = j + 1
  <2>. SUFFICES ASSUME NEW i \in 1..Len(s), i # 1 PROVE i - 1 \in 1..Len(s) - 1 /\ i = (i - 1) + 1
    BY <1>1
  <2>. QED  BY <1>1
<1>5. KeysOf(t) = {s[i + 1].key : i \in 1..Len(s) - 1}
  BY <1>1 DEF KeysOf
<1>6. KeysOf(s) = {s[i].key : i \in 1..Len(s)}
  BY <1>1 DEF KeysOf
<1>7. 1 \in 1..Len(s) /\ (Len(s) = 1 => \A i \in 1..Len(s) : i = 1)
  BY <1>1
<1>8. KeysOf(t) \subseteq KeysOf(s)
  BY <1>3, <1>5, <1>6
<1>9. s[1].key \in KeysOf(s) /\ KeysOf(s) \subseteq KeysOf(t) \union {s[1].key}
  BY <1>4, <1>5, <1>6, <1>7
<1>10. Len(s) = 1 => KeysOf(s) = {s[1].key}
  BY <1>6, <1>7
<1>. QED  BY <1>1, <1>2, <1>8, <1>9, <1>10 DEF t

LEMMA ImageIsFinite ==
  ASSUME NEW S, IsFiniteSet(S), NEW f, DOMAIN f = S
  PROVE  IsFiniteSet({f[x] : x \in S})
<1>. DEFINE T == {f[x] : x \in S}
           g == [x \in S |-> f[x]]
<1>1. g \in Surjection(S, T)
  BY DEF Surjection
<1>. QED  BY <1>1, FS_Surjection

LEMMA ToSetIsFinite ==
  ASSUME NEW S, NEW s \in Seq(S)
  PROVE  IsFiniteSet(ToSet(s))
<1>1. Len(s) \in Nat /\ DOMAIN s = 1..Len(s)
  BY LenProperties
<1>2. IsFiniteSet(DOMAIN s)
  BY <1>1, FS_Interval
<1>. QED  BY <1>2, ImageIsFinite DEF ToSet

\* A finite set as a sequence has all of its elements.
LEMMA SequenceOfSet ==
  ASSUME NEW S, IsFiniteSet(S)
  PROVE  /\ SetToSeq(S) \in Seq(S)
         /\ {SetToSeq(S)[i] : i \in DOMAIN SetToSeq(S)} = S
<1>. DEFINE n == Cardinality(S)
<1>1. n \in Nat /\ ExistsBijection(1..n, S)
  BY FS_CardinalityType
<1>2. \E f \in [1..n -> S] : IsInjective(f)
  BY <1>1 DEF ExistsBijection, Bijection, Injection
<1>3. SetToSeq(S) \in [1..n -> S] /\ IsInjective(SetToSeq(S))
  BY <1>2 DEF SetToSeq
<1>4. IsFiniteSet(1..n) /\ Cardinality(1..n) = n
  BY <1>1, FS_Interval
<1>5. SetToSeq(S) \in Injection(1..n, S)
  BY <1>3 DEF Injection
<1>6. SetToSeq(S) \in Surjection(1..n, S)
  BY <1>4, <1>5, FS_Injection
<1>7. \A y \in S : \E i \in 1..n : SetToSeq(S)[i] = y
  BY <1>6 DEF Surjection
<1>8. SetToSeq(S) \in Seq(S)
  BY <1>1, <1>3, SeqDef
<1>. QED  BY <1>3, <1>7, <1>8

LEMMA MaxOfInterval ==
  ASSUME NEW n \in Nat
  PROVE  Max(0..n) = n
<1>1. \A x \in 0..n : (\A y \in 0..n : x >= y) <=> x = n
  OBVIOUS
<1>2. n \in 0..n
  OBVIOUS
<1>. QED  BY <1>1, <1>2 DEF Max

-----------------------------------------------------------------------------
(* Requests and rows *)

LEMMA IdleIsRequest ==
  /\ Idle \in Request /\ Idle.at = "idle" /\ Idle.stored = <<>> /\ Idle.seen = {}
<1>1. <<>> \in Seq(Uploaded) /\ <<>> \in Seq(Stored)
  BY EmptySeq
<1>. QED  BY <1>1 DEF Idle, Request

LEMMA ProcTypes ==
  ASSUME TypeOK, NEW p \in Apis
  PROVE  /\ proc[p] \in Request
         /\ proc[p].at \in {"idle", "storing", "inserting", "removing"}
         /\ proc[p].op \in {"none", "create", "revision", "delete"}
         /\ proc[p].ad \in Nat /\ proc[p].no \in Nat /\ proc[p].seen \subseteq Nat
         /\ proc[p].left \in Seq(Uploaded) /\ proc[p].stored \in Seq(Stored)
BY DEF TypeOK, Request

LEMMA OneProcess ==
  ASSUME TypeOK, NEW p \in Apis, NEW r \in Request, Becomes(p, r)
  PROVE  /\ proc' \in [Apis -> Request] /\ proc'[p] = r
         /\ \A q \in Apis : q # p => proc'[q] = proc[q]
BY DEF TypeOK, Becomes

\* A request that fails keeps what it holds.
LEMMA Failing ==
  ASSUME TypeOK, NEW p \in Apis, Fails(p)
  PROVE  \E r \in Request :
           /\ Becomes(p, r) /\ r.stored = proc[p].stored /\ r.seen = proc[p].seen
           /\ r.at \in {"idle", "removing"}
           /\ r.at = "idle" <=> r.stored = <<>>
<1>. DEFINE at == IF proc[p].stored = <<>> THEN "idle" ELSE "removing"
            r == [proc[p] EXCEPT !.at = at]
<1>1. at \in {"idle", "removing"} /\ (at = "idle" <=> proc[p].stored = <<>>)
  OBVIOUS
<1>2. Becomes(p, r)
  BY DEF Fails
<1>. HIDE DEF at
<1>3. r \in Request /\ r.at = at /\ r.stored = proc[p].stored /\ r.seen = proc[p].seen
  BY <1>1, ProcTypes DEF Request
<1>. HIDE DEF r
<1>. QED  BY <1>1, <1>2, <1>3

LEMMA AdTypes ==
  ASSUME TypeOK
  PROVE  /\ Len(ads) \in Nat /\ DOMAIN ads = 1..Len(ads)
         /\ Live \subseteq DOMAIN ads /\ Live \subseteq Nat
         /\ \A r \in rows : /\ r.ad \in Nat /\ r.no \in Nat /\ r.sum \in Uploaded
                            /\ r.key \in Nat /\ r.seen \subseteq Nat
<1>1. Len(ads) \in Nat /\ DOMAIN ads = 1..Len(ads)
  BY LenProperties DEF TypeOK
<1>. QED  BY <1>1 DEF TypeOK, Row, Live

-----------------------------------------------------------------------------
(* A request moves on, and the tables stay *)

\* What holds of a request by itself.
Sound(r) ==
  /\ r.at = "idle" => r.stored = <<>>
  /\ r.at = "removing" => r.stored # <<>>
  /\ r.at \in Building =>
       /\ r.op \in {"create", "revision"}
       /\ r.stored # <<>> \/ r.left # <<>>
       /\ r.op = "revision" => Len(r.stored) + Len(r.left) = 1
  /\ r.at = "inserting" =>
       /\ r.left = <<>>
       /\ r.op = "create" => r.no = 0
       /\ r.op = "revision" => r.ad \in Live /\ r.no = 1 + Cardinality(Revised(r.ad))

\* A request that has checked, has seen no file of the checksums it brings, and
\* no other revises its advertisement.
Cleared(p, r) ==
  r.at = "inserting" =>
    /\ \A s \in Registered : s.sum \in Sums(r.stored) => s.key \notin r.seen
    /\ r.op = "revision" =>
         \A q \in Apis : q # p /\ proc[q].at = "inserting" /\ proc[q].op = "revision" => proc[q].ad # r.ad

TablesStay == UNCHANGED <<engine, ads, rows, torn>>

\* The objects of the other requests and of the visible files stay.
Spares(p) == \A k \in objects : k \in objects' \/ (k \in Holds(p) /\ proc[p].at = "removing")
\* An object that is there is in hand, or of a fault, or it was there and is
\* not of this request.
Explains(p, r) ==
  \A k \in objects' : k \in KeysOf(r.stored) \union litter' \/ (k \in objects /\ k \notin Holds(p))

LEMMA KnownIs ==
  ASSUME NEW k
  PROVE  /\ k \in Known <=> \/ k \in torn
                            \/ \E r \in rows : r.key = k \/ k \in r.seen
                            \/ \E p \in Apis : k \in proc[p].seen
         /\ k \in Known' <=> \/ k \in torn'
                             \/ \E r \in rows' : r.key = k \/ k \in r.seen
                             \/ \E p \in Apis : k \in proc'[p].seen
<1>1. \A R : k \in {r.key : r \in R} <=> \E r \in R : r.key = k
  OBVIOUS
<1>2. \A R : k \in UNION {r.seen : r \in R} <=> \E r \in R : k \in r.seen
  OBVIOUS
<1>3. \A P : k \in UNION {P[p].seen : p \in Apis} <=> \E p \in Apis : k \in P[p].seen
  OBVIOUS
<1>4. k \in Known <=>
        \/ k \in torn
        \/ \E r \in rows : r.key = k \/ k \in r.seen
        \/ \E p \in Apis : k \in proc[p].seen
  <2>1. k \in Filled <=> \E r \in rows : r.key = k
    BY <1>1 DEF Filled
  <2>2. k \in SeenByRows <=> \E r \in rows : k \in r.seen
    BY <1>2 DEF SeenByRows
  <2>3. k \in SeenByRequests <=> \E p \in Apis : k \in proc[p].seen
    BY <1>3 DEF SeenByRequests
  <2>4. k \in Known <=> k \in Filled \/ k \in torn \/ k \in SeenByRows \/ k \in SeenByRequests
    BY DEF Known
  <2>. QED  BY <2>1, <2>2, <2>3, <2>4
<1>5. k \in Known' <=>
        \/ k \in torn'
        \/ \E r \in rows' : r.key = k \/ k \in r.seen
        \/ \E p \in Apis : k \in proc'[p].seen
  <2>1. k \in Filled' <=> \E r \in rows' : r.key = k
    BY <1>1 DEF Filled
  <2>2. k \in SeenByRows' <=> \E r \in rows' : k \in r.seen
    BY <1>2 DEF SeenByRows
  <2>3. k \in SeenByRequests' <=> \E p \in Apis : k \in proc'[p].seen
    BY <1>3 DEF SeenByRequests
  <2>4. k \in Known' <=> k \in Filled' \/ k \in torn' \/ k \in SeenByRows' \/ k \in SeenByRequests'
    BY DEF Known
  <2>. QED  BY <2>1, <2>2, <2>3, <2>4
<1>. QED  BY <1>4, <1>5

LEMMA SoundSteps ==
  ASSUME Steps, NEW p \in Apis
  PROVE  Sound(proc[p])
BY DEF Steps, Sound

LEMMA MoveStep ==
  ASSUME IInv, TablesStay, NEW p \in Apis, NEW r \in Request, Becomes(p, r),
         keys' \in Nat, keys <= keys', litter \subseteq litter', litter' \subseteq Nat,
         requests' \in Nat, faults' \in Nat, objects' \subseteq 1..keys',
         \A k \in KeysOf(r.stored) : k \in Holds(p) \/ k \in keys + 1..keys',
         \A k \in r.seen : k \in proc[p].seen \/ \E s \in rows : s.key = k,
         r.at \in Building => proc[p].at \in Building \/ KeysOf(r.stored) = {},
         r.at \in Building => KeysOf(r.stored) \subseteq objects',
         Spares(p), Explains(p, r), Sound(r), Cleared(p, r)
  PROVE  IInv'
<1>1. TypeOK /\ Issued /\ Own /\ Steps /\ Filed /\ Returned /\ Checked /\ FilesHaveObjects /\ OneHistory
  BY DEF IInv
<1>2. /\ proc' \in [Apis -> Request] /\ proc'[p] = r
      /\ \A q \in Apis : q # p => proc'[q] = proc[q]
  BY <1>1, OneProcess
<1>3. engine' = engine /\ ads' = ads /\ rows' = rows /\ torn' = torn
  BY DEF TablesStay
<1>4. /\ Live' = Live /\ Registered' = Registered
      /\ \A a : RowsOf(a)' = RowsOf(a) /\ Revised(a)' = Revised(a)
  BY <1>3 DEF Live, Registered, RowsOf, Revised
<1>5. TypeOK'
  <2>1. objects' \subseteq Nat
    OBVIOUS
  <2>. QED  BY <1>1, <1>2, <1>3, <2>1 DEF TypeOK
<1>6. Known' \subseteq Known
  <2>. SUFFICES ASSUME NEW k \in Known' PROVE k \in Known
    OBVIOUS
  <2>1. k \in torn \/ (\E s \in rows : s.key = k \/ k \in s.seen) \/ \E q \in Apis : k \in proc'[q].seen
    BY <1>3, KnownIs
  <2>2. ASSUME NEW q \in Apis, k \in proc'[q].seen
        PROVE  (\E u \in Apis : k \in proc[u].seen) \/ \E s \in rows : s.key = k
    BY <1>2, <2>2
  <2>. QED  BY <2>1, <2>2, KnownIs
<1>7. \A q \in Apis : q # p => Holds(q)' = Holds(q)
  BY <1>2 DEF Holds
<1>8. Holds(p)' = KeysOf(r.stored)
  BY <1>2 DEF Holds
<1>9. keys \in Nat
  BY <1>1 DEF TypeOK
<1>10. Issued'
  <2>1. 1..keys \subseteq 1..keys' /\ keys + 1..keys' \subseteq 1..keys'
    BY <1>9
  <2>2. \A q \in Apis : (Holds(q)') \subseteq 1..keys'
    <3>. TAKE q \in Apis
    <3>1. CASE q = p
      BY <1>1, <1>8, <2>1, <3>1 DEF Issued
    <3>2. CASE q # p
      BY <1>1, <1>7, <2>1, <3>2 DEF Issued
    <3>. QED  BY <3>1, <3>2
  <2>. QED  BY <1>1, <1>6, <2>1, <2>2 DEF Issued
<1>11. Own'
  <2>1. \A k \in keys + 1..keys' : k \notin Known /\ \A q \in Apis : k \notin Holds(q)
    <3>1. \A k \in keys + 1..keys' : k \notin 1..keys
      BY <1>9
    <3>. QED  BY <1>1, <3>1 DEF Issued
  <2>2. ASSUME NEW q \in Apis, proc'[q].at \in Building
        PROVE  /\ Holds(q)' \subseteq objects' /\ Holds(q)' \cap Known' = {}
               /\ \A u \in Apis : u # q => Holds(q)' \cap Holds(u)' = {}
    <3>1. CASE q = p
      <4>1. r.at \in Building /\ (proc[p].at \in Building \/ KeysOf(r.stored) = {})
        BY <1>2, <2>2, <3>1
      <4>2. proc[p].at \in Building => Holds(p) \cap Known = {} /\ \A u \in Apis : u # p => Holds(p) \cap Holds(u) = {}
        BY <1>1 DEF Own
      <4>3. KeysOf(r.stored) \cap Known = {} /\ \A u \in Apis : u # p => KeysOf(r.stored) \cap Holds(u) = {}
        BY <2>1, <4>1, <4>2
      <4>. QED  BY <1>6, <1>7, <1>8, <3>1, <4>1, <4>3
    <3>2. CASE q # p
      <4>1. /\ Holds(q) \subseteq objects /\ Holds(q) \cap Known = {}
            /\ \A u \in Apis : u # q => Holds(q) \cap Holds(u) = {}
        BY <1>1, <1>2, <2>2, <3>2 DEF Own
      <4>2. Holds(q) \subseteq objects'
        BY <3>2, <4>1 DEF Spares
      <4>3. Holds(q) \cap KeysOf(r.stored) = {}
        BY <2>1, <3>2, <4>1
      <4>. QED  BY <1>6, <1>7, <1>8, <3>2, <4>1, <4>2, <4>3
    <3>. QED  BY <3>1, <3>2
  <2>. QED  BY <2>2 DEF Own
<1>12. Steps'
  <2>1. ASSUME NEW q \in Apis
        PROVE  Sound(proc'[q])
    <3>1. CASE q = p
      BY <1>2, <3>1
    <3>2. CASE q # p
      BY <1>1, <1>2, <3>2, SoundSteps
    <3>. QED  BY <3>1, <3>2
  <2>2. ASSUME NEW q \in Apis, NEW u \in Apis, q # u, proc'[q].at = "inserting", proc'[q].op = "revision",
               proc'[u].at = "inserting", proc'[u].op = "revision"
        PROVE  proc'[q].ad # proc'[u].ad
    <3>1. CASE q = p
      BY <1>2, <2>2, <3>1 DEF Cleared
    <3>2. CASE u = p
      BY <1>2, <2>2, <3>2 DEF Cleared
    <3>3. CASE q # p /\ u # p
      BY <1>1, <1>2, <2>2, <3>3 DEF Steps
    <3>. QED  BY <3>1, <3>2, <3>3
  <2>. QED  BY <1>4, <2>1, <2>2 DEF Steps, Sound
<1>13. Filed'
  BY <1>1, <1>3, <1>4 DEF Filed
<1>14. Returned'
  <2>. SUFFICES ASSUME NEW q \in Apis, NEW s \in rows, s.ad \in Live, s.key \in Holds(q)'
                PROVE  s.key \in torn
    BY <1>3, <1>4 DEF Returned
  <2>1. s.key \in Known
    BY KnownIs
  <2>2. s.key \notin keys + 1..keys'
    <3>1. s.key \in 1..keys
      BY <1>1, <2>1 DEF Issued
    <3>. QED  BY <1>9, <3>1
  <2>3. s.key \in Holds(q)
    BY <1>7, <1>8, <2>2
  <2>. QED  BY <1>1, <2>3 DEF Returned
<1>15. Checked'
  BY <1>1, <1>2, <1>4 DEF Checked, Cleared
<1>16. FilesHaveObjects'
  <2>1. ASSUME NEW s \in rows, s.ad \in Live, s.key \notin torn
        PROVE  s.key \in objects'
    BY <1>1, <2>1 DEF FilesHaveObjects, Returned, Spares
  <2>2. ASSUME NEW k \in objects'
        PROVE  \/ \E s \in rows : s.ad \in Live /\ s.key = k
               \/ \E q \in Apis : k \in Holds(q)'
               \/ k \in litter'
    <3>1. CASE k \in KeysOf(r.stored) \union litter'
      BY <1>8, <3>1
    <3>2. CASE k \in objects /\ k \notin Holds(p)
      <4>1. \/ \E s \in rows : s.ad \in Live /\ s.key = k
            \/ \E q \in Apis : k \in Holds(q)
            \/ k \in litter
        BY <1>1, <3>2 DEF FilesHaveObjects, InHand, Holds
      <4>. QED  BY <1>7, <3>2, <4>1
    <3>. QED  BY <3>1, <3>2 DEF Explains
  <2>. QED  BY <1>3, <1>4, <2>1, <2>2 DEF FilesHaveObjects, InHand, Holds
<1>17. OneHistory'
  BY <1>1, <1>4 DEF OneHistory, Revised
<1>. QED  BY <1>5, <1>10, <1>11, <1>12, <1>13, <1>14, <1>15, <1>16, <1>17 DEF IInv

\* A step that moves one request and keeps the counters and the objects.
LEMMA PlainMove ==
  ASSUME IInv, TablesStay, UNCHANGED <<objects, keys>>, litter' = litter,
         requests' \in Nat, faults' \in Nat, NEW p \in Apis, NEW r \in Request, Becomes(p, r),
         KeysOf(r.stored) = Holds(p),
         \A k \in r.seen : k \in proc[p].seen \/ \E s \in rows : s.key = k,
         r.at \in Building => proc[p].at \in Building \/ KeysOf(r.stored) = {},
         Sound(r), Cleared(p, r)
  PROVE  IInv'
<1>1. TypeOK /\ Issued /\ Own
  BY DEF IInv
<1>2. keys' \in Nat /\ keys <= keys' /\ objects' \subseteq 1..keys' /\ litter' \subseteq Nat
  BY <1>1 DEF TypeOK, Issued
<1>3. r.at \in Building => KeysOf(r.stored) \subseteq objects'
  BY <1>1 DEF Own
<1>4. Spares(p) /\ Explains(p, r)
  BY DEF Spares, Explains
<1>. QED  BY <1>2, <1>3, <1>4, MoveStep

LEMMA HoldsTyped ==
  ASSUME IInv, NEW p \in Apis
  PROVE  TypeOK /\ proc[p].stored \in Seq(Stored) /\ Holds(p) = KeysOf(proc[p].stored) /\ Sound(proc[p])
BY ProcTypes, SoundSteps DEF IInv, Holds

LEMMA UploadsTyped ==
  ASSUME UploadsAreFiles, NEW uploads \in Uploads
  PROVE  uploads \in Seq(Uploaded) /\ uploads # <<>> /\ <<Head(uploads)>> \in Seq(Uploaded)
<1>1. ToSet(uploads) \subseteq Uploaded
  BY DEF Uploaded
<1>2. uploads \in Seq(Uploaded) /\ uploads # <<>>
  BY <1>1, SeqMonotonic DEF UploadsAreFiles
<1>3. Head(uploads) \in Uploaded
  BY <1>2, HeadTailProperties
<1>. QED  BY <1>2, <1>3

LEMMA CreateKeeps ==
  ASSUME UploadsAreFiles, IInv, NEW p \in Apis, NEW uploads \in Uploads, Create(p, uploads)
  PROVE  IInv'
<1>. DEFINE r == [Idle EXCEPT !.at = "storing", !.op = "create", !.left = uploads]
<1>1. TypeOK /\ Sound(proc[p]) /\ proc[p].at = "idle" /\ Holds(p) = {}
  BY HoldsTyped, KeysOfNone DEF Create, Accepts, Sound
<1>2. uploads \in Seq(Uploaded) /\ uploads # <<>> /\ <<>> \in Seq(Stored)
  BY UploadsTyped, EmptySeq
<1>3. /\ r \in Request /\ r.at = "storing" /\ r.op = "create" /\ r.left = uploads
      /\ r.stored = <<>> /\ r.seen = {}
  BY <1>2 DEF Request, Idle
<1>4. /\ Becomes(p, r) /\ TablesStay /\ UNCHANGED <<objects, keys>> /\ litter' = litter
      /\ requests' \in Nat /\ faults' \in Nat
  BY <1>1 DEF Create, Accepts, TablesStay, tables, TypeOK
<1>. HIDE DEF r
<1>5. Sound(r) /\ Cleared(p, r)
  BY <1>2, <1>3 DEF Sound, Cleared, Building
<1>. QED  BY <1>1, <1>3, <1>4, <1>5, KeysOfNone, PlainMove

LEMMA CreateRevisionKeeps ==
  ASSUME UploadsAreFiles, IInv, NEW p \in Apis, NEW a \in Live, NEW uploads \in Uploads,
         CreateRevision(p, a, Head(uploads))
  PROVE  IInv'
<1>. DEFINE r == [Idle EXCEPT !.at = "storing", !.op = "revision", !.ad = a, !.left = <<Head(uploads)>>]
<1>1. TypeOK /\ Sound(proc[p]) /\ proc[p].at = "idle" /\ Holds(p) = {}
  BY HoldsTyped, KeysOfNone DEF CreateRevision, Accepts, Sound
<1>2. <<Head(uploads)>> \in Seq(Uploaded) /\ <<>> \in Seq(Stored) /\ a \in Nat
  BY <1>1, UploadsTyped, EmptySeq, AdTypes
<1>3. /\ r \in Request /\ r.at = "storing" /\ r.op = "revision" /\ r.left = <<Head(uploads)>>
      /\ r.stored = <<>> /\ r.seen = {}
  BY <1>2 DEF Request, Idle
<1>4. /\ Becomes(p, r) /\ TablesStay /\ UNCHANGED <<objects, keys>> /\ litter' = litter
      /\ requests' \in Nat /\ faults' \in Nat
  BY <1>1 DEF CreateRevision, Accepts, TablesStay, tables, TypeOK
<1>5. Len(<<Head(uploads)>>) = 1 /\ Len(<<>>) = 0 /\ <<Head(uploads)>> # <<>>
  OBVIOUS
<1>. HIDE DEF r
<1>6. Sound(r) /\ Cleared(p, r)
  BY <1>3, <1>5 DEF Sound, Cleared, Building
<1>. QED  BY <1>1, <1>3, <1>4, <1>6, KeysOfNone, PlainMove

\* Fails by itself: the request goes on to take back what it holds.
LEMMA FailsKeeps ==
  ASSUME IInv, TablesStay, UNCHANGED <<objects, keys>>, litter' = litter,
         requests' \in Nat, faults' \in Nat, NEW p \in Apis, Fails(p)
  PROVE  IInv'
<1>1. TypeOK /\ Holds(p) = KeysOf(proc[p].stored)
  BY HoldsTyped
<1>2. PICK r \in Request :
        /\ Becomes(p, r) /\ r.stored = proc[p].stored /\ r.seen = proc[p].seen
        /\ r.at \in {"idle", "removing"}
        /\ r.at = "idle" <=> r.stored = <<>>
  BY <1>1, Failing
<1>3. Sound(r) /\ Cleared(p, r) /\ r.at \notin Building
  BY <1>2 DEF Sound, Cleared, Building
<1>. QED  BY <1>1, <1>2, <1>3, PlainMove

LEMMA StoreKeeps ==
  ASSUME IInv, NEW p \in Apis, Store(p)
  PROVE  IInv'
<1>. DEFINE sum == Head(proc[p].left)
            e == [sum |-> sum, key |-> keys']
            r == [proc[p] EXCEPT !.left = Tail(@), !.stored = Append(@, e)]
<1>1. /\ TypeOK /\ Sound(proc[p]) /\ proc[p].stored \in Seq(Stored) /\ Holds(p) = KeysOf(proc[p].stored)
      /\ proc[p].left \in Seq(Uploaded) /\ proc[p].left # <<>> /\ proc[p].at = "storing"
      /\ Issued /\ Own
  BY HoldsTyped, ProcTypes DEF Store, IInv
<1>2. /\ TablesStay /\ litter' = litter /\ requests' \in Nat /\ faults' \in Nat /\ keys \in Nat
      /\ objects \subseteq 1..keys
  BY <1>1 DEF Store, TablesStay, tables, TypeOK, Issued
<1>3. CASE sum = Invalid \/ sum \in Sums(proc[p].stored)
  <2>1. Fails(p) /\ UNCHANGED <<objects, keys>>
    BY <1>3 DEF Store
  <2>. QED  BY <1>2, <2>1, FailsKeeps
<1>4. CASE ~(sum = Invalid \/ sum \in Sums(proc[p].stored))
  <2>1. keys' = keys + 1 /\ objects' = objects \union {keys'} /\ Becomes(p, r)
    BY <1>4 DEF Store
  <2>2. sum \in Uploaded /\ Tail(proc[p].left) \in Seq(Uploaded) /\ Len(Tail(proc[p].left)) = Len(proc[p].left) - 1
    BY <1>1, HeadTailProperties
  <2>3. e \in Stored /\ e.key = keys'
    BY <1>2, <2>1, <2>2 DEF Stored
  <2>. HIDE DEF e, sum
  <2>4. /\ Append(proc[p].stored, e) \in Seq(Stored) /\ Append(proc[p].stored, e) # <<>>
        /\ Len(Append(proc[p].stored, e)) = Len(proc[p].stored) + 1
        /\ KeysOf(Append(proc[p].stored, e)) = Holds(p) \union {keys'}
    BY <1>1, <2>3, KeysOfAppend
  <2>5. /\ r \in Request /\ r.at = "storing" /\ r.op = proc[p].op /\ r.seen = proc[p].seen
        /\ r.left = Tail(proc[p].left) /\ r.stored = Append(proc[p].stored, e)
    BY <1>1, <2>2, <2>4, ProcTypes DEF Request
  <2>. HIDE DEF r
  <2>6. Len(proc[p].stored) \in Nat /\ Len(proc[p].left) \in Nat
    BY <1>1, LenProperties
  <2>7. Sound(r) /\ Cleared(p, r)
    <3>1. /\ proc[p].op \in {"create", "revision"}
          /\ proc[p].op = "revision" => Len(proc[p].stored) + Len(proc[p].left) = 1
      BY <1>1 DEF Sound, Building
    <3>2. Len(r.stored) + Len(r.left) = Len(proc[p].stored) + Len(proc[p].left)
      <4>1. Len(r.stored) = Len(proc[p].stored) + 1 /\ Len(r.left) = Len(proc[p].left) - 1
        BY <2>2, <2>4, <2>5
      <4>2. \A a, b \in Nat : (a + 1) + (b - 1) = a + b
        OBVIOUS
      <4>. QED  BY <2>6, <4>1, <4>2, Zenon
    <3>. QED  BY <2>4, <2>5, <3>1, <3>2 DEF Sound, Cleared
  <2>8. /\ keys' \in Nat /\ keys <= keys' /\ objects' \subseteq 1..keys' /\ keys' \in keys + 1..keys'
        /\ litter \subseteq litter' /\ litter' \subseteq Nat
    <3>1. keys' \in Nat /\ keys <= keys' /\ keys' \in keys + 1..keys' /\ 1..keys \subseteq 1..keys' /\ keys' \in 1..keys'
      BY <1>2, <2>1
    <3>2. litter \subseteq Nat
      BY <1>1 DEF TypeOK
    <3>. QED  BY <1>2, <2>1, <3>1, <3>2
  <2>9. KeysOf(r.stored) = Holds(p) \union {keys'}
    BY <2>4, <2>5
  <2>10. KeysOf(r.stored) \subseteq objects' /\ proc[p].at \in Building
    BY <1>1, <2>1, <2>9 DEF Own, Building
  <2>11. Spares(p) /\ Explains(p, r)
    BY <2>1, <2>9 DEF Spares, Explains
  <2>. QED  BY <1>2, <2>1, <2>5, <2>7, <2>8, <2>9, <2>10, <2>11, MoveStep
<1>. QED  BY <1>3, <1>4

LEMMA StoreFailsKeeps ==
  ASSUME IInv, NEW p \in Apis, StoreFails(p)
  PROVE  IInv'
<1>1. TypeOK /\ Holds(p) = KeysOf(proc[p].stored) /\ keys \in Nat /\ objects \subseteq 1..keys /\ litter \subseteq Nat
  BY HoldsTyped DEF IInv, Issued, TypeOK
<1>2. PICK r \in Request :
        /\ Becomes(p, r) /\ r.stored = proc[p].stored /\ r.seen = proc[p].seen
        /\ r.at \in {"idle", "removing"}
        /\ r.at = "idle" <=> r.stored = <<>>
  BY <1>1, Failing DEF StoreFails
<1>3. Sound(r) /\ Cleared(p, r) /\ r.at \notin Building /\ KeysOf(r.stored) = Holds(p)
  BY <1>1, <1>2 DEF Sound, Cleared, Building
<1>4. PICK written \in SUBSET {keys'} : objects' = objects \union written /\ litter' = litter \union written
  BY DEF StoreFails
<1>5. /\ TablesStay /\ keys' = keys + 1 /\ requests' \in Nat /\ faults' \in Nat
  BY <1>1 DEF StoreFails, TablesStay, tables, TypeOK, Fault
<1>6. keys' \in Nat /\ keys <= keys' /\ 1..keys \subseteq 1..keys' /\ keys' \in 1..keys'
  BY <1>1, <1>5
<1>7. objects' \subseteq 1..keys' /\ litter \subseteq litter' /\ litter' \subseteq Nat
  BY <1>1, <1>4, <1>6
<1>8. Spares(p) /\ Explains(p, r)
  BY <1>3, <1>4 DEF Spares, Explains
<1>. QED  BY <1>2, <1>3, <1>5, <1>6, <1>7, <1>8, MoveStep

LEMMA CommitFailsKeeps ==
  ASSUME IInv, NEW p \in Apis, CommitFails(p)
  PROVE  IInv'
<1>1. TypeOK
  BY DEF IInv
<1>2. /\ TablesStay /\ UNCHANGED <<objects, keys>> /\ litter' = litter /\ requests' \in Nat
      /\ faults' \in Nat /\ Fails(p)
  BY <1>1 DEF CommitFails, TablesStay, tables, TypeOK, Fault
<1>. QED  BY <1>2, FailsKeeps

\* The last number of an advertisement is the number of its revisions.
LEMMA LastRevision ==
  ASSUME IInv, NEW a \in Live
  PROVE  /\ IsFiniteSet(Revised(a)) /\ Cardinality(Revised(a)) \in Nat
         /\ {r.no : r \in Revised(a)} = 1..Cardinality(Revised(a))
         /\ Max({r.no : r \in RowsOf(a)}) = Cardinality(Revised(a))
<1>. DEFINE n == Cardinality(Revised(a))
<1>1. TypeOK /\ Filed /\ OneHistory
  BY DEF IInv
<1>2. IsFiniteSet(Revised(a)) /\ n \in Nat
  <2>1. Revised(a) \in SUBSET rows /\ IsFiniteSet(rows)
    BY <1>1 DEF Revised, RowsOf, Filed
  <2>. QED  BY <2>1, FS_Subset, FS_CardinalityType
<1>3. {r.no : r \in Revised(a)} = 1..n
  BY <1>1 DEF OneHistory, Revised
<1>4. \A r \in RowsOf(a) : r.no \in Nat /\ (r.no = 0 \/ r \in Revised(a))
  BY <1>1, AdTypes DEF RowsOf, Revised
<1>5. \E r \in RowsOf(a) : r.no = 0
  BY <1>1 DEF Filed
<1>6. Revised(a) \subseteq RowsOf(a)
  BY DEF Revised
<1>. HIDE DEF n
<1>7. {r.no : r \in RowsOf(a)} = 0..n
  <2>1. \A r \in RowsOf(a) : r.no \in 0..n
    BY <1>2, <1>3, <1>4
  <2>2. \A i \in 0..n : \E r \in RowsOf(a) : r.no = i
    <3>. SUFFICES ASSUME NEW i \in 0..n PROVE \E r \in RowsOf(a) : r.no = i
      OBVIOUS
    <3>1. CASE i = 0
      BY <1>5, <3>1
    <3>2. CASE i # 0
      <4>1. i \in {r.no : r \in Revised(a)}
        BY <1>2, <1>3, <3>2
      <4>. QED  BY <1>6, <4>1
    <3>. QED  BY <3>1, <3>2
  <2>. QED  BY <2>1, <2>2
<1>8. Max({r.no : r \in RowsOf(a)}) = n
  BY <1>2, <1>7, MaxOfInterval
<1>. QED  BY <1>2, <1>3, <1>8 DEF n

LEMMA CheckKeeps ==
  ASSUME IInv, NEW p \in Apis, Check(p)
  PROVE  IInv'
<1>. DEFINE no == IF proc[p].op = "create" THEN 0 ELSE 1 + Max({s.no : s \in RowsOf(proc[p].ad)})
            seen == {s.key : s \in Registered}
            r == [proc[p] EXCEPT !.at = "inserting", !.seen = seen, !.no = no]
            refused == Duplicate(proc[p].stored) \/ (proc[p].op = "revision" /\ proc[p].ad \notin Live)
<1>1. /\ TypeOK /\ Sound(proc[p]) /\ proc[p].at = "storing" /\ proc[p].left = <<>>
      /\ Holds(p) = KeysOf(proc[p].stored)
      /\ proc[p].op = "revision" => ~Locked(proc[p].ad)
  BY HoldsTyped DEF Check
<1>2. TablesStay /\ UNCHANGED <<objects, keys>> /\ litter' = litter /\ requests' \in Nat /\ faults' \in Nat
  BY <1>1 DEF Check, TablesStay, tables, TypeOK
<1>3. CASE refused
  <2>1. Fails(p)
    BY <1>3 DEF Check
  <2>. QED  BY <1>2, <2>1, FailsKeeps
<1>4. CASE ~refused
  <2>1. Becomes(p, r)
    BY <1>4 DEF Check
  <2>2. Registered \subseteq rows
    BY DEF Registered
  <2>3. seen \subseteq Nat /\ \A k \in seen : \E s \in rows : s.key = k
    BY <1>1, <2>2, AdTypes
  <2>4. proc[p].op \in {"create", "revision"}
    BY <1>1 DEF Sound, Building
  <2>5. /\ no \in Nat /\ (proc[p].op = "create" => no = 0)
        /\ proc[p].op = "revision" => proc[p].ad \in Live /\ no = 1 + Cardinality(Revised(proc[p].ad))
    BY <1>4, <2>4, LastRevision
  <2>6. \A s \in Registered : s.sum \notin Sums(proc[p].stored)
    BY <1>4 DEF Duplicate
  <2>. HIDE DEF no, seen
  <2>7. /\ r \in Request /\ r.at = "inserting" /\ r.op = proc[p].op /\ r.seen = seen /\ r.no = no
        /\ r.left = proc[p].left /\ r.stored = proc[p].stored /\ r.ad = proc[p].ad
    BY <1>1, <2>3, <2>5, ProcTypes DEF Request
  <2>. HIDE DEF r
  <2>8. Sound(r)
    BY <1>1, <2>4, <2>5, <2>7 DEF Sound, Building
  <2>9. Cleared(p, r)
    BY <1>1, <2>6, <2>7 DEF Cleared, Locked
  <2>10. proc[p].at \in Building
    BY <1>1 DEF Building
  <2>. QED  BY <1>1, <1>2, <2>1, <2>3, <2>7, <2>8, <2>9, <2>10, PlainMove
<1>. QED  BY <1>3, <1>4

LEMMA RemoveObjectKeeps ==
  ASSUME IInv, NEW p \in Apis, RemoveObject(p)
  PROVE  IInv'
<1>. DEFINE s == proc[p].stored
            k == Head(s).key
            tail == [proc[p] EXCEPT !.stored = Tail(@)]
<1>1. /\ TypeOK /\ Sound(proc[p]) /\ proc[p].at = "removing" /\ s \in Seq(Stored) /\ s # <<>>
      /\ Holds(p) = KeysOf(s) /\ keys \in Nat /\ objects \subseteq 1..keys /\ litter \subseteq Nat
  BY HoldsTyped DEF RemoveObject, Sound, IInv, Issued, TypeOK
<1>2. /\ Tail(s) \in Seq(Stored) /\ KeysOf(Tail(s)) \subseteq KeysOf(s)
      /\ k \in KeysOf(s) /\ KeysOf(s) \subseteq KeysOf(Tail(s)) \union {k}
      /\ Len(s) # 1 => Tail(s) # <<>>
      /\ Len(s) = 1 => KeysOf(s) = {k}
  BY <1>1, KeysOfTail
<1>3. /\ TablesStay /\ keys' = keys /\ objects' = objects \ {k} /\ litter' = litter
      /\ requests' \in Nat /\ faults' \in Nat
  BY <1>1 DEF RemoveObject, TablesStay, tables, TypeOK
<1>4. /\ tail \in Request /\ tail.at = "removing" /\ tail.stored = Tail(s) /\ tail.seen = proc[p].seen
  BY <1>1, <1>2, ProcTypes DEF Request
<1>5. Len(s) = 1 => Becomes(p, Idle)
  BY DEF RemoveObject
<1>6. Len(s) # 1 => Becomes(p, tail)
  BY DEF RemoveObject
<1>. HIDE DEF tail, k
<1>7. PICK r \in Request :
        /\ Becomes(p, r) /\ r.at \in {"idle", "removing"} /\ r.seen \subseteq proc[p].seen
        /\ Sound(r) /\ KeysOf(r.stored) \subseteq KeysOf(s) /\ KeysOf(s) \subseteq KeysOf(r.stored) \union {k}
  <2>1. CASE Len(s) = 1
    <3>1. Sound(Idle)
      BY IdleIsRequest DEF Sound, Building
    <3>. QED  BY <1>2, <1>5, <2>1, <3>1, IdleIsRequest, KeysOfNone
  <2>2. CASE Len(s) # 1
    <3>1. Sound(tail)
      BY <1>2, <1>4, <2>2 DEF Sound, Building
    <3>. QED  BY <1>2, <1>4, <1>6, <2>2, <3>1
  <2>. QED  BY <2>1, <2>2
<1>8. Cleared(p, r) /\ r.at \notin Building
  BY <1>7 DEF Cleared, Building
<1>9. Spares(p) /\ Explains(p, r)
  BY <1>1, <1>2, <1>3, <1>7 DEF Spares, Explains
<1>10. keys' \in Nat /\ keys <= keys' /\ objects' \subseteq 1..keys' /\ litter \subseteq litter' /\ litter' \subseteq Nat
  <2>1. keys' \in Nat /\ keys <= keys' /\ 1..keys' = 1..keys
    BY <1>1, <1>3
  <2>. QED  BY <1>1, <1>3, <2>1
<1>. QED  BY <1>1, <1>3, <1>7, <1>8, <1>9, <1>10, MoveStep

LEMMA AbandonKeeps ==
  ASSUME IInv, NEW p \in Apis, Abandon(p)
  PROVE  IInv'
<1>1. /\ TypeOK /\ Holds(p) = KeysOf(proc[p].stored) /\ keys \in Nat /\ objects \subseteq 1..keys /\ litter \subseteq Nat
  BY HoldsTyped DEF IInv, Issued, TypeOK
<1>2. /\ TablesStay /\ UNCHANGED <<objects, keys>> /\ requests' \in Nat /\ faults' \in Nat /\ Becomes(p, Idle)
      /\ litter' = litter \union (objects \cap Holds(p))
  BY <1>1 DEF Abandon, TablesStay, tables, TypeOK, Fault
<1>3. Sound(Idle) /\ Cleared(p, Idle) /\ Idle.at \notin Building
  BY IdleIsRequest DEF Sound, Cleared, Building
<1>4. Spares(p) /\ Explains(p, Idle)
  BY <1>2 DEF Spares, Explains
<1>5. keys' \in Nat /\ keys <= keys' /\ objects' \subseteq 1..keys' /\ litter \subseteq litter' /\ litter' \subseteq Nat
  <2>1. keys' \in Nat /\ keys <= keys' /\ 1..keys' = 1..keys /\ 1..keys \subseteq Nat
    BY <1>1, <1>2
  <2>2. objects' \subseteq 1..keys'
    BY <1>1, <1>2, <2>1
  <2>3. litter' \subseteq Nat
    BY <1>1, <1>2, <2>1
  <2>. QED  BY <1>2, <2>1, <2>2, <2>3
<1>. QED  BY <1>2, <1>3, <1>4, <1>5, IdleIsRequest, KeysOfNone, MoveStep

-----------------------------------------------------------------------------
(* The rows of a request become visible *)

Place(p) == IF proc[p].op = "create" THEN Len(ads) + 1 ELSE proc[p].ad
Added(p) ==
  {[ad |-> Place(p), no |-> proc[p].no, sum |-> f.sum, key |-> f.key, seen |-> proc[p].seen] : f \in ToSet(proc[p].stored)}

\* What a transaction is about to add.
LEMMA AddedRows ==
  ASSUME IInv, NEW p \in Apis, proc[p].at = "inserting"
  PROVE  /\ Place(p) \in Nat /\ IsFiniteSet(Added(p)) /\ Added(p) # {} /\ Added(p) \subseteq Row
         /\ \A n \in Added(p) : /\ n.ad = Place(p) /\ n.no = proc[p].no /\ n.seen = proc[p].seen
                                /\ n.key \in Holds(p) /\ n.sum \in Sums(proc[p].stored)
         /\ \A k \in Holds(p) : \E n \in Added(p) : n.key = k
         /\ proc[p].op \in {"create", "revision"}
         /\ proc[p].op = "create" => Place(p) = Len(ads) + 1 /\ proc[p].no = 0
         /\ proc[p].op = "revision" =>
              /\ Place(p) = proc[p].ad /\ Place(p) \in Live
              /\ proc[p].no = 1 + Cardinality(Revised(Place(p)))
              /\ \E n : Added(p) = {n}
<1>. DEFINE st == proc[p].stored
            f == [x \in ToSet(st) |->
                    [ad |-> Place(p), no |-> proc[p].no, sum |-> x.sum, key |-> x.key, seen |-> proc[p].seen]]
<1>1. TypeOK /\ Sound(proc[p]) /\ st \in Seq(Stored) /\ Holds(p) = KeysOf(st)
  BY HoldsTyped
<1>2. /\ proc[p].op \in {"create", "revision"} /\ st # <<>> /\ proc[p].left = <<>>
      /\ proc[p].op = "create" => proc[p].no = 0
      /\ proc[p].op = "revision" =>
           Len(st) + Len(proc[p].left) = 1 /\ proc[p].ad \in Live /\ proc[p].no = 1 + Cardinality(Revised(proc[p].ad))
  BY <1>1 DEF Sound, Building
<1>3. Place(p) \in Nat
  BY <1>1, ProcTypes, AdTypes DEF Place
<1>4. Len(st) \in Nat \ {0} /\ DOMAIN st = 1..Len(st) /\ ToSet(st) = {st[i] : i \in 1..Len(st)}
  BY <1>1, <1>2, LenProperties, EmptySeq DEF ToSet
<1>5. Added(p) = {f[x] : x \in ToSet(st)}
  BY DEF Added
<1>14. DOMAIN f = ToSet(st) /\ \A x \in ToSet(st) : f[x].key = x.key
  OBVIOUS
<1>6. IsFiniteSet(Added(p))
  <2>1. IsFiniteSet(ToSet(st))
    BY <1>1, ToSetIsFinite
  <2>. HIDE DEF f, st
  <2>2. IsFiniteSet({f[x] : x \in ToSet(st)})
    BY <1>14, <2>1, ImageIsFinite
  <2>. QED  BY <1>5, <2>2
<1>7. \A x \in ToSet(st) : x \in Stored /\ x.key \in Holds(p) /\ x.sum \in Sums(st)
  BY <1>1, <1>4, KeysOfStored
<1>8. /\ Added(p) \subseteq Row
      /\ \A n \in Added(p) : /\ n.ad = Place(p) /\ n.no = proc[p].no /\ n.seen = proc[p].seen
                             /\ n.key \in Holds(p) /\ n.sum \in Sums(st)
  BY <1>1, <1>3, <1>7, ProcTypes DEF Added, Row, Stored
<1>. HIDE DEF f
<1>9. \A x \in ToSet(st) : \E n \in Added(p) : n.key = x.key
  BY <1>5, <1>14
<1>10. \A k \in Holds(p) : \E n \in Added(p) : n.key = k
  <2>1. \A k \in Holds(p) : \E x \in ToSet(st) : x.key = k
    BY <1>1, <1>4, KeysOfStored
  <2>. QED  BY <1>9, <2>1
<1>11. Added(p) # {}
  <2>1. 1 \in 1..Len(st)
    BY <1>4
  <2>2. st[1] \in ToSet(st)
    BY <1>4, <2>1
  <2>. QED  BY <1>9, <2>2
<1>12. proc[p].op = "revision" => \E n : Added(p) = {n}
  <2>. SUFFICES ASSUME proc[p].op = "revision" PROVE \E n : Added(p) = {n}
    OBVIOUS
  <2>1. Len(st) = 1
    <3>1. Len(<<>>) = 0 /\ \A n \in Nat : n + 0 = n
      BY EmptySeq
    <3>. QED  BY <1>2, <1>4, <3>1, Zenon
  <2>2. \A i \in 1..Len(st) : i = 1
    BY <2>1
  <2>3. ToSet(st) = {st[1]}
    BY <1>4, <2>1, <2>2
  <2>4. Added(p) = {f[st[1]]}
    BY <1>5, <2>3
  <2>. QED  BY <2>4
<1>13. /\ proc[p].op = "create" => Place(p) = Len(ads) + 1
       /\ proc[p].op = "revision" => Place(p) = proc[p].ad
  BY DEF Place
<1>. QED  BY <1>2, <1>3, <1>6, <1>8, <1>10, <1>11, <1>12, <1>13

\* The advertisements and rows once they are visible.
LEMMA InsertEffect ==
  ASSUME IInv, NEW p \in Apis, proc[p].at = "inserting", Insert(p), engine' = engine
  PROVE  /\ rows' = rows \union Added(p) /\ ads' \in Seq(BOOLEAN)
         /\ DOMAIN ads \subseteq DOMAIN ads' /\ Live' = Live \union {Place(p)}
         /\ Place(p) \in DOMAIN ads' /\ (proc[p].op = "create" => Place(p) \notin DOMAIN ads)
         /\ \A b : b = Place(p) => RowsOf(b)' = RowsOf(b) \union Added(p)
         /\ \A b : b # Place(p) => RowsOf(b)' = RowsOf(b) /\ Revised(b)' = Revised(b)
         /\ \A s \in Registered' : s \in Registered \/ s \in Added(p)
<1>1. TypeOK /\ Filed
  BY DEF IInv
<1>2. /\ \A n \in Added(p) : n.ad = Place(p)
      /\ proc[p].op \in {"create", "revision"}
      /\ proc[p].op = "create" => Place(p) = Len(ads) + 1
      /\ proc[p].op = "revision" => Place(p) \in Live
  BY AddedRows
<1>3. rows' = rows \union Added(p)
  BY DEF Insert, Added, Place
<1>4. /\ Len(ads) \in Nat /\ DOMAIN ads = 1..Len(ads) /\ Live \subseteq DOMAIN ads /\ ads \in Seq(BOOLEAN)
  BY <1>1, AdTypes DEF TypeOK
<1>5. /\ ads' \in Seq(BOOLEAN) /\ DOMAIN ads \subseteq DOMAIN ads' /\ Live' = Live \union {Place(p)}
      /\ Place(p) \in DOMAIN ads' /\ (proc[p].op = "create" => Place(p) \notin DOMAIN ads)
  <2>1. CASE proc[p].op = "create"
    <3>. DEFINE new == Append(ads, FALSE)
    <3>1. ads' = new
      BY <2>1 DEF Insert
    <3>2. /\ new \in Seq(BOOLEAN) /\ DOMAIN new = 1..Len(ads) + 1 /\ new[Len(ads) + 1] = FALSE
          /\ \A i \in 1..Len(ads) : new[i] = ads[i]
      BY <1>4
    <3>. HIDE DEF new
    <3>3. \A i : i \in 1..Len(ads) + 1 <=> i \in 1..Len(ads) \/ i = Len(ads) + 1
      BY <1>4
    <3>4. Len(ads) + 1 \notin 1..Len(ads)
      BY <1>4
    <3>5. Live' = Live \union {Len(ads) + 1}
      BY <1>4, <3>1, <3>2, <3>3, <3>4 DEF Live
    <3>. QED  BY <1>2, <1>4, <2>1, <3>1, <3>2, <3>3, <3>4, <3>5
  <2>2. CASE proc[p].op = "revision"
    <3>1. ads' = ads
      BY <2>2 DEF Insert
    <3>2. Live' = Live
      BY <3>1 DEF Live
    <3>. QED  BY <1>2, <1>4, <2>2, <3>1, <3>2
  <2>. QED  BY <1>2, <2>1, <2>2
<1>6. \A b : b = Place(p) => RowsOf(b)' = RowsOf(b) \union Added(p)
  BY <1>2, <1>3 DEF RowsOf
<1>7. \A b : b # Place(p) => RowsOf(b)' = RowsOf(b) /\ Revised(b)' = Revised(b)
  BY <1>2, <1>3 DEF RowsOf, Revised
<1>8. ASSUME NEW s \in Registered'
      PROVE  s \in Registered \/ s \in Added(p)
  <2>1. s \in rows' /\ (engine = "memory" => s.ad \in Live')
    BY DEF Registered
  <2>2. CASE s \in Added(p)
    BY <2>2
  <2>3. CASE s \in rows
    <3>1. s.ad \in DOMAIN ads
      BY <1>1, <2>3 DEF Filed
    <3>2. engine = "memory" => s.ad \in Live
      BY <1>2, <1>5, <2>1, <3>1
    <3>. QED  BY <2>3, <3>2 DEF Registered
  <2>. QED  BY <1>3, <2>1, <2>2, <2>3
<1>. QED  BY <1>3, <1>5, <1>6, <1>7, <1>8

LEMMA RegisterStep ==
  ASSUME IInv, NEW p \in Apis, proc[p].at = "inserting", Insert(p),
         NEW r \in Request, Becomes(p, r), UNCHANGED <<engine, objects, keys>>, litter' = litter,
         requests' \in Nat, faults' \in Nat,
         r.at \in {"idle", "removing"}, r.at = "idle" <=> r.stored = <<>>, r.seen \subseteq proc[p].seen,
         torn \subseteq torn', torn' \subseteq torn \union Holds(p),
         KeysOf(r.stored) \subseteq Holds(p), KeysOf(r.stored) \subseteq torn'
  PROVE  IInv'
<1>1. TypeOK /\ Issued /\ Own /\ Steps /\ Filed /\ Returned /\ Checked /\ FilesHaveObjects /\ OneHistory
  BY DEF IInv
<1>2. /\ proc' \in [Apis -> Request] /\ proc'[p] = r
      /\ \A q \in Apis : q # p => proc'[q] = proc[q]
  BY <1>1, OneProcess
<1>3. /\ Place(p) \in Nat /\ IsFiniteSet(Added(p)) /\ Added(p) # {} /\ Added(p) \subseteq Row
      /\ \A n \in Added(p) : /\ n.ad = Place(p) /\ n.no = proc[p].no /\ n.seen = proc[p].seen
                             /\ n.key \in Holds(p) /\ n.sum \in Sums(proc[p].stored)
      /\ \A k \in Holds(p) : \E n \in Added(p) : n.key = k
      /\ proc[p].op \in {"create", "revision"}
      /\ proc[p].op = "create" => Place(p) = Len(ads) + 1 /\ proc[p].no = 0
      /\ proc[p].op = "revision" =>
           /\ Place(p) = proc[p].ad /\ Place(p) \in Live
           /\ proc[p].no = 1 + Cardinality(Revised(Place(p)))
           /\ \E n : Added(p) = {n}
  BY AddedRows
<1>4. /\ rows' = rows \union Added(p) /\ ads' \in Seq(BOOLEAN)
      /\ DOMAIN ads \subseteq DOMAIN ads' /\ Live' = Live \union {Place(p)}
      /\ Place(p) \in DOMAIN ads' /\ (proc[p].op = "create" => Place(p) \notin DOMAIN ads)
      /\ \A b : b = Place(p) => RowsOf(b)' = RowsOf(b) \union Added(p)
      /\ \A b : b # Place(p) => RowsOf(b)' = RowsOf(b) /\ Revised(b)' = Revised(b)
      /\ \A s \in Registered' : s \in Registered \/ s \in Added(p)
  BY InsertEffect
<1>5. /\ Holds(p) \subseteq objects /\ Holds(p) \cap Known = {}
      /\ \A q \in Apis : q # p => Holds(p) \cap Holds(q) = {}
  BY <1>1 DEF Own, Building
<1>6. /\ \A q \in Apis : q # p => Holds(q)' = Holds(q)
      /\ Holds(p)' = KeysOf(r.stored)
  BY <1>2 DEF Holds
<1>7. /\ \A s \in rows : s.key \in Known /\ s.seen \subseteq Known
      /\ \A q \in Apis : proc[q].seen \subseteq Known
  BY KnownIs
<1>8. Known' \subseteq Known \union Holds(p)
  <2>. SUFFICES ASSUME NEW k \in Known' PROVE k \in Known \union Holds(p)
    OBVIOUS
  <2>1. k \in torn' \/ (\E s \in rows' : s.key = k \/ k \in s.seen) \/ \E q \in Apis : k \in proc'[q].seen
    BY KnownIs
  <2>2. CASE k \in torn'
    BY <2>2, KnownIs
  <2>3. CASE \E s \in rows' : s.key = k \/ k \in s.seen
    BY <1>3, <1>4, <1>7, <2>3
  <2>4. CASE \E q \in Apis : k \in proc'[q].seen
    BY <1>2, <1>7, <2>4
  <2>. QED  BY <2>1, <2>2, <2>3, <2>4
<1>9. Live \subseteq DOMAIN ads /\ \A s \in rows : s.ad \in DOMAIN ads /\ (s.ad \in Live' => s.ad \in Live)
  BY <1>1, <1>3, <1>4, AdTypes DEF Filed
<1>10. r.at \notin Building /\ \A q \in Apis : proc'[q].at \in Building => q # p
  BY <1>2 DEF Building
<1>11. TypeOK'
  <2>1. Holds(p) \subseteq Nat /\ rows' \subseteq Row
    BY <1>1, <1>3, <1>4, <1>5 DEF TypeOK
  <2>. QED  BY <1>1, <1>2, <1>4, <2>1 DEF TypeOK
<1>12. Issued'
  <2>1. Holds(p) \subseteq 1..keys /\ Known' \subseteq 1..keys
    BY <1>1, <1>8 DEF Issued
  <2>2. \A q \in Apis : (Holds(q)') \subseteq 1..keys
    BY <1>1, <1>6, <2>1 DEF Issued
  <2>3. keys' = keys /\ objects' \subseteq 1..keys
    BY <1>1 DEF Issued
  <2>. QED  BY <2>1, <2>2, <2>3 DEF Issued
<1>13. Own'
  <2>. SUFFICES ASSUME NEW q \in Apis, proc'[q].at \in Building
                PROVE  /\ Holds(q)' \subseteq objects' /\ Holds(q)' \cap Known' = {}
                       /\ \A u \in Apis : u # q => Holds(q)' \cap Holds(u)' = {}
    BY DEF Own
  <2>1. q # p /\ proc[q].at \in Building
    BY <1>2, <1>10
  <2>2. /\ Holds(q) \subseteq objects /\ Holds(q) \cap Known = {}
        /\ \A u \in Apis : u # q => Holds(q) \cap Holds(u) = {}
    BY <1>1, <2>1 DEF Own
  <2>3. Holds(q) \cap Known' = {}
    BY <1>8, <2>1, <2>2
  <2>. QED  BY <1>6, <2>1, <2>2, <2>3
<1>14. \A q \in Apis : q # p /\ proc[q].at = "inserting" /\ proc[q].op = "revision" => proc[q].ad # Place(p)
  <2>. SUFFICES ASSUME NEW q \in Apis, q # p, proc[q].at = "inserting", proc[q].op = "revision"
                PROVE  proc[q].ad # Place(p)
    OBVIOUS
  <2>1. CASE proc[p].op = "revision"
    BY <1>1, <1>3, <2>1 DEF Steps
  <2>2. CASE proc[p].op = "create"
    <3>1. proc[q].ad \in Live
      BY <1>1 DEF Steps
    <3>. QED  BY <1>4, <1>9, <2>2, <3>1
  <2>. QED  BY <1>3, <2>1, <2>2
<1>15. Steps'
  <2>1. ASSUME NEW q \in Apis
        PROVE  /\ proc'[q].at = "idle" => proc'[q].stored = <<>>
               /\ proc'[q].at = "removing" => proc'[q].stored # <<>>
               /\ proc'[q].at \in Building =>
                    /\ proc'[q].op \in {"create", "revision"}
                    /\ proc'[q].stored # <<>> \/ proc'[q].left # <<>>
                    /\ proc'[q].op = "revision" => Len(proc'[q].stored) + Len(proc'[q].left) = 1
    <3>1. CASE q = p
      BY <1>2, <1>10, <3>1
    <3>2. CASE q # p
      BY <1>1, <1>2, <3>2 DEF Steps
    <3>. QED  BY <3>1, <3>2
  <2>2. ASSUME NEW q \in Apis, proc'[q].at = "inserting"
        PROVE  /\ proc'[q].left = <<>>
               /\ proc'[q].op = "create" => proc'[q].no = 0
               /\ proc'[q].op = "revision" => \E b \in Live' :
                    proc'[q].ad = b /\ proc'[q].no = 1 + Cardinality(Revised(b)')
    <3>1. q # p /\ proc'[q] = proc[q]
      BY <1>2, <1>10, <2>2 DEF Building
    <3>2. /\ proc[q].left = <<>>
          /\ proc[q].op = "create" => proc[q].no = 0
          /\ proc[q].op = "revision" => proc[q].ad \in Live /\ proc[q].no = 1 + Cardinality(Revised(proc[q].ad))
      BY <1>1, <2>2, <3>1 DEF Steps
    <3>3. proc[q].op = "revision" => proc[q].ad # Place(p)
      BY <1>14, <2>2, <3>1
    <3>4. ASSUME proc[q].op = "revision"
          PROVE  \E b \in Live' : proc[q].ad = b /\ proc[q].no = 1 + Cardinality(Revised(b)')
      <4>1. PICK b \in Live : b = proc[q].ad
        BY <3>2, <3>4
      <4>2. b # Place(p) /\ b \in Live' /\ Revised(b)' = Revised(b)
        BY <1>4, <3>3, <3>4, <4>1
      <4>3. proc[q].no = 1 + Cardinality(Revised(b))
        BY <3>2, <3>4, <4>1
      <4>. QED  BY <4>1, <4>2, <4>3
    <3>. QED  BY <3>1, <3>2, <3>4
  <2>3. ASSUME NEW q \in Apis, NEW u \in Apis, q # u, proc'[q].at = "inserting", proc'[q].op = "revision",
               proc'[u].at = "inserting", proc'[u].op = "revision"
        PROVE  proc'[q].ad # proc'[u].ad
    <3>1. q # p /\ u # p
      BY <1>10, <2>3 DEF Building
    <3>. QED  BY <1>1, <1>2, <2>3, <3>1 DEF Steps
  <2>. QED  BY <2>1, <2>2, <2>3 DEF Steps
<1>16. Filed'
  <2>1. IsFiniteSet(rows')
    BY <1>1, <1>3, <1>4, FS_Union DEF Filed
  <2>2. \A s \in rows' : s.ad \in DOMAIN ads'
    BY <1>3, <1>4, <1>9
  <2>3. \A s, t \in rows' : s.key = t.key => s.ad = t.ad
    <3>. SUFFICES ASSUME NEW s \in rows', NEW t \in rows', s.key = t.key PROVE s.ad = t.ad
      OBVIOUS
    <3>1. CASE s \in rows /\ t \in rows
      BY <1>1, <3>1 DEF Filed
    <3>2. CASE s \in Added(p) /\ t \in Added(p)
      BY <1>3, <3>2
    <3>3. ~(s \in rows /\ t \in Added(p)) /\ ~(s \in Added(p) /\ t \in rows)
      BY <1>3, <1>5, <1>7
    <3>. QED  BY <1>4, <3>1, <3>2, <3>3
  <2>4. ASSUME NEW a \in Live' PROVE \E s \in RowsOf(a)' : s.no = 0
    <3>1. CASE a # Place(p)
      BY <1>1, <1>4, <3>1 DEF Filed
    <3>2. CASE a = Place(p) /\ proc[p].op = "create"
      BY <1>3, <1>4, <3>2
    <3>3. CASE a = Place(p) /\ proc[p].op = "revision"
      <4>1. \E s \in RowsOf(a) : s.no = 0
        BY <1>1, <1>3, <3>3 DEF Filed
      <4>. QED  BY <1>4, <3>3, <4>1
    <3>. QED  BY <1>3, <3>1, <3>2, <3>3
  <2>. QED  BY <2>1, <2>2, <2>3, <2>4 DEF Filed
<1>17. Returned'
  <2>. SUFFICES ASSUME NEW q \in Apis, NEW s \in rows', s.ad \in Live', s.key \in Holds(q)'
                PROVE  s.key \in torn'
    BY DEF Returned
  <2>1. CASE q = p
    BY <1>6, <2>1
  <2>2. CASE q # p
    <3>1. s.key \in Holds(q)
      BY <1>6, <2>2
    <3>2. s \in rows
      BY <1>3, <1>4, <1>5, <2>2, <3>1
    <3>. QED  BY <1>1, <1>9, <3>1, <3>2 DEF Returned
  <2>. QED  BY <2>1, <2>2
<1>18. Checked'
  <2>. SUFFICES ASSUME NEW q \in Apis, proc'[q].at = "inserting",
                       NEW s \in Registered', s.sum \in Sums(proc'[q].stored)
                PROVE  s.key \notin proc'[q].seen
    BY DEF Checked
  <2>1. q # p /\ proc'[q] = proc[q]
    BY <1>2, <1>10 DEF Building
  <2>2. CASE s \in Registered
    BY <1>1, <2>1, <2>2 DEF Checked
  <2>3. CASE s \in Added(p)
    BY <1>3, <1>5, <1>7, <2>1, <2>3
  <2>. QED  BY <1>4, <2>2, <2>3
<1>19. FilesHaveObjects'
  <2>1. ASSUME NEW s \in rows', s.ad \in Live', s.key \notin torn'
        PROVE  s.key \in objects'
    <3>1. CASE s \in rows
      BY <1>1, <1>9, <2>1, <3>1 DEF FilesHaveObjects
    <3>2. CASE s \in Added(p)
      BY <1>3, <1>5, <3>2
    <3>. QED  BY <1>4, <3>1, <3>2
  <2>2. ASSUME NEW k \in objects'
        PROVE  \/ \E s \in rows' : s.ad \in Live' /\ s.key = k
               \/ \E q \in Apis : k \in Holds(q)'
               \/ k \in litter'
    <3>1. \/ \E s \in rows : s.ad \in Live /\ s.key = k
          \/ \E q \in Apis : k \in Holds(q)
          \/ k \in litter
      BY <1>1 DEF FilesHaveObjects, InHand, Holds
    <3>2. CASE k \in Holds(p)
      BY <1>3, <1>4, <3>2
    <3>3. CASE k \notin Holds(p)
      BY <1>4, <1>6, <3>1, <3>3
    <3>. QED  BY <3>2, <3>3
  <2>. QED  BY <2>1, <2>2 DEF FilesHaveObjects, InHand, Holds
<1>20. ASSUME NEW a \in Live'
       PROVE  {s.no : s \in Revised(a)'} = 1..Cardinality(Revised(a)')
  <2>1. CASE a # Place(p)
    BY <1>1, <1>4, <2>1 DEF OneHistory, Revised
  <2>2. CASE a = Place(p) /\ proc[p].op = "create"
    <3>1. Revised(a)' = {}
      <4>1. RowsOf(a)' = Added(p)
        BY <1>4, <1>9, <2>2 DEF RowsOf
      <4>. QED  BY <1>3, <2>2, <4>1 DEF Revised
    <3>2. Cardinality(Revised(a)') = 0 /\ 1..0 = {}
      BY <3>1, FS_EmptySet
    <3>. QED  BY <3>1, <3>2
  <2>3. CASE a = Place(p) /\ proc[p].op = "revision"
    <3>1. PICK n : Added(p) = {n}
      BY <1>3, <2>3
    <3>2. PICK c \in Nat : c = Cardinality(Revised(a)) /\ {s.no : s \in Revised(a)} = 1..c /\ IsFiniteSet(Revised(a))
      BY <1>3, <2>3, LastRevision
    <3>3. n.no = c + 1
      BY <1>3, <2>3, <3>1, <3>2
    <3>4. n \notin Revised(a)
      <4>1. \A s \in Revised(a) : s.no \in {t.no : t \in Revised(a)}
        OBVIOUS
      <4>2. c + 1 \notin 1..c
        OBVIOUS
      <4>. QED  BY <3>2, <3>3, <4>1, <4>2, Zenon
    <3>5. Revised(a)' = Revised(a) \union {n}
      <4>1. RowsOf(a)' = RowsOf(a) \union {n}
        BY <1>4, <2>3, <3>1
      <4>. QED  BY <3>3, <4>1 DEF Revised
    <3>6. Cardinality(Revised(a)') = c + 1
      <4>1. Cardinality(Revised(a) \union {n}) = Cardinality(Revised(a)) + 1
        BY <3>2, <3>4, FS_AddElement, Zenon
      <4>. QED  BY <3>2, <3>5, <4>1, Zenon
    <3>7. 1..c + 1 = 1..c \union {c + 1}
      OBVIOUS
    <3>8. {s.no : s \in Revised(a) \union {n}} = {s.no : s \in Revised(a)} \union {n.no}
      OBVIOUS
    <3>. QED  BY <3>2, <3>3, <3>5, <3>6, <3>7, <3>8
  <2>. QED  BY <1>3, <2>1, <2>2, <2>3
<1>21. ASSUME NEW s \in Registered', NEW t \in Registered', s.sum = t.sum
       PROVE  t.key \notin s.seen
  <2>1. Registered \subseteq rows
    BY DEF Registered
  <2>2. CASE t \in Added(p)
    BY <1>3, <1>4, <1>5, <1>7, <2>1, <2>2
  <2>3. CASE s \in Added(p) /\ t \in Registered
    BY <1>1, <1>3, <1>21, <2>3 DEF Checked
  <2>4. CASE s \in Registered /\ t \in Registered
    BY <1>1, <1>21, <2>4 DEF OneHistory
  <2>. QED  BY <1>4, <2>2, <2>3, <2>4
<1>22. OneHistory'
  BY <1>20, <1>21 DEF OneHistory, Revised
<1>. QED  BY <1>11, <1>12, <1>13, <1>15, <1>16, <1>17, <1>18, <1>19, <1>22 DEF IInv

LEMMA CommitKeeps ==
  ASSUME IInv, NEW p \in Apis, Commit(p)
  PROVE  IInv'
<1>1. TypeOK
  BY DEF IInv
<1>2. /\ proc[p].at = "inserting" /\ Insert(p) /\ Becomes(p, Idle) /\ UNCHANGED <<engine, objects, keys>>
      /\ litter' = litter /\ torn' = torn /\ requests' \in Nat /\ faults' \in Nat
  BY <1>1 DEF Commit, TypeOK
<1>. QED  BY <1>2, IdleIsRequest, KeysOfNone, RegisterStep

LEMMA CommitAnswerLostKeeps ==
  ASSUME IInv, NEW p \in Apis, CommitAnswerLost(p)
  PROVE  IInv'
<1>1. TypeOK /\ Holds(p) = KeysOf(proc[p].stored)
  BY HoldsTyped
<1>2. PICK r \in Request :
        /\ Becomes(p, r) /\ r.stored = proc[p].stored /\ r.seen = proc[p].seen
        /\ r.at \in {"idle", "removing"}
        /\ r.at = "idle" <=> r.stored = <<>>
  BY <1>1, Failing DEF CommitAnswerLost
<1>3. /\ proc[p].at = "inserting" /\ Insert(p) /\ UNCHANGED <<engine, objects, keys>> /\ litter' = litter
      /\ torn' = torn \union Holds(p) /\ requests' \in Nat /\ faults' \in Nat
  BY <1>1 DEF CommitAnswerLost, TypeOK, Fault
<1>4. KeysOf(r.stored) = Holds(p)
  BY <1>1, <1>2
<1>. QED  BY <1>2, <1>3, <1>4, RegisterStep

-----------------------------------------------------------------------------
(* An advertisement is deleted *)

\* The files that a deletion takes back are those of its rows.
LEMMA FilesOfRows ==
  ASSUME IInv, NEW a \in Live
  PROVE  \E s \in Seq(Stored) :
           /\ s = SetToSeq({[sum |-> t.sum, key |-> t.key] : t \in RowsOf(a)})
           /\ s # <<>> /\ KeysOf(s) = {t.key : t \in RowsOf(a)}
<1>. DEFINE f == [t \in RowsOf(a) |-> [sum |-> t.sum, key |-> t.key]]
            F == {[sum |-> t.sum, key |-> t.key] : t \in RowsOf(a)}
            s == SetToSeq(F)
<1>1. TypeOK /\ Filed
  BY DEF IInv
<1>2. RowsOf(a) \subseteq rows /\ \E t \in RowsOf(a) : t.no = 0
  BY <1>1 DEF RowsOf, Filed
<1>3. IsFiniteSet(RowsOf(a))
  BY <1>1, <1>2, FS_Subset DEF Filed
<1>4. F = {f[t] : t \in RowsOf(a)} /\ DOMAIN f = RowsOf(a)
  OBVIOUS
<1>5. F \subseteq Stored /\ {x.key : x \in F} = {t.key : t \in RowsOf(a)}
  <2>1. \A t \in RowsOf(a) : t.sum \in Uploaded /\ t.key \in Nat
    BY <1>1, <1>2, AdTypes
  <2>2. \A t \in RowsOf(a) : f[t] \in Stored /\ f[t].key = t.key
    BY <2>1 DEF Stored
  <2>. HIDE DEF f, F
  <2>. QED  BY <1>4, <2>2
<1>6. IsFiniteSet(F)
  <2>. HIDE DEF f, F
  <2>1. IsFiniteSet({f[t] : t \in RowsOf(a)})
    BY <1>3, <1>4, ImageIsFinite
  <2>. QED  BY <1>4, <2>1
<1>7. F # {}
  BY <1>2
<1>. HIDE DEF f, F
<1>8. s \in Seq(F) /\ {s[i] : i \in DOMAIN s} = F
  BY <1>6, SequenceOfSet
<1>9. s \in Seq(Stored)
  BY <1>5, <1>8, SeqMonotonic
<1>. HIDE DEF s
<1>10. KeysOf(s) = {t.key : t \in RowsOf(a)}
  <2>1. KeysOf(s) = {x.key : x \in {s[i] : i \in DOMAIN s}}
    BY DEF KeysOf
  <2>. QED  BY <1>5, <1>8, <2>1
<1>11. s # <<>>
  BY <1>2, <1>10, KeysOfNone
<1>. QED  BY <1>9, <1>10, <1>11 DEF s, F

LEMMA DeleteKeeps ==
  ASSUME IInv, NEW p \in Apis, NEW a \in Live, Delete(p, a)
  PROVE  IInv'
<1>1. TypeOK /\ Issued /\ Own /\ Steps /\ Filed /\ Returned /\ Checked /\ FilesHaveObjects /\ OneHistory
  BY DEF IInv
<1>2. PICK s \in Seq(Stored) :
        /\ s = SetToSeq({[sum |-> t.sum, key |-> t.key] : t \in RowsOf(a)})
        /\ s # <<>> /\ KeysOf(s) = {t.key : t \in RowsOf(a)}
  BY FilesOfRows
<1>. DEFINE r == [Idle EXCEPT !.at = "removing", !.op = "delete", !.stored = s]
<1>3. /\ r \in Request /\ r.at = "removing" /\ r.stored = s /\ r.seen = {}
  <2>1. <<>> \in Seq(Uploaded)
    BY EmptySeq
  <2>. QED  BY <2>1 DEF Request, Idle
<1>4. /\ Becomes(p, r) /\ UNCHANGED <<engine, objects, keys, faults, litter, torn>>
      /\ proc[p].at = "idle" /\ requests' = requests + 1 /\ ~Locked(a)
      /\ ads' = [ads EXCEPT ![a] = TRUE]
      /\ rows' = IF engine = "memory" THEN rows \ RowsOf(a) ELSE rows
  BY <1>2 DEF Delete, Accepts
<1>. HIDE DEF r
<1>5. /\ proc' \in [Apis -> Request] /\ proc'[p] = r
      /\ \A q \in Apis : q # p => proc'[q] = proc[q]
  BY <1>1, <1>3, <1>4, OneProcess
<1>6. Holds(p) = {}
  BY <1>1, <1>4, KeysOfNone DEF Steps, Holds
<1>7. /\ \A q \in Apis : q # p => Holds(q)' = Holds(q)
      /\ Holds(p)' = {t.key : t \in RowsOf(a)}
  BY <1>2, <1>3, <1>5 DEF Holds
<1>8. /\ rows' \subseteq rows /\ \A t \in rows : t.ad # a => t \in rows'
      /\ \A b : b # a => RowsOf(b)' = RowsOf(b) /\ Revised(b)' = Revised(b)
  BY <1>4 DEF RowsOf, Revised
<1>9. ads' \in Seq(BOOLEAN) /\ DOMAIN ads' = DOMAIN ads /\ Live' = Live \ {a}
  <2>1. Len(ads) \in Nat /\ DOMAIN ads = 1..Len(ads) /\ a \in DOMAIN ads /\ ads \in Seq(BOOLEAN)
    BY <1>1, AdTypes DEF TypeOK
  <2>2. ads \in [1..Len(ads) -> BOOLEAN]
    BY <2>1, LenProperties
  <2>3. ads' \in [1..Len(ads) -> BOOLEAN]
    BY <1>4, <2>2
  <2>4. ads' \in Seq(BOOLEAN)
    BY <2>1, <2>3, SeqDef
  <2>5. \A i \in DOMAIN ads : ads'[i] = IF i = a THEN TRUE ELSE ads[i]
    BY <1>4
  <2>6. DOMAIN ads' = DOMAIN ads
    BY <1>4
  <2>. QED  BY <2>4, <2>5, <2>6 DEF Live
<1>10. Registered' \subseteq Registered
  BY <1>4, <1>8, <1>9 DEF Registered
<1>11. \A t \in rows : t.key \in Known /\ t.seen \subseteq Known
  BY KnownIs
<1>12. Known' \subseteq Known
  <2>. SUFFICES ASSUME NEW k \in Known' PROVE k \in Known
    OBVIOUS
  <2>1. k \in torn \/ (\E t \in rows' : t.key = k \/ k \in t.seen) \/ \E q \in Apis : k \in proc'[q].seen
    BY <1>4, KnownIs
  <2>2. \A q \in Apis : proc'[q].seen \subseteq proc[q].seen
    BY <1>3, <1>5
  <2>. QED  BY <1>8, <2>1, <2>2, KnownIs
<1>13. TypeOK'
  BY <1>1, <1>4, <1>5, <1>8, <1>9 DEF TypeOK
<1>14. Holds(p)' \subseteq Known
  BY <1>7, <1>11 DEF RowsOf
<1>15. Issued'
  <2>1. \A q \in Apis : (Holds(q)') \subseteq 1..keys
    BY <1>1, <1>7, <1>14 DEF Issued
  <2>2. keys' = keys /\ objects' \subseteq 1..keys /\ Known' \subseteq 1..keys
    BY <1>1, <1>4, <1>12 DEF Issued
  <2>. QED  BY <2>1, <2>2 DEF Issued
<1>16. \A q \in Apis : proc'[q].at \in Building => q # p
  BY <1>3, <1>5 DEF Building
<1>17. Own'
  <2>. SUFFICES ASSUME NEW q \in Apis, proc'[q].at \in Building
                PROVE  /\ Holds(q)' \subseteq objects' /\ Holds(q)' \cap Known' = {}
                       /\ \A u \in Apis : u # q => Holds(q)' \cap Holds(u)' = {}
    BY DEF Own
  <2>1. q # p /\ proc[q].at \in Building
    BY <1>5, <1>16
  <2>2. /\ Holds(q) \subseteq objects /\ Holds(q) \cap Known = {}
        /\ \A u \in Apis : u # q => Holds(q) \cap Holds(u) = {}
    BY <1>1, <2>1 DEF Own
  <2>3. Holds(q) \cap Known' = {} /\ Holds(q) \cap Holds(p)' = {}
    BY <1>12, <1>14, <2>2
  <2>. QED  BY <1>4, <1>7, <2>1, <2>2, <2>3
<1>18. Steps'
  <2>1. ASSUME NEW q \in Apis
        PROVE  /\ proc'[q].at = "idle" => proc'[q].stored = <<>>
               /\ proc'[q].at = "removing" => proc'[q].stored # <<>>
               /\ proc'[q].at \in Building =>
                    /\ proc'[q].op \in {"create", "revision"}
                    /\ proc'[q].stored # <<>> \/ proc'[q].left # <<>>
                    /\ proc'[q].op = "revision" => Len(proc'[q].stored) + Len(proc'[q].left) = 1
    <3>1. CASE q = p
      BY <1>2, <1>3, <1>5, <1>16, <3>1
    <3>2. CASE q # p
      <4>1. proc'[q] = proc[q] /\ Sound(proc[q])
        BY <1>1, <1>5, <3>2, SoundSteps
      <4>. QED  BY <4>1 DEF Sound
    <3>. QED  BY <3>1, <3>2
  <2>2. ASSUME NEW q \in Apis, proc'[q].at = "inserting"
        PROVE  /\ proc'[q].left = <<>>
               /\ proc'[q].op = "create" => proc'[q].no = 0
               /\ proc'[q].op = "revision" => \E b \in Live' :
                    proc'[q].ad = b /\ proc'[q].no = 1 + Cardinality(Revised(b)')
    <3>1. q # p /\ proc'[q] = proc[q]
      BY <1>5, <1>16, <2>2 DEF Building
    <3>2. /\ proc[q].left = <<>>
          /\ proc[q].op = "create" => proc[q].no = 0
          /\ proc[q].op = "revision" => proc[q].ad \in Live /\ proc[q].no = 1 + Cardinality(Revised(proc[q].ad))
      BY <1>1, <2>2, <3>1 DEF Steps
    <3>3. proc[q].op = "revision" => proc[q].ad # a
      BY <1>4, <2>2, <3>1 DEF Locked
    <3>4. ASSUME proc[q].op = "revision"
          PROVE  \E b \in Live' : proc[q].ad = b /\ proc[q].no = 1 + Cardinality(Revised(b)')
      <4>1. PICK b \in Live : b = proc[q].ad
        BY <3>2, <3>4
      <4>2. b # a /\ b \in Live' /\ Revised(b)' = Revised(b)
        BY <1>8, <1>9, <3>3, <3>4, <4>1
      <4>3. proc[q].no = 1 + Cardinality(Revised(b))
        BY <3>2, <3>4, <4>1
      <4>. QED  BY <4>1, <4>2, <4>3
    <3>. QED  BY <3>1, <3>2, <3>4
  <2>3. ASSUME NEW q \in Apis, NEW u \in Apis, q # u, proc'[q].at = "inserting", proc'[q].op = "revision",
               proc'[u].at = "inserting", proc'[u].op = "revision"
        PROVE  proc'[q].ad # proc'[u].ad
    <3>1. q # p /\ u # p
      BY <1>16, <2>3 DEF Building
    <3>. QED  BY <1>1, <1>5, <2>3, <3>1 DEF Steps
  <2>. QED  BY <2>1, <2>2, <2>3 DEF Steps
<1>19. Filed'
  <2>1. IsFiniteSet(rows')
    BY <1>1, <1>8, FS_Subset DEF Filed
  <2>2. /\ \A t \in rows' : t.ad \in DOMAIN ads'
        /\ \A t, u \in rows' : t.key = u.key => t.ad = u.ad
    BY <1>1, <1>8, <1>9 DEF Filed
  <2>3. ASSUME NEW b \in Live' PROVE \E t \in RowsOf(b)' : t.no = 0
    <3>1. b # a /\ b \in Live
      BY <1>9
    <3>. QED  BY <1>1, <1>8, <3>1 DEF Filed
  <2>. QED  BY <2>1, <2>2, <2>3 DEF Filed
<1>20. Returned'
  <2>. SUFFICES ASSUME NEW q \in Apis, NEW t \in rows', t.ad \in Live', t.key \in Holds(q)'
                PROVE  t.key \in torn'
    BY DEF Returned
  <2>1. t \in rows /\ t.ad \in Live /\ t.ad # a
    BY <1>8, <1>9
  <2>2. CASE q = p
    BY <1>1, <1>7, <2>1, <2>2 DEF RowsOf, Filed
  <2>3. CASE q # p
    BY <1>1, <1>4, <1>7, <2>1, <2>3 DEF Returned
  <2>. QED  BY <2>2, <2>3
<1>21. Checked'
  <2>. SUFFICES ASSUME NEW q \in Apis, proc'[q].at = "inserting",
                       NEW t \in Registered', t.sum \in Sums(proc'[q].stored)
                PROVE  t.key \notin proc'[q].seen
    BY DEF Checked
  <2>1. q # p /\ proc'[q] = proc[q]
    BY <1>5, <1>16 DEF Building
  <2>. QED  BY <1>1, <1>10, <2>1 DEF Checked
<1>22. FilesHaveObjects'
  <2>1. \A t \in rows' : t.ad \in Live' /\ t.key \notin torn' => t.key \in objects'
    BY <1>1, <1>4, <1>8, <1>9 DEF FilesHaveObjects
  <2>2. ASSUME NEW k \in objects'
        PROVE  \/ \E t \in rows' : t.ad \in Live' /\ t.key = k
               \/ \E q \in Apis : k \in Holds(q)'
               \/ k \in litter'
    <3>1. \/ \E t \in rows : t.ad \in Live /\ t.key = k
          \/ \E q \in Apis : k \in Holds(q)
          \/ k \in litter
      BY <1>1, <1>4 DEF FilesHaveObjects, InHand, Holds
    <3>2. ASSUME NEW t \in rows, t.ad \in Live, t.key = k
          PROVE  (\E u \in rows' : u.ad \in Live' /\ u.key = k) \/ k \in Holds(p)'
      BY <1>7, <1>8, <1>9, <3>2 DEF RowsOf
    <3>3. \A q \in Apis : k \in Holds(q) => k \in Holds(q)'
      BY <1>6, <1>7
    <3>. QED  BY <1>4, <3>1, <3>2, <3>3
  <2>. QED  BY <2>1, <2>2 DEF FilesHaveObjects, InHand, Holds
<1>23. OneHistory'
  <2>1. ASSUME NEW b \in Live'
        PROVE  {t.no : t \in Revised(b)'} = 1..Cardinality(Revised(b)')
    <3>1. b # a /\ b \in Live
      BY <1>9
    <3>2. {t.no : t \in Revised(b)} = 1..Cardinality(Revised(b))
      BY <1>1, <3>1 DEF OneHistory, Revised
    <3>. QED  BY <1>8, <3>1, <3>2
  <2>2. \A t, u \in Registered' : t.sum = u.sum => u.key \notin t.seen
    BY <1>1, <1>10 DEF OneHistory
  <2>. QED  BY <2>1, <2>2 DEF OneHistory, Revised
<1>. QED  BY <1>13, <1>15, <1>17, <1>18, <1>19, <1>20, <1>21, <1>22, <1>23 DEF IInv

-----------------------------------------------------------------------------
(* The specification *)

LEMMA InitHolds ==
  ASSUME Init
  PROVE  IInv
<1>1. /\ engine \in {"memory", "postgres"}
      /\ ads = <<>> /\ rows = {} /\ objects = {} /\ litter = {} /\ torn = {}
      /\ proc = [p \in Apis |-> Idle]
      /\ keys = 0 /\ requests = 0 /\ faults = 0
  BY DEF Init
<1>2. /\ \A p \in Apis : proc[p] = Idle /\ Holds(p) = {}
      /\ proc \in [Apis -> Request]
  BY <1>1, IdleIsRequest, KeysOfNone DEF Holds
<1>3. Live = {} /\ Registered = {} /\ IsFiniteSet(rows)
  <2>1. DOMAIN ads = {}
    BY <1>1, EmptySeq
  <2>. QED  BY <1>1, <2>1, FS_EmptySet DEF Live, Registered
<1>4. Known = {}
  BY <1>1, <1>2, IdleIsRequest, KnownIs
<1>5. TypeOK
  BY <1>1, <1>2, EmptySeq DEF TypeOK
<1>6. Issued /\ Own /\ Steps
  BY <1>1, <1>2, <1>4, IdleIsRequest DEF Issued, Own, Steps, Building
<1>7. Filed /\ Returned /\ Checked
  BY <1>1, <1>2, <1>3, IdleIsRequest DEF Filed, Returned, Checked
<1>8. FilesHaveObjects /\ OneHistory
  BY <1>1, <1>3 DEF FilesHaveObjects, OneHistory
<1>. QED  BY <1>5, <1>6, <1>7, <1>8 DEF IInv

LEMMA NextKeeps ==
  ASSUME UploadsAreFiles, IInv, [Next]_vars
  PROVE  IInv'
<1>1. CASE UNCHANGED vars
  <2>1. UNCHANGED <<engine, ads, rows, objects, proc, keys, requests, faults, litter, torn>>
    BY <1>1 DEF vars
  <2>2. /\ Live' = Live /\ Registered' = Registered
        /\ \A a : RowsOf(a)' = RowsOf(a) /\ Revised(a)' = Revised(a)
        /\ \A p : Holds(p)' = Holds(p)
    BY <2>1 DEF Live, Registered, RowsOf, Revised, Holds
  <2>3. Known' = Known
    BY <2>1 DEF Known, Filled, SeenByRows, SeenByRequests
  <2>4. TypeOK' /\ Issued' /\ Own'
    BY <2>1, <2>2, <2>3 DEF IInv, TypeOK, Issued, Own
  <2>5. Steps'
    BY <2>1, <2>2 DEF IInv, Steps
  <2>6. Filed' /\ Returned' /\ Checked'
    BY <2>1, <2>2 DEF IInv, Filed, Returned, Checked
  <2>7. FilesHaveObjects'
    BY <2>1, <2>2 DEF IInv, FilesHaveObjects, InHand, Holds
  <2>8. OneHistory'
    BY <2>2 DEF IInv, OneHistory, Revised
  <2>. QED  BY <2>4, <2>5, <2>6, <2>7, <2>8 DEF IInv
<1>2. ASSUME NEW p \in Apis, NEW uploads \in Uploads, Create(p, uploads)
      PROVE  IInv'
  BY <1>2, CreateKeeps
<1>3. ASSUME NEW p \in Apis, NEW a \in Live, NEW uploads \in Uploads, CreateRevision(p, a, Head(uploads))
      PROVE  IInv'
  BY <1>3, CreateRevisionKeeps
<1>4. ASSUME NEW p \in Apis, NEW a \in Live, Delete(p, a)
      PROVE  IInv'
  BY <1>4, DeleteKeeps
<1>5. ASSUME NEW p \in Apis, Store(p) \/ StoreFails(p) \/ Check(p)
      PROVE  IInv'
  BY <1>5, StoreKeeps, StoreFailsKeeps, CheckKeeps
<1>6. ASSUME NEW p \in Apis, Commit(p) \/ CommitFails(p) \/ CommitAnswerLost(p)
      PROVE  IInv'
  BY <1>6, CommitKeeps, CommitFailsKeeps, CommitAnswerLostKeeps
<1>7. ASSUME NEW p \in Apis, RemoveObject(p) \/ Abandon(p)
      PROVE  IInv'
  BY <1>7, RemoveObjectKeeps, AbandonKeeps
<1>. QED  BY <1>1, <1>2, <1>3, <1>4, <1>5, <1>6, <1>7 DEF Next

\* Every value has its type (the tables and requests of AdvertisementService).
THEOREM Types ==
  ASSUME UploadsAreFiles
  PROVE  Spec => []TypeOK
<1>1. IInv => TypeOK
  BY DEF IInv
<1>. QED  BY <1>1, InitHolds, NextKeeps, PTL DEF Spec

\* For every number of processes, requests and faults, and whatever is uploaded:
\* a file of a visible advertisement has its object unless the answer to its
\* commit was lost, every object belongs to such a file, to a request or to a
\* fault, revisions are numbered without a gap, and two files of one checksum
\* were registered without sight of each other (services.py:266-440,
\* repository.py:426-538).
THEOREM RegistrationsHold ==
  ASSUME UploadsAreFiles
  PROVE  Spec => []RegistrationsStand
<1>1. IInv => RegistrationsStand
  BY DEF IInv, RegistrationsStand
<1>. QED  BY <1>1, InitHolds, NextKeeps, PTL DEF Spec
=============================================================================
