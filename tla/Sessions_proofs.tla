---------------------------- MODULE Sessions_proofs ----------------------------
(***************************************************************************)
(* Proofs about Sessions for every number of processes, attempts and       *)
(* requests: a login keeps one live session, none after a replay that no   *)
(* rotation overlapped, and an account is locked only after as many        *)
(* refusals as the threshold.                                              *)
(***************************************************************************)
EXTENDS Sessions, FiniteSetTheorems, SequenceTheorems, TLAPS

Session == [login : Nat, revoked : BOOLEAN, expired : BOOLEAN, version : {1, 2}]
Stages == {"idle", "password", "saving", "refresh", "inserting", "lost", "reuse", "stale", "logout"}
Presents == {"refresh", "inserting", "lost", "reuse", "stale", "logout"}
Issues == {"password", "saving", "refresh", "inserting"}
Request ==
  [at : Stages, token : Nat,
   revoked : BOOLEAN, expired : BOOLEAN, version : {0, 1, 2}, count : Nat]

TypeOK ==
  /\ sessions \in Seq(Session) /\ version \in {1, 2}
  /\ failures \in Nat /\ locked \in {"unset", "future", "past"} /\ failed \in Nat
  /\ attempts \in [Apis -> Nat] /\ proc \in [Apis -> Request]
  /\ replayed \subseteq Nat

-----------------------------------------------------------------------------
(* The inductive invariant *)

\* A session belongs to a login whose first session was stored, a process that
\* presents a token has found its session, and the user of a login is known.
Rooted ==
  /\ \A s \in DOMAIN sessions : sessions[s].login \in DOMAIN sessions
  /\ replayed \subseteq DOMAIN sessions
  /\ \A p \in Apis : proc[p].at \in Presents => proc[p].token \in DOMAIN sessions
  /\ \A p \in Apis : proc[p].at \in Issues => proc[p].version # 0

OneLive == \A s, t \in DOMAIN sessions : sessions[s].login = sessions[t].login /\ Live(s) /\ Live(t) => s = t

\* A session that a rotation holds is live until the rotation commits, and no
\* other rotation holds it.
Holding ==
  \A p \in Apis : proc[p].at = "inserting" =>
    /\ Live(proc[p].token)
    /\ \A q \in Apis : proc[q].at = "inserting" /\ proc[q].token = proc[p].token => q = p
Spent == \A s \in DOMAIN sessions : sessions[s].login \in replayed => ~Live(s)

\* Every failure that is counted, or that a request will count on, was a refusal.
Counted ==
  /\ failures <= failed
  /\ \A p \in Apis : proc[p].at = "password" => proc[p].count <= failed
  /\ locked # "unset" => failed >= Threshold

IInv == TypeOK /\ Rooted /\ OneLive /\ Holding /\ Spent /\ Counted

-----------------------------------------------------------------------------
(* Operators and steps *)

USE DEF Stages, Presents, Issues

LEMMA IdleIsRequest == Idle \in Request
BY DEF Idle, Request

\* What a login, or a refresh or logout, keeps of what it reads.
OfLogin(v, n, e) == [Idle EXCEPT !.at = "password", !.version = v, !.count = n, !.expired = e]
OfToken(op, s, d, e, v) ==
  [Idle EXCEPT !.at = op, !.token = s, !.revoked = d, !.expired = e, !.version = v]

LEMMA LoginIsRequest ==
  ASSUME NEW v \in {1, 2}, NEW n \in Nat, NEW e \in BOOLEAN
  PROVE  /\ OfLogin(v, n, e) \in Request /\ OfLogin(v, n, e).at = "password"
         /\ OfLogin(v, n, e).version = v /\ OfLogin(v, n, e).count = n
BY DEF Idle, Request, OfLogin

LEMMA TokenIsRequest ==
  ASSUME NEW op \in {"refresh", "logout"}, NEW s \in Nat, NEW d \in BOOLEAN, NEW e \in BOOLEAN, NEW v \in {1, 2}
  PROVE  /\ OfToken(op, s, d, e, v) \in Request /\ OfToken(op, s, d, e, v).at = op
         /\ OfToken(op, s, d, e, v).token = s /\ OfToken(op, s, d, e, v).version = v
BY DEF Idle, Request, OfToken

\* The types of what a process has read.
LEMMA ProcTypes ==
  ASSUME TypeOK, NEW p \in Apis
  PROVE  /\ proc[p] \in Request
         /\ proc[p].at \in Stages
         /\ proc[p].token \in Nat /\ proc[p].count \in Nat
         /\ proc[p].revoked \in BOOLEAN /\ proc[p].expired \in BOOLEAN
         /\ proc[p].version \in {0, 1, 2}
BY DEF TypeOK, Request

LEMMA SessionTypes ==
  ASSUME TypeOK
  PROVE  /\ Len(sessions) \in Nat /\ DOMAIN sessions = 1..Len(sessions)
         /\ \A s \in DOMAIN sessions : /\ sessions[s] \in Session
                                       /\ sessions[s].login \in Nat /\ sessions[s].revoked \in BOOLEAN
<1>1. sessions \in Seq(Session)
  BY DEF TypeOK
<1>2. Len(sessions) \in Nat /\ DOMAIN sessions = 1..Len(sessions)
  BY <1>1, LenProperties
<1>3. \A s \in DOMAIN sessions : sessions[s] \in Session
  BY <1>1, <1>2, ElementOfSeq
<1>. QED  BY <1>2, <1>3 DEF Session

\* A process takes over one request and leaves those of the others.
LEMMA OneProcess ==
  ASSUME TypeOK, NEW p \in Apis, NEW r \in Request, Becomes(p, r)
  PROVE  /\ proc' \in [Apis -> Request] /\ proc'[p] = r
         /\ \A q \in Apis : q # p => proc'[q] = proc[q]
BY DEF TypeOK, Becomes

\* The sessions stay, with their logins, none of them comes back, and those
\* that rotations hold stay live.
Fades ==
  /\ sessions' \in Seq(Session) /\ DOMAIN sessions' = DOMAIN sessions
  /\ \A s \in DOMAIN sessions :
       /\ sessions'[s].login = sessions[s].login
       /\ sessions[s].revoked => sessions'[s].revoked
       /\ Held(s) /\ sessions'[s].revoked => sessions[s].revoked
\* The logins that become replayed have no session left.
NewlySpent == \A s \in DOMAIN sessions : sessions[s].login \in replayed' \ replayed => sessions'[s].revoked

LEMMA StayFades ==
  ASSUME TypeOK, UNCHANGED sessions
  PROVE  Fades
BY DEF TypeOK, Fades

LEMMA RevokeAllFades ==
  ASSUME TypeOK, NEW p \in Apis, RevokeAll(p)
  PROVE  Fades /\ NewlySpent
<1>. DEFINE e(s) == [sessions[s] EXCEPT !.revoked = @ \/ s <= proc[p].count]
<1>1. \A s \in DOMAIN sessions :
        /\ e(s) \in Session /\ e(s).login = sessions[s].login
        /\ e(s).revoked <=> sessions[s].revoked \/ s <= proc[p].count
  BY SessionTypes DEF Session
<1>2. [s \in 1..Len(sessions) |-> e(s)] \in Seq(Session)
  <2>1. \A s \in 1..Len(sessions) : e(s) \in Session
    BY <1>1, SessionTypes
  <2>2. Len(sessions) \in Nat
    BY SessionTypes
  <2>. HIDE DEF e
  <2>. QED  BY <2>1, <2>2, IsASeq
<1>3. sessions' = [s \in DOMAIN sessions |-> e(s)]
  BY DEF RevokeAll
<1>. HIDE DEF e
<1>4. DOMAIN sessions = 1..Len(sessions) /\ Len(sessions) \in Nat /\ proc[p].count \in Nat
  BY SessionTypes, ProcTypes
<1>5. \A s \in DOMAIN sessions : Held(s) /\ sessions'[s].revoked => sessions[s].revoked
  <2>. SUFFICES ASSUME NEW s \in DOMAIN sessions, Held(s), sessions'[s].revoked
                PROVE  sessions[s].revoked
    OBVIOUS
  <2>1. ~(s <= proc[p].count)
    BY <1>4 DEF RevokeAll
  <2>. QED  BY <1>1, <1>3, <2>1
<1>6. Fades
  BY <1>1, <1>2, <1>3, <1>4, <1>5 DEF Fades
<1>7. NewlySpent
  <2>. SUFFICES ASSUME NEW s \in DOMAIN sessions, sessions[s].login \in replayed' \ replayed
                PROVE  sessions'[s].revoked
    BY DEF NewlySpent
  <2>1. s <= proc[p].count
    BY DEF RevokeAll
  <2>. QED  BY <1>1, <1>3, <2>1
<1>. QED  BY <1>6, <1>7

LEMMA RevokeFades ==
  ASSUME TypeOK, NEW s \in DOMAIN sessions, ~Held(s), sessions' = [sessions EXCEPT ![s].revoked = TRUE]
  PROVE  Fades
<1>1. [sessions[s] EXCEPT !.revoked = TRUE] \in Session
  BY SessionTypes DEF Session
<1>2. sessions' = [sessions EXCEPT ![s] = [sessions[s] EXCEPT !.revoked = TRUE]]
  OBVIOUS
<1>3. sessions \in Seq(Session) /\ s \in 1..Len(sessions)
  BY SessionTypes DEF TypeOK
<1>4. sessions' \in Seq(Session)
  BY <1>1, <1>2, <1>3, ExceptSeq
<1>5. \A t \in DOMAIN sessions : /\ sessions'[t].login = sessions[t].login
                                 /\ sessions[t].revoked => sessions'[t].revoked
                                 /\ Held(t) /\ sessions'[t].revoked => sessions[t].revoked
  BY SessionTypes DEF Session
<1>. QED  BY <1>4, <1>5 DEF Fades

LEMMA ExpireFades ==
  ASSUME TypeOK, NEW s \in DOMAIN sessions, sessions' = [sessions EXCEPT ![s].expired = TRUE]
  PROVE  Fades
<1>1. [sessions[s] EXCEPT !.expired = TRUE] \in Session
  BY SessionTypes DEF Session
<1>2. sessions' = [sessions EXCEPT ![s] = [sessions[s] EXCEPT !.expired = TRUE]]
  OBVIOUS
<1>3. sessions \in Seq(Session) /\ s \in 1..Len(sessions)
  BY SessionTypes DEF TypeOK
<1>4. sessions' \in Seq(Session)
  BY <1>1, <1>2, <1>3, ExceptSeq
<1>5. \A t \in DOMAIN sessions : /\ sessions'[t].login = sessions[t].login
                                 /\ sessions[t].revoked => sessions'[t].revoked
                                 /\ Held(t) /\ sessions'[t].revoked => sessions[t].revoked
  BY SessionTypes DEF Session
<1>. QED  BY <1>4, <1>5 DEF Fades

\* Sessions that fade keep one live session of a login, and a login may then
\* be replayed when nothing is left of it.
LEMMA FadedKeeps ==
  ASSUME IInv, Fades, replayed' \subseteq DOMAIN sessions, NewlySpent
  PROVE  /\ OneLive' /\ Spent'
         /\ \A s \in DOMAIN sessions' : sessions'[s].login \in DOMAIN sessions'
         /\ replayed' \subseteq DOMAIN sessions' /\ replayed' \subseteq Nat
<1>1. \A s \in DOMAIN sessions' : /\ s \in DOMAIN sessions /\ sessions'[s].login = sessions[s].login
                                  /\ ~sessions'[s].revoked => ~sessions[s].revoked
  BY DEF Fades
<1>2. OneLive'
  BY <1>1 DEF OneLive, Live, IInv
<1>3. Spent'
  BY <1>1 DEF Spent, Live, NewlySpent, IInv
<1>4. DOMAIN sessions \subseteq Nat
  BY SessionTypes DEF IInv
<1>. QED  BY <1>1, <1>2, <1>3, <1>4 DEF Fades, IInv, Rooted

-----------------------------------------------------------------------------
(* The requests *)

\* A request of one process keeps what the rotations of the others hold.
LEMMA HeldStep ==
  ASSUME IInv, NEW p \in Apis, NEW r \in Request, proc' \in [Apis -> Request], proc'[p] = r,
         \A q \in Apis : q # p => proc'[q] = proc[q],
         \A q \in Apis : q # p /\ proc[q].at = "inserting" => ~sessions'[proc[q].token].revoked,
         r.at = "inserting" => ~sessions'[r.token].revoked /\ ~Held(r.token)
  PROVE  Holding'
<1>1. ASSUME NEW q \in Apis, proc'[q].at = "inserting"
      PROVE  ~sessions'[proc'[q].token].revoked
  BY <1>1
<1>2. ASSUME NEW q \in Apis, NEW o \in Apis, proc'[q].at = "inserting", proc'[o].at = "inserting",
             proc'[o].token = proc'[q].token
      PROVE  o = q
  BY <1>2 DEF IInv, Holding, Held
<1>. QED  BY <1>1, <1>2 DEF Holding, Live

\* What a request does to the account and to its process, when no session is
\* added and no user is replayed but by revoking everything.
LEMMA FadedStep ==
  ASSUME IInv, Fades, replayed' \subseteq DOMAIN sessions, NewlySpent,
         NEW p \in Apis, NEW r \in Request, Becomes(p, r),
         r.at \in Presents => r.token \in DOMAIN sessions,
         r.at \in Issues => r.version # 0,
         r.at = "inserting" => ~sessions'[r.token].revoked /\ ~Held(r.token),
         version' \in {1, 2}, attempts' \in [Apis -> Nat],
         failures' \in Nat, failed' \in Nat, locked' \in {"unset", "future", "past"},
         failed <= failed', failures' <= failed',
         r.at = "password" => r.count <= failed',
         locked' # "unset" => failed' >= Threshold
  PROVE  IInv'
<1>1. TypeOK
  BY DEF IInv
<1>2. /\ proc' \in [Apis -> Request] /\ proc'[p] = r
      /\ \A q \in Apis : q # p => proc'[q] = proc[q]
  BY <1>1, OneProcess
<1>3. /\ OneLive' /\ Spent'
      /\ \A s \in DOMAIN sessions' : sessions'[s].login \in DOMAIN sessions'
      /\ replayed' \subseteq DOMAIN sessions' /\ replayed' \subseteq Nat
  BY FadedKeeps
<1>4. TypeOK'
  BY <1>2, <1>3 DEF TypeOK, Fades
<1>5. Rooted'
  <2>1. \A q \in Apis : /\ proc'[q].at \in Presents => proc'[q].token \in DOMAIN sessions
                        /\ proc'[q].at \in Issues => proc'[q].version # 0
    BY <1>2 DEF IInv, Rooted
  <2>. QED  BY <1>3, <2>1 DEF Rooted, Fades
<1>6. Counted'
  <2>1. ASSUME NEW q \in Apis, proc'[q].at = "password"
        PROVE  proc'[q].count <= failed'
    <3>1. CASE q = p
      BY <1>2, <2>1, <3>1
    <3>2. CASE q # p
      <4>1. proc[q].count <= failed /\ proc[q].count \in Nat
        BY <1>1, <1>2, <2>1, <3>2, ProcTypes DEF IInv, Counted
      <4>. QED  BY <1>1, <1>2, <3>2, <4>1 DEF TypeOK
    <3>. QED  BY <3>1, <3>2
  <2>. QED  BY <2>1 DEF Counted
<1>7. Holding'
  <2>1. \A q \in Apis : q # p /\ proc[q].at = "inserting" => ~sessions'[proc[q].token].revoked
    <3>. SUFFICES ASSUME NEW q \in Apis, proc[q].at = "inserting"
                  PROVE  ~sessions'[proc[q].token].revoked
      OBVIOUS
    <3>1. proc[q].token \in DOMAIN sessions /\ ~sessions[proc[q].token].revoked /\ Held(proc[q].token)
      BY DEF IInv, Rooted, Presents, Holding, Live, Held
    <3>. QED  BY <3>1 DEF Fades
  <2>. QED  BY <1>2, <2>1, HeldStep
<1>. QED  BY <1>3, <1>4, <1>5, <1>6, <1>7 DEF IInv

\* A session is added for a login that has no other that is live, and that was
\* not replayed.
LEMMA AddedStep ==
  ASSUME IInv, NEW p \in Apis, NEW old, NEW new \in Session, old \in Seq(Session), Len(old) = Len(sessions),
         \A s \in DOMAIN sessions :
            old[s].login = sessions[s].login /\ (sessions[s].revoked => old[s].revoked),
         sessions' = Append(old, new), ~new.revoked,
         new.login \in 1..Len(sessions) + 1, new.login \notin replayed,
         \A s \in DOMAIN sessions : old[s].login = new.login => old[s].revoked,
         \A q \in Apis : q # p /\ proc[q].at = "inserting" => ~old[proc[q].token].revoked,
         Becomes(p, Idle),
         UNCHANGED <<version, account, attempts, replayed>>
  PROVE  IInv'
<1>1. TypeOK
  BY DEF IInv
<1>2. /\ proc' \in [Apis -> Request] /\ proc'[p] = Idle
      /\ \A q \in Apis : q # p => proc'[q] = proc[q]
  BY <1>1, OneProcess, IdleIsRequest
<1>3. /\ Len(sessions) \in Nat /\ DOMAIN sessions = 1..Len(sessions)
  BY <1>1, SessionTypes
<1>4. /\ sessions' \in Seq(Session) /\ DOMAIN sessions' = 1..Len(sessions) + 1
      /\ sessions'[Len(sessions) + 1] = new
      /\ \A s \in DOMAIN sessions : sessions'[s] = old[s]
  BY <1>3
<1>5. \A s \in DOMAIN sessions' : s \in DOMAIN sessions \/ s = Len(sessions) + 1
  BY <1>3, <1>4
<1>6. \A s \in DOMAIN sessions : /\ s \in DOMAIN sessions' /\ sessions'[s].login = sessions[s].login
                                 /\ ~sessions'[s].revoked => ~sessions[s].revoked
                                 /\ sessions'[s].login = new.login => sessions'[s].revoked
  BY <1>3, <1>4
<1>7. TypeOK'
  BY <1>2, <1>4 DEF IInv, TypeOK, account
<1>8. Rooted'
  <2>1. \A s \in DOMAIN sessions' : sessions'[s].login \in DOMAIN sessions'
    BY <1>3, <1>4, <1>5, <1>6 DEF IInv, Rooted
  <2>2. \A q \in Apis : /\ proc'[q].at \in Presents => proc'[q].token \in DOMAIN sessions
                        /\ proc'[q].at \in Issues => proc'[q].version # 0
    <3>1. Idle.at \notin Presents /\ Idle.at \notin Issues
      BY DEF Idle, Presents, Issues
    <3>. QED  BY <1>2, <3>1 DEF IInv, Rooted
  <2>. QED  BY <1>6, <2>1, <2>2 DEF IInv, Rooted
<1>9. OneLive'
  <2>. SUFFICES ASSUME NEW s \in DOMAIN sessions', NEW t \in DOMAIN sessions',
                       sessions'[s].login = sessions'[t].login, ~sessions'[s].revoked, ~sessions'[t].revoked
                PROVE  s = t
    BY DEF OneLive, Live
  <2>1. CASE s \in DOMAIN sessions /\ t \in DOMAIN sessions
    BY <1>6, <2>1 DEF IInv, OneLive, Live
  <2>2. CASE s = Len(sessions) + 1 \/ t = Len(sessions) + 1
    BY <1>4, <1>5, <1>6, <2>2
  <2>. QED  BY <1>5, <2>1, <2>2
<1>10. Spent'
  <2>. SUFFICES ASSUME NEW s \in DOMAIN sessions', sessions'[s].login \in replayed
                PROVE  sessions'[s].revoked
    BY DEF Spent, Live
  <2>1. s \in DOMAIN sessions
    BY <1>4, <1>5
  <2>. QED  BY <1>6, <2>1 DEF IInv, Spent, Live
<1>11. Counted'
  BY <1>2 DEF IInv, Counted, Idle, account
<1>12. Holding'
  <2>1. \A q \in Apis : q # p /\ proc[q].at = "inserting" => ~sessions'[proc[q].token].revoked
    <3>. SUFFICES ASSUME NEW q \in Apis, q # p, proc[q].at = "inserting"
                  PROVE  ~sessions'[proc[q].token].revoked
      OBVIOUS
    <3>1. proc[q].token \in DOMAIN sessions
      BY DEF IInv, Rooted, Presents
    <3>. QED  BY <1>4, <3>1
  <2>2. Idle.at # "inserting"
    BY DEF Idle
  <2>. QED  BY <1>2, <2>1, <2>2, IdleIsRequest, HeldStep
<1>. QED  BY <1>7, <1>8, <1>9, <1>10, <1>11, <1>12 DEF IInv

\* A request that changes nothing but its own process, or the account.
LEMMA QuietStep ==
  ASSUME IInv, UNCHANGED <<sessions, version, replayed>>, attempts' \in [Apis -> Nat],
         NEW p \in Apis, NEW r \in Request, Becomes(p, r),
         r.at \in Presents => r.token \in DOMAIN sessions,
         r.at \in Issues => r.version # 0,
         r.at = "inserting" => ~sessions[r.token].revoked /\ ~Held(r.token),
         failures' \in Nat, failed' \in Nat, locked' \in {"unset", "future", "past"},
         failed <= failed', failures' <= failed',
         r.at = "password" => r.count <= failed',
         locked' # "unset" => failed' >= Threshold
  PROVE  IInv'
<1>1. Fades
  BY StayFades DEF IInv
<1>2. NewlySpent
  BY DEF NewlySpent
<1>3. replayed' = replayed /\ replayed' \subseteq DOMAIN sessions /\ version' \in {1, 2}
  BY DEF IInv, Rooted, TypeOK
<1>. QED  BY <1>1, <1>2, <1>3, FadedStep

LEMMA LoginReadsKeeps == ASSUME IInv, NEW p \in Apis, LoginReads(p) PROVE IInv'
<1>. USE DEF IInv, TypeOK, Counted, account
<1>1. attempts' \in [Apis -> Nat]
  BY DEF LoginReads
<1>2. PICK r \in Request :
        /\ Becomes(p, r) /\ r.at \in {"idle", "password"}
        /\ r.at = "password" => r.version # 0 /\ r.count = failures
  <2>1. CASE locked = "future"
    BY <2>1, IdleIsRequest DEF LoginReads, Idle
  <2>2. CASE locked # "future"
    <3>. DEFINE r == OfLogin(version, failures, locked = "past")
    <3>1. version \in {1, 2} /\ failures \in Nat /\ (locked = "past") \in BOOLEAN
      OBVIOUS
    <3>2. r \in Request /\ r.at = "password" /\ r.version = version /\ r.count = failures
      BY <3>1, LoginIsRequest, Zenon
    <3>3. Becomes(p, r)
      BY <2>2 DEF LoginReads, OfLogin
    <3>. HIDE DEF r
    <3>. QED  BY <3>1, <3>2, <3>3
  <2>. QED  BY <2>1, <2>2
<1>3. /\ UNCHANGED <<sessions, version, replayed>>
      /\ failures' = failures /\ failed' = failed /\ locked' = locked
  BY DEF LoginReads
<1>4. /\ r.at \in Presents => r.token \in DOMAIN sessions
      /\ r.at \in Issues => r.version # 0
      /\ r.at = "password" => r.count <= failed'
  BY <1>2, <1>3
<1>5. /\ failures' \in Nat /\ failed' \in Nat /\ locked' \in {"unset", "future", "past"}
      /\ failed <= failed' /\ failures' <= failed' /\ (locked' # "unset" => failed' >= Threshold)
  BY <1>3
<1>. QED  BY <1>1, <1>2, <1>3, <1>4, <1>5, QuietStep

LEMMA ResetFailuresKeeps == ASSUME IInv, NEW p \in Apis, ResetFailures(p) PROVE IInv'
<1>. DEFINE r == [proc[p] EXCEPT !.expired = FALSE, !.count = 0]
<1>1. TypeOK /\ Counted /\ Rooted
  BY DEF IInv
<1>2. r \in Request /\ r.at = "password" /\ r.count = 0 /\ r.version = proc[p].version
  BY <1>1, ProcTypes DEF Request, ResetFailures
<1>3. proc[p].version # 0
  BY <1>1 DEF Rooted, ResetFailures
<1>4. Becomes(p, r)
  BY DEF ResetFailures
<1>5. /\ UNCHANGED <<sessions, version, replayed>> /\ attempts' \in [Apis -> Nat]
      /\ failures' = 0 /\ locked' = "unset" /\ failed' = failed
  BY <1>1 DEF ResetFailures, TypeOK
<1>6. /\ failures' \in Nat /\ failed' \in Nat /\ locked' \in {"unset", "future", "past"}
      /\ failed <= failed' /\ failures' <= failed' /\ (locked' # "unset" => failed' >= Threshold)
      /\ r.count <= failed'
  BY <1>1, <1>2, <1>5 DEF TypeOK
<1>. HIDE DEF r
<1>. QED  BY <1>2, <1>3, <1>4, <1>5, <1>6, QuietStep

LEMMA LoginRefusedKeeps == ASSUME IInv, NEW p \in Apis, LoginRefused(p) PROVE IInv'
<1>1. TypeOK /\ Counted
  BY DEF IInv
<1>2. proc[p].count \in Nat /\ proc[p].count <= failed /\ failed \in Nat
  BY <1>1, ProcTypes DEF Counted, TypeOK, LoginRefused
<1>3. /\ UNCHANGED <<sessions, version, replayed>> /\ attempts' \in [Apis -> Nat] /\ Becomes(p, Idle)
      /\ failures' = proc[p].count + 1 /\ failed' = failed + 1
      /\ locked' = IF failures' >= Threshold THEN "future" ELSE locked
  BY <1>1 DEF LoginRefused, TypeOK
<1>4. /\ failures' \in Nat /\ failed' \in Nat /\ failed <= failed' /\ failures' <= failed'
  BY <1>2, <1>3
<1>5. locked' \in {"unset", "future", "past"} /\ (locked' # "unset" => failed' >= Threshold)
  BY <1>1, <1>2, <1>3, <1>4, ThresholdAssumption DEF TypeOK, Counted
<1>. QED  BY <1>3, <1>4, <1>5, IdleIsRequest, QuietStep DEF Idle

LEMMA LoginSucceedsKeeps == ASSUME IInv, NEW p \in Apis, LoginSucceeds(p) PROVE IInv'
<1>. DEFINE r == [Idle EXCEPT !.at = "saving", !.version = proc[p].version]
<1>1. TypeOK /\ Counted /\ Rooted
  BY DEF IInv
<1>2. proc[p].version # 0 /\ proc[p].version \in {0, 1, 2}
  BY <1>1, ProcTypes DEF Rooted, LoginSucceeds
<1>3. r \in Request /\ r.at = "saving" /\ r.version # 0
  BY <1>2 DEF Request, Idle
<1>4. Becomes(p, r)
  BY DEF LoginSucceeds
<1>5. /\ UNCHANGED <<sessions, version, replayed>> /\ attempts' \in [Apis -> Nat]
      /\ failures' = 0 /\ locked' = "unset" /\ failed' = failed
  BY <1>1 DEF LoginSucceeds, TypeOK
<1>6. /\ failures' \in Nat /\ failed' \in Nat /\ locked' \in {"unset", "future", "past"}
      /\ failed <= failed' /\ failures' <= failed' /\ (locked' # "unset" => failed' >= Threshold)
  BY <1>1, <1>5 DEF TypeOK
<1>. HIDE DEF r
<1>. QED  BY <1>3, <1>4, <1>5, <1>6, QuietStep

LEMMA SaveSessionKeeps == ASSUME IInv, NEW p \in Apis, SaveSession(p) PROVE IInv'
<1>. DEFINE new == New(Len(sessions) + 1, proc[p].version)
<1>1. TypeOK /\ Rooted
  BY DEF IInv
<1>2. proc[p].version # 0 /\ proc[p].version \in {0, 1, 2}
  BY <1>1, ProcTypes DEF Rooted, SaveSession
<1>3. Len(sessions) \in Nat /\ DOMAIN sessions = 1..Len(sessions) /\ sessions \in Seq(Session)
  BY <1>1, SessionTypes DEF TypeOK
<1>4. new \in Session /\ new.login = Len(sessions) + 1 /\ ~new.revoked
  BY <1>2, <1>3 DEF New, Session
<1>5. /\ sessions' = Append(sessions, new) /\ Becomes(p, Idle)
      /\ UNCHANGED <<version, account, attempts, replayed>>
  BY DEF SaveSession
<1>. HIDE DEF new
<1>6. new.login \in 1..Len(sessions) + 1 /\ new.login \notin replayed
  BY <1>1, <1>3, <1>4 DEF Rooted
<1>7. \A s \in DOMAIN sessions : sessions[s].login = new.login => sessions[s].revoked
  BY <1>1, <1>3, <1>4 DEF Rooted
<1>8. \A q \in Apis : q # p /\ proc[q].at = "inserting" => ~sessions[proc[q].token].revoked
  BY DEF IInv, Holding, Live
<1>. QED  BY <1>3, <1>4, <1>5, <1>6, <1>7, <1>8, AddedStep

LEMMA ReadKeeps ==
  ASSUME IInv, NEW p \in Apis, NEW op \in {"refresh", "logout"}, NEW s \in DOMAIN sessions, Read(p, op, s)
  PROVE  IInv'
<1>1. TypeOK /\ Counted
  BY DEF IInv
<1>2. PICK r \in Request :
        /\ Becomes(p, r) /\ r.at \in {"idle", "refresh", "logout"}
        /\ r.at # "idle" => r.token = s /\ r.version # 0
  <2>1. CASE op = "logout" /\ ~Live(s)
    BY <2>1, IdleIsRequest DEF Read, Idle
  <2>2. CASE ~(op = "logout" /\ ~Live(s))
    <3>0. PICK d \in BOOLEAN : d = ~Live(s)
      OBVIOUS
    <3>. DEFINE r == OfToken(op, s, d, sessions[s].expired, version)
    <3>1. s \in Nat /\ sessions[s].expired \in BOOLEAN /\ version \in {1, 2}
      <4>1. s \in Nat /\ sessions[s] \in Session /\ version \in {1, 2}
        BY <1>1, SessionTypes DEF TypeOK
      <4>2. sessions[s].expired \in BOOLEAN
        BY <4>1 DEF Session
      <4>. QED  BY <4>1, <4>2
    <3>2. r \in Request /\ r.at = op /\ r.token = s /\ r.version = version
      BY <3>1, TokenIsRequest
    <3>3. Becomes(p, r)
      BY <2>2, <3>0 DEF Read, OfToken
    <3>. HIDE DEF r
    <3>. QED  BY <3>1, <3>2, <3>3
  <2>. QED  BY <2>1, <2>2
<1>3. /\ UNCHANGED <<sessions, version, replayed>> /\ attempts' \in [Apis -> Nat]
      /\ failures' = failures /\ failed' = failed /\ locked' = locked
  BY <1>1 DEF Read, account, TypeOK
<1>4. /\ failures' \in Nat /\ failed' \in Nat /\ locked' \in {"unset", "future", "past"}
      /\ failed <= failed' /\ failures' <= failed' /\ (locked' # "unset" => failed' >= Threshold)
  BY <1>1, <1>3 DEF TypeOK, Counted
<1>5. /\ r.at \in Presents => r.token \in DOMAIN sessions
      /\ r.at \in Issues => r.version # 0
      /\ r.at = "password" => r.count <= failed'
  BY <1>2
<1>. QED  BY <1>2, <1>3, <1>4, <1>5, QuietStep

LEMMA TokenIsThere ==
  ASSUME IInv, NEW p \in Apis, proc[p].at \in Presents
  PROVE  /\ proc[p].token \in DOMAIN sessions
         /\ replayed \union {sessions[proc[p].token].login} \subseteq DOMAIN sessions
         /\ replayed \subseteq DOMAIN sessions
BY DEF IInv, Rooted

\* A request that ends and leaves the account as it is.
LEMMA EndStep ==
  ASSUME IInv, Fades, replayed' \subseteq DOMAIN sessions, NewlySpent,
         NEW p \in Apis, Becomes(p, Idle), UNCHANGED <<version, account, attempts>>
  PROVE  IInv'
<1>1. TypeOK /\ Counted
  BY DEF IInv
<1>2. /\ version' \in {1, 2} /\ attempts' \in [Apis -> Nat]
      /\ failures' = failures /\ failed' = failed /\ locked' = locked
  BY <1>1 DEF TypeOK, account
<1>3. /\ failures' \in Nat /\ failed' \in Nat /\ locked' \in {"unset", "future", "past"}
      /\ failed <= failed' /\ failures' <= failed' /\ (locked' # "unset" => failed' >= Threshold)
  BY <1>1, <1>2 DEF TypeOK, Counted
<1>4. Idle.at = "idle"
  BY DEF Idle
<1>. QED  BY <1>2, <1>3, <1>4, IdleIsRequest, FadedStep

\* A request that goes on with its token and changes nothing else; when it
\* begins a rotation it takes a live session that no other rotation holds.
LEMMA GoesOn ==
  ASSUME IInv, NEW p \in Apis, NEW at \in {"inserting", "lost", "reuse", "stale"}, NEW n \in Nat,
         proc[p].at \in {"refresh", "lost"}, Becomes(p, [proc[p] EXCEPT !.at = at, !.count = n]),
         at = "inserting" => proc[p].at = "refresh" /\ Live(proc[p].token) /\ ~Held(proc[p].token),
         UNCHANGED <<sessions, version, account, attempts, replayed>>
  PROVE  IInv'
<1>. DEFINE r == [proc[p] EXCEPT !.at = at, !.count = n]
<1>1. TypeOK /\ Counted /\ Rooted
  BY DEF IInv
<1>2. r \in Request /\ r.at = at /\ r.token = proc[p].token /\ r.version = proc[p].version
  BY <1>1, ProcTypes DEF Request
<1>3. r.at \in Presents => r.token \in DOMAIN sessions
  BY <1>2, TokenIsThere
<1>4. r.at \in Issues => r.version # 0
  BY <1>1, <1>2 DEF Rooted
<1>5. r.at = "inserting" => ~sessions[r.token].revoked /\ ~Held(r.token)
  BY <1>2 DEF Live
<1>6. attempts' \in [Apis -> Nat] /\ failures' = failures /\ failed' = failed /\ locked' = locked
  BY <1>1 DEF TypeOK, account
<1>7. /\ failures' \in Nat /\ failed' \in Nat /\ locked' \in {"unset", "future", "past"}
      /\ failed <= failed' /\ failures' <= failed' /\ (locked' # "unset" => failed' >= Threshold)
  BY <1>1, <1>6 DEF TypeOK, Counted
<1>8. Becomes(p, r) /\ r.at # "password"
  BY <1>2
<1>. HIDE DEF r
<1>. QED  BY <1>2, <1>3, <1>4, <1>5, <1>6, <1>7, <1>8, QuietStep

\* The revocation that answers a spent or an outdated token begins.
LEMMA RevokesKeeps ==
  ASSUME IInv, NEW p \in Apis, NEW why \in {"reuse", "stale"}, proc[p].at \in {"refresh", "lost"},
         Revokes(p, why), UNCHANGED <<sessions, version, account, attempts, replayed>>
  PROVE  IInv'
<1>1. Len(sessions) \in Nat
  BY SessionTypes DEF IInv
<1>2. Becomes(p, [proc[p] EXCEPT !.at = why, !.count = Len(sessions)])
  BY DEF Revokes
<1>. QED  BY <1>1, <1>2, GoesOn

LEMMA RefreshRefusedKeeps == ASSUME IInv, NEW p \in Apis, RefreshRefused(p) PROVE IInv'
<1>1. /\ proc[p].at = "refresh" /\ UNCHANGED <<sessions, version, account, attempts, replayed>>
      /\ Becomes(p, Idle) \/ Revokes(p, "reuse") \/ Revokes(p, "stale")
  BY DEF RefreshRefused
<1>2. CASE Becomes(p, Idle)
  <2>1. Fades /\ NewlySpent /\ replayed' \subseteq DOMAIN sessions
    BY <1>1, StayFades DEF IInv, Rooted, NewlySpent
  <2>. QED  BY <1>1, <1>2, <2>1, EndStep
<1>3. CASE Revokes(p, "reuse") \/ Revokes(p, "stale")
  BY <1>1, <1>3, RevokesKeeps
<1>. QED  BY <1>1, <1>2, <1>3

LEMMA ReuseKeeps == ASSUME IInv, NEW p \in Apis, Reuse(p) PROVE IInv'
BY RevokesKeeps DEF Reuse

\* A revocation takes every session that it has seen, and counts the login of
\* the token as replayed when it has seen all of them.
LEMMA RevokeAllKeeps == ASSUME IInv, NEW p \in Apis, RevokeAll(p) PROVE IInv'
<1>1. Fades /\ NewlySpent
  BY RevokeAllFades DEF IInv
<1>2. replayed' \subseteq DOMAIN sessions
  BY TokenIsThere DEF RevokeAll
<1>3. Becomes(p, Idle) /\ UNCHANGED <<version, account, attempts>>
  BY DEF RevokeAll
<1>. QED  BY <1>1, <1>2, <1>3, EndStep

LEMMA LogoutKeeps == ASSUME IInv, NEW p \in Apis, Logout(p) PROVE IInv'
<1>1. proc[p].token \in DOMAIN sessions /\ replayed \subseteq DOMAIN sessions
  BY TokenIsThere DEF Logout
<1>2. Fades
  BY <1>1, RevokeFades DEF Logout, IInv
<1>3. Becomes(p, Idle) /\ NewlySpent /\ UNCHANGED <<version, account, attempts, replayed>>
  BY DEF Logout, NewlySpent
<1>. QED  BY <1>1, <1>2, <1>3, EndStep

\* The winner of a rotation holds the session; the loser finds it revoked and
\* goes on to answer for a reuse.
LEMMA RotateKeeps == ASSUME IInv, NEW p \in Apis, Rotate(p) PROVE IInv'
<1>. DEFINE at == IF Rotates(proc[p].token) THEN "inserting" ELSE "lost"
<1>1. /\ proc[p].at = "refresh" /\ ~Held(proc[p].token) /\ Becomes(p, [proc[p] EXCEPT !.at = at])
      /\ UNCHANGED <<sessions, version, account, attempts, replayed>>
  BY DEF Rotate
<1>2. at \in {"inserting", "lost"} /\ (at = "inserting" => Live(proc[p].token))
  BY DEF Rotates
<1>3. proc[p] \in Request /\ proc[p].count \in Nat
  BY ProcTypes DEF IInv
<1>. HIDE DEF at
<1>4. [proc[p] EXCEPT !.at = at] = [proc[p] EXCEPT !.at = at, !.count = proc[p].count]
  BY <1>3 DEF Request
<1>. QED  BY <1>1, <1>2, <1>3, <1>4, GoesOn

\* When the rotation commits, the replacement takes the place of the session.
LEMMA RotationCommitsKeeps == ASSUME IInv, NEW p \in Apis, RotationCommits(p) PROVE IInv'
<1>0. PICK s : s = proc[p].token
  OBVIOUS
<1>. DEFINE old == [sessions EXCEPT ![s].revoked = TRUE]
            new == New(sessions[s].login, proc[p].version)
<1>1. TypeOK /\ Rooted /\ OneLive /\ Spent /\ Counted
  BY DEF IInv
<1>2. /\ s \in DOMAIN sessions /\ replayed \subseteq DOMAIN sessions
  BY <1>0, TokenIsThere DEF RotationCommits
<1>3. proc[p].version # 0 /\ proc[p].version \in {0, 1, 2}
  BY <1>1, ProcTypes DEF Rooted, RotationCommits
<1>4. /\ ~sessions[s].revoked
      /\ \A q \in Apis : q # p /\ proc[q].at = "inserting" =>
           /\ proc[q].token # s /\ proc[q].token \in DOMAIN sessions
           /\ ~sessions[proc[q].token].revoked
  BY <1>0 DEF RotationCommits, IInv, Holding, Rooted, Live
<1>5. /\ Len(sessions) \in Nat /\ DOMAIN sessions = 1..Len(sessions) /\ sessions \in Seq(Session)
      /\ sessions[s] \in Session
  BY <1>1, <1>2, SessionTypes DEF TypeOK
<1>6. [sessions[s] EXCEPT !.revoked = TRUE] \in Session
  BY <1>5 DEF Session
<1>7. old = [sessions EXCEPT ![s] = [sessions[s] EXCEPT !.revoked = TRUE]]
  OBVIOUS
<1>8. old \in Seq(Session) /\ Len(old) = Len(sessions)
  BY <1>2, <1>5, <1>6, <1>7, ExceptSeq
<1>9. \A t \in DOMAIN sessions : /\ old[t].login = sessions[t].login
                                 /\ sessions[t].revoked => old[t].revoked
                                 /\ t # s => old[t] = sessions[t]
                                 /\ t = s => old[t].revoked
  BY <1>1, SessionTypes DEF Session
<1>10. new \in Session /\ new.login = sessions[s].login /\ ~new.revoked
  BY <1>3, <1>5 DEF New, Session
<1>11. /\ sessions' = Append(old, new) /\ Becomes(p, Idle)
       /\ UNCHANGED <<version, account, attempts, replayed>>
  BY <1>0 DEF RotationCommits
<1>. HIDE DEF old, new
<1>12. new.login \in 1..Len(sessions) + 1 /\ new.login \notin replayed
  <2>1. new.login \in 1..Len(sessions)
    BY <1>1, <1>2, <1>5, <1>10 DEF Rooted
  <2>2. new.login \notin replayed
    BY <1>1, <1>2, <1>4, <1>10 DEF Spent, Live
  <2>. QED  BY <1>5, <2>1, <2>2
<1>13. \A t \in DOMAIN sessions : old[t].login = new.login => old[t].revoked
  BY <1>1, <1>2, <1>4, <1>9, <1>10 DEF OneLive, Live
<1>14. \A q \in Apis : q # p /\ proc[q].at = "inserting" => ~old[proc[q].token].revoked
  BY <1>4, <1>9
<1>. QED  BY <1>8, <1>9, <1>10, <1>11, <1>12, <1>13, <1>14, AddedStep

-----------------------------------------------------------------------------
(* The environment *)

\* A step of no process.
LEMMA OutsideStep ==
  ASSUME IInv, Fades, UNCHANGED <<proc, failures, failed, replayed>>,
         version' \in {1, 2}, attempts' \in [Apis -> Nat],
         locked' \in {"unset", "future", "past"}, locked' # "unset" => locked # "unset"
  PROVE  IInv'
<1>1. TypeOK /\ Rooted /\ Counted
  BY DEF IInv
<1>0. NewlySpent
  BY DEF NewlySpent
<1>2. /\ OneLive' /\ Spent'
      /\ \A s \in DOMAIN sessions' : sessions'[s].login \in DOMAIN sessions'
      /\ replayed' \subseteq DOMAIN sessions' /\ replayed' \subseteq Nat
  BY <1>0, <1>1, FadedKeeps DEF Rooted
<1>3. TypeOK'
  BY <1>1, <1>2 DEF TypeOK, Fades
<1>4. Rooted'
  BY <1>1, <1>2 DEF Rooted, Fades
<1>5. Counted'
  BY <1>1 DEF Counted
<1>6. Holding'
  <2>. SUFFICES ASSUME NEW q \in Apis, proc[q].at = "inserting"
                PROVE  ~sessions'[proc[q].token].revoked
    BY DEF IInv, Holding, Live
  <2>1. proc[q].token \in DOMAIN sessions /\ ~sessions[proc[q].token].revoked /\ Held(proc[q].token)
    BY DEF IInv, Rooted, Holding, Live, Held
  <2>. QED  BY <2>1 DEF Fades
<1>. QED  BY <1>2, <1>3, <1>4, <1>5, <1>6 DEF IInv

LEMMA OutsideKeeps ==
  ASSUME IInv, (\E s \in DOMAIN sessions : Expire(s)) \/ LockRunsOut \/ RightsChange \/ (\E p \in Apis : MinutePasses(p))
  PROVE  IInv'
<1>1. TypeOK
  BY DEF IInv
<1>2. ASSUME NEW s \in DOMAIN sessions, Expire(s) PROVE IInv'
  <2>1. Fades
    BY <1>1, <1>2, ExpireFades DEF Expire
  <2>. QED  BY <1>1, <1>2, <2>1, OutsideStep DEF Expire, account, TypeOK
<1>3. CASE LockRunsOut
  BY <1>1, <1>3, StayFades, OutsideStep DEF LockRunsOut, TypeOK
<1>4. CASE RightsChange
  BY <1>1, <1>4, StayFades, OutsideStep DEF RightsChange, account, TypeOK
<1>5. ASSUME NEW p \in Apis, MinutePasses(p) PROVE IInv'
  <2>1. attempts' \in [Apis -> Nat]
    BY <1>1, <1>5 DEF MinutePasses, TypeOK
  <2>. QED  BY <1>1, <1>5, <2>1, StayFades, OutsideStep DEF MinutePasses, account, TypeOK
<1>. QED  BY <1>2, <1>3, <1>4, <1>5

-----------------------------------------------------------------------------
(* The theorems *)

LEMMA InitHolds == Init => IInv
<1>. SUFFICES ASSUME Init PROVE IInv
  OBVIOUS
<1>1. sessions = <<>> /\ sessions \in Seq(Session) /\ DOMAIN sessions = {}
  BY EmptySeq DEF Init
<1>2. TypeOK
  BY <1>1, IdleIsRequest DEF Init, TypeOK
<1>3. Rooted /\ OneLive /\ Holding /\ Spent /\ Counted
  BY <1>1 DEF Init, Rooted, OneLive, Holding, Spent, Counted, Idle
<1>. QED  BY <1>2, <1>3 DEF IInv

LEMMA NextKeeps == IInv /\ [Next]_vars => IInv'
<1>. SUFFICES ASSUME IInv, [Next]_vars PROVE IInv'
  OBVIOUS
<1>1. CASE UNCHANGED vars
  BY <1>1, StayFades, OutsideStep DEF vars, IInv, TypeOK
<1>2. ASSUME NEW p \in Apis,
             \/ LoginReads(p) \/ ResetFailures(p) \/ LoginRefused(p) \/ LoginSucceeds(p) \/ SaveSession(p)
             \/ RefreshRefused(p) \/ Rotate(p) \/ RotationCommits(p) \/ Reuse(p) \/ RevokeAll(p) \/ Logout(p)
      PROVE  IInv'
  BY <1>2, LoginReadsKeeps, ResetFailuresKeeps, LoginRefusedKeeps, LoginSucceedsKeeps, SaveSessionKeeps,
     RefreshRefusedKeeps, RotateKeeps, RotationCommitsKeeps, ReuseKeeps, RevokeAllKeeps, LogoutKeeps
<1>3. ASSUME NEW p \in Apis, NEW op \in {"refresh", "logout"}, NEW s \in DOMAIN sessions, Read(p, op, s)
      PROVE  IInv'
  BY <1>3, ReadKeeps
<1>4. CASE \/ \E s \in DOMAIN sessions : Expire(s)
           \/ LockRunsOut \/ RightsChange \/ \E p \in Apis : MinutePasses(p)
  BY <1>4, OutsideKeeps
<1>. QED  BY <1>1, <1>2, <1>3, <1>4 DEF Next

LEMMA IInvImplies == IInv => OneSessionPerLogin
<1>. SUFFICES ASSUME IInv PROVE OneSessionPerLogin
  OBVIOUS
<1>1. ASSUME NEW l \in DOMAIN sessions
      PROVE  Cardinality({s \in DOMAIN sessions : sessions[s].login = l /\ Live(s)}) <= 1
  <2>. DEFINE S == {s \in DOMAIN sessions : sessions[s].login = l /\ Live(s)}
  <2>1. CASE S = {}
    BY <2>1, FS_EmptySet
  <2>2. CASE S # {}
    <3>1. PICK s \in S : TRUE
      BY <2>2
    <3>2. S = {s}
      BY <3>1 DEF IInv, OneLive
    <3>. QED  BY <3>2, FS_Singleton
  <2>. QED  BY <2>1, <2>2
<1>. QED  BY <1>1 DEF OneSessionPerLogin, IInv, Spent, Counted

\* Every step keeps what the sessions, the counters and the requests of the
\* backend are (services.py:134-176, repository.py:384-424).
THEOREM Types == Spec => []TypeOK
<1>1. IInv => TypeOK
  BY DEF IInv
<1>. QED  BY <1>1, InitHolds, NextKeeps, PTL DEF Spec

\* However the transactions of the processes that refresh, replay and log out
\* overlap, a login has at most one session that is not spent, none after a
\* spent token of it was answered and no rotation of it committed meanwhile, and
\* no lock comes before as many refusals as the threshold.
THEOREM LoginsKeepOneSession == Spec => []OneSessionPerLogin
BY InitHolds, NextKeeps, IInvImplies, PTL DEF Spec
=============================================================================
