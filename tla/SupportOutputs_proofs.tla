------------------------ MODULE SupportOutputs_proofs ------------------------
(***************************************************************************)
(* Theorems of SupportOutputs: the suggestions of a report are those of    *)
(* one moment whatever is decided while it is put together, and a question *)
(* is found by its user, for every number of processes, requests, reviews  *)
(* and suggestions.                                                        *)
(***************************************************************************)
EXTENDS SupportOutputs, SequenceTheorems, TLAPS

(***************************************************************************)
(* The history of decisions.                                               *)
(***************************************************************************)
Decision == [suggestion : DOMAIN Suggestions, status : Status]

\* The decisions on s among the first n of a history, and what the last of them says.
DecisionsOn(history, s, n) == {i \in 1 .. n : history[i].suggestion = s}
IsLast(m, S) == m \in S /\ \A i \in S : m >= i
StatusIn(history, s, n) ==
    IF DecisionsOn(history, s, n) = {} THEN "PENDING" ELSE history[Max(DecisionsOn(history, s, n))].status

\* Every part of a history that decides on s has a last decision on it.
HasLasts(history) ==
    \A s \in DOMAIN Suggestions, n \in 0 .. Len(history) :
        DecisionsOn(history, s, n) # {} =>
            \E m \in DecisionsOn(history, s, n) : IsLast(m, DecisionsOn(history, s, n))

LEMMA StatusAfterIs ==
    \A review, n : StatusAfter(review, n) =
        [s \in {x \in DOMAIN Suggestions : Suggestions[x] = review} |-> StatusIn(decisions, s, n)]
BY DEF StatusAfter, StatusIn, DecisionsOn

\* Max returns the last one if there is one.
LEMMA MaxIsLast ==
    ASSUME NEW S \in SUBSET Nat, NEW m, IsLast(m, S)
    PROVE  Max(S) = m
<1>1. \A x \in S : (\A y \in S : x >= y) => x = m
  <2>1. \A x \in S : x \in Nat
    OBVIOUS
  <2> QED
    BY <2>1 DEF IsLast
<1> QED
  BY <1>1 DEF IsLast, Max

\* A decision changes nothing of what was decided before it (save_decision).
LEMMA PastIsKept ==
    ASSUME NEW history \in Seq(Decision), HasLasts(history), NEW d \in Decision,
           NEW s \in DOMAIN Suggestions, NEW n \in 0 .. Len(history)
    PROVE  /\ DecisionsOn(Append(history, d), s, n) = DecisionsOn(history, s, n)
           /\ StatusIn(Append(history, d), s, n) = StatusIn(history, s, n)
<1> DEFINE longer == Append(history, d)
<1>1. \A i \in 1 .. n : longer[i] = history[i]
  BY AppendProperties
<1> HIDE DEF longer
<1>2. DecisionsOn(longer, s, n) = DecisionsOn(history, s, n)
  BY <1>1 DEF DecisionsOn
<1>3. CASE DecisionsOn(history, s, n) = {}
  BY <1>2, <1>3 DEF StatusIn, longer
<1>4. CASE DecisionsOn(history, s, n) # {}
  <2>1. PICK m \in DecisionsOn(history, s, n) : IsLast(m, DecisionsOn(history, s, n))
    BY <1>4 DEF HasLasts
  <2>2. DecisionsOn(history, s, n) \in SUBSET Nat
    BY DEF DecisionsOn
  <2>3. Max(DecisionsOn(history, s, n)) = m
    BY <2>1, <2>2, MaxIsLast
  <2>4. longer[m] = history[m]
    BY <1>1, <2>1 DEF DecisionsOn
  <2> QED
    BY <1>2, <2>3, <2>4 DEF StatusIn, longer
<1> QED
  BY <1>3, <1>4

\* The last decision on a suggestion is what its row says.
LEMMA DecisionCounts ==
    ASSUME NEW history \in Seq(Decision), HasLasts(history), NEW d \in Decision,
           NEW s \in DOMAIN Suggestions
    PROVE  StatusIn(Append(history, d), s, Len(history) + 1) =
             IF d.suggestion = s THEN d.status ELSE StatusIn(history, s, Len(history))
<1> DEFINE longer == Append(history, d)  n == Len(history)
<1>1. /\ n \in Nat /\ Len(longer) = n + 1 /\ longer[n + 1] = d
      /\ \A i \in 1 .. n : longer[i] = history[i]
  BY AppendProperties, LenProperties
<1>2. /\ DecisionsOn(longer, s, n) = DecisionsOn(history, s, n)
      /\ StatusIn(longer, s, n) = StatusIn(history, s, n)
  BY <1>1, PastIsKept
<1> HIDE DEF longer, n
<1>3. \A i : i \in 1 .. n + 1 <=> i \in 1 .. n \/ i = n + 1
  BY <1>1
<1>4. CASE d.suggestion = s
  <2>1. DecisionsOn(longer, s, n + 1) \in SUBSET Nat
    BY <1>1 DEF DecisionsOn
  <2>2. IsLast(n + 1, DecisionsOn(longer, s, n + 1))
    BY <1>1, <1>3, <1>4 DEF IsLast, DecisionsOn
  <2>3. Max(DecisionsOn(longer, s, n + 1)) = n + 1
    BY <2>1, <2>2, MaxIsLast
  <2> QED
    BY <1>1, <1>4, <2>2, <2>3 DEF StatusIn, IsLast, longer, n
<1>5. CASE d.suggestion # s
  <2>1. DecisionsOn(longer, s, n + 1) = DecisionsOn(longer, s, n)
    BY <1>1, <1>3, <1>5 DEF DecisionsOn
  <2> QED
    BY <1>2, <1>5, <2>1 DEF StatusIn, longer, n
<1> QED
  BY <1>4, <1>5

LEMMA LastsAreKept ==
    ASSUME NEW history \in Seq(Decision), HasLasts(history), NEW d \in Decision
    PROVE  HasLasts(Append(history, d))
<1> DEFINE longer == Append(history, d)  N == Len(history)
<1>1. /\ N \in Nat /\ Len(longer) = N + 1 /\ longer[N + 1] = d
  BY AppendProperties, LenProperties
<1>2. ASSUME NEW s \in DOMAIN Suggestions, NEW n \in 0 .. N
      PROVE  DecisionsOn(longer, s, n) # {} =>
               \E m \in DecisionsOn(longer, s, n) : IsLast(m, DecisionsOn(longer, s, n))
  <2>1. DecisionsOn(longer, s, n) = DecisionsOn(history, s, n)
    BY PastIsKept
  <2> QED
    BY <2>1 DEF HasLasts
<1> HIDE DEF longer, N
<1>3. ASSUME NEW s \in DOMAIN Suggestions
      PROVE  DecisionsOn(longer, s, N + 1) # {} =>
               \E m \in DecisionsOn(longer, s, N + 1) : IsLast(m, DecisionsOn(longer, s, N + 1))
  <2>1. CASE d.suggestion = s
    BY <1>1, <2>1 DEF DecisionsOn, IsLast
  <2>2. CASE d.suggestion # s
    <3>1. DecisionsOn(longer, s, N + 1) = DecisionsOn(longer, s, N)
      BY <1>1, <2>2 DEF DecisionsOn
    <3> QED
      BY <1>1, <1>2, <3>1
  <2> QED
    BY <2>1, <2>2
<1>4. \A n \in 0 .. Len(longer) : n \in 0 .. N \/ n = N + 1
  BY <1>1
<1> QED
  BY <1>2, <1>3, <1>4 DEF HasLasts, longer

(***************************************************************************)
(* The inductive invariant.                                                *)
(***************************************************************************)

\* What the request op has in its hands: a session that takes its question, and
\* what a report has gathered so far.
OpStands(op) ==
    /\ op.at = "ask" =>
         op.session \in 0 .. Len(sessions) /\ (op.session > 0 => Belongs(op.session, op.user, op.review))
    /\ op \in Reporting =>
         /\ op.since <= Len(decisions)
         /\ op.at # "suggestions" /\ "suggestions" \in op.includes =>
              \E n \in op.since .. Len(decisions) : op.suggestions = StatusAfter(op.review, n)
         /\ op.at \in {"source", "report"} => \A k \in DOMAIN op.drafts : op.drafts[k].review = op.review
         /\ op.at # "report" => op.source = 0
         /\ op.at = "source" => op.format = "PDF"
         /\ op.at = "report" =>
              /\ op.format = "PDF" <=> op.source # 0
              /\ op.format = "PDF" =>
                   /\ op.source \in 1 .. Len(reports) /\ reports[op.source].format = "HWPX"
                   /\ reports[op.source].status = "CREATED" /\ reports[op.source].snapshot = Snapshot(op)

RequestsStand == \A p \in Apis : OpStands(proc[p])

\* The row of a suggestion says what the last decision on it says.
RowsFollowDecisions ==
    /\ HasLasts(decisions)
    /\ \A s \in DOMAIN Suggestions : suggestions[s] = StatusIn(decisions, s, Len(decisions))

\* The messages are in sessions that there are.
MessagesHaveSessions == \A i \in 1 .. Len(messages) : messages[i].session \in 1 .. Len(sessions)

\* No report is of the future.
ReportStands(i) ==
    LET r == reports[i]
    IN /\ r.snapshot.review = r.review /\ r.until <= Len(decisions)
       /\ "suggestions" \in r.snapshot.includes =>
            \E n \in r.since .. r.until : r.snapshot.suggestions = StatusAfter(r.review, n)
       /\ \A k \in DOMAIN r.snapshot.drafts : r.snapshot.drafts[k].review = r.review
       /\ r.format = "PDF" <=> r.source # 0
       /\ r.format = "PDF" =>
            /\ r.source < i
            /\ reports[r.source].format = "HWPX" /\ reports[r.source].status = "CREATED"
            /\ reports[r.source].snapshot = r.snapshot

ReportsStand == \A i \in 1 .. Len(reports) : ReportStands(i)

IInv ==
    /\ TypeOK /\ RequestsStand /\ RowsFollowDecisions /\ MessagesHaveSessions
    /\ QuestionsAreFound /\ ReportsStand

(***************************************************************************)
(* The initial state.                                                      *)
(***************************************************************************)
LEMMA InitInvariant ==
    ASSUME RightsAreOfReviews, Init
    PROVE  IInv
<1>1. \A p \in Apis : proc[p] = Idle
  BY DEF Init
<1>2. TypeOK
  BY <1>1 DEF Init, TypeOK, Status, RightsAreOfReviews
<1>3. RequestsStand
  BY <1>1 DEF RequestsStand, OpStands, Idle, Reporting
<1>4. RowsFollowDecisions
  <2>1. \A s : DecisionsOn(<<>>, s, 0) = {}
    BY DEF DecisionsOn
  <2> QED
    BY <2>1 DEF Init, RowsFollowDecisions, HasLasts, StatusIn
<1>5. QuestionsAreFound /\ MessagesHaveSessions /\ ReportsStand
  BY DEF Init, QuestionsAreFound, MessagesHaveSessions, ReportsStand
<1> QED
  BY <1>2, <1>3, <1>4, <1>5 DEF IInv

(***************************************************************************)
(* What a step leaves alone.                                               *)
(***************************************************************************)

\* The request of one process changes.
LEMMA ProcIs ==
    ASSUME TypeOK, NEW p \in Apis, NEW op, proc' = [proc EXCEPT ![p] = op]
    PROVE  proc'[p] = op /\ \A q \in Apis \ {p} : proc'[q] = proc[q]
BY DEF TypeOK

\* The statuses after n decisions do not depend on later ones.
LEMMA StatusAfterIsKept ==
    ASSUME IInv, NEW d \in Decision, decisions' = Append(decisions, d)
    PROVE  \A review, n : n \in 0 .. Len(decisions) => StatusAfter(review, n)' = StatusAfter(review, n)
<1>1. decisions \in Seq(Decision) /\ HasLasts(decisions)
  BY DEF IInv, TypeOK, Decision, RowsFollowDecisions
<1>2. ASSUME NEW CONSTANT n \in 0 .. Len(decisions), NEW CONSTANT s \in DOMAIN Suggestions
      PROVE  StatusIn(decisions', s, n) = StatusIn(decisions, s, n)
  BY <1>1, PastIsKept
<1>3. \A review, n : StatusAfter(review, n)' =
        [s \in {x \in DOMAIN Suggestions : Suggestions[x] = review} |-> StatusIn(decisions', s, n)]
  BY DEF StatusAfter, StatusIn, DecisionsOn
<1> QED
  BY <1>2, <1>3, StatusAfterIs

\* What was found in the rows stays there when rows are added.
LEMMA GrowthIsHarmless ==
    ASSUME IInv,
           \/ UNCHANGED decisions
           \/ \E d \in Decision : decisions' = Append(decisions, d),
           \/ UNCHANGED sessions
           \/ \E new \in [user : Users, review : Reviews \cup {"none"}] : sessions' = Append(sessions, new),
           \/ UNCHANGED reports
           \/ \E r \in Report : reports' = Append(reports, r)
    PROVE  /\ \A op : OpStands(op) /\ op \in {Idle} \cup Deciding \cup Asking \cup Editing \cup Reporting
                        => OpStands(op)'
           /\ \A i \in 1 .. Len(reports) : ReportStands(i)'
<1>1. /\ Len(decisions) \in Nat /\ Len(sessions) \in Nat /\ Len(reports) \in Nat
      /\ reports \in Seq(Report) /\ sessions \in Seq([user : Users, review : Reviews \cup {"none"}])
      /\ decisions \in Seq(Decision)
  BY LenProperties DEF IInv, TypeOK, Decision
<1>2. /\ Len(decisions') \in Nat /\ Len(decisions) <= Len(decisions')
      /\ \A review, n : n \in 0 .. Len(decisions) => StatusAfter(review, n)' = StatusAfter(review, n)
  <2>1. CASE UNCHANGED decisions
    BY <1>1, <2>1 DEF StatusAfter
  <2>2. CASE \E d \in Decision : decisions' = Append(decisions, d)
    BY <1>1, <2>2, AppendProperties, StatusAfterIsKept
  <2> QED
    BY <2>1, <2>2
<1>3. /\ Len(sessions') \in Nat /\ Len(sessions) <= Len(sessions')
      /\ \A i \in 1 .. Len(sessions) : sessions'[i] = sessions[i]
  BY <1>1, AppendProperties
<1>4. /\ Len(reports') \in Nat /\ Len(reports) <= Len(reports')
      /\ \A i \in 1 .. Len(reports) : reports'[i] = reports[i]
  <2>1. CASE \E r \in Report : reports' = Append(reports, r)
    <3>1. PICK r \in Report : reports' = Append(reports, r)
      BY <2>1
    <3> QED
      BY <1>1, <3>1, AppendProperties
  <2> QED
    BY <1>1, <2>1
<1>5. ASSUME NEW CONSTANT op \in {Idle} \cup Deciding \cup Asking \cup Editing \cup Reporting, OpStands(op)
      PROVE  OpStands(op)'
  <2>1. CASE op \in Reporting
    <3>1. op.since \in Nat /\ op.source \in Nat /\ op.at # "ask"
      BY <2>1 DEF Reporting
    <3>2. op.since <= Len(decisions')
      BY <1>1, <1>2, <1>5, <2>1, <3>1 DEF OpStands
    <3>3. op.at # "suggestions" /\ "suggestions" \in op.includes =>
            \E n \in op.since .. Len(decisions') : op.suggestions = StatusAfter(op.review, n)'
      <4>1. SUFFICES ASSUME op.at # "suggestions", "suggestions" \in op.includes
                     PROVE  \E n \in op.since .. Len(decisions') : op.suggestions = StatusAfter(op.review, n)'
        OBVIOUS
      <4>2. PICK n \in op.since .. Len(decisions) : op.suggestions = StatusAfter(op.review, n)
        BY <1>5, <2>1, <4>1 DEF OpStands
      <4>3. n \in 0 .. Len(decisions) /\ n \in op.since .. Len(decisions')
        BY <1>1, <1>2, <3>1
      <4> QED
        BY <1>2, <4>2, <4>3
    <3>4. op.at = "report" /\ op.format = "PDF" =>
            /\ op.source \in 1 .. Len(reports') /\ reports'[op.source].format = "HWPX"
            /\ reports'[op.source].status = "CREATED" /\ reports'[op.source].snapshot = Snapshot(op)
      BY <1>1, <1>4, <1>5, <2>1, <3>1 DEF OpStands
    <3> QED
      BY <1>5, <2>1, <3>1, <3>2, <3>3, <3>4 DEF OpStands, Snapshot
  <2>2. CASE op \in Asking
    <3>1. op \notin Reporting /\ op.session \in Nat
      BY <2>2 DEF Asking, Reporting
    <3>2. op.at = "ask"
      BY <2>2 DEF Asking
    <3> QED
      BY <1>1, <1>3, <1>5, <3>1, <3>2 DEF OpStands, Belongs
  <2>3. CASE op \in {Idle} \cup Deciding \cup Editing
    BY <2>3 DEF OpStands, Idle, Deciding, Editing, Reporting
  <2> QED
    BY <1>5, <2>1, <2>2, <2>3
<1>6. ASSUME NEW CONSTANT i \in 1 .. Len(reports)
      PROVE  ReportStands(i)'
  <2>1. ReportStands(i) /\ reports[i] \in Report /\ reports'[i] = reports[i]
    BY <1>1, <1>4, <1>6, ElementOfSeq DEF IInv, ReportsStand
  <2>2. PICK r \in Report : r = reports[i]
    BY <2>1
  <2>3. r.since \in Nat /\ r.until \in Nat /\ r.source \in Nat /\ r.until <= Len(decisions)
    BY <2>1, <2>2 DEF Report, ReportStands
  <2>4. "suggestions" \in r.snapshot.includes =>
          \E n \in r.since .. r.until : r.snapshot.suggestions = StatusAfter(r.review, n)'
    <3>1. \A n \in r.since .. r.until : n \in 0 .. Len(decisions)
      BY <1>1, <2>3
    <3> QED
      BY <1>2, <2>1, <2>2, <3>1 DEF ReportStands
  <2>5. r.format = "PDF" => reports'[r.source] = reports[r.source]
    <3>1. r.format = "PDF" => r.source # 0 /\ r.source < i
      BY <2>1, <2>2 DEF ReportStands
    <3>2. r.format = "PDF" => r.source \in 1 .. Len(reports)
      <4>1. i \in Nat /\ i <= Len(reports) /\ r.source \in Nat /\ Len(reports) \in Nat
        BY <1>1, <1>6, <2>3
      <4> QED
        BY <3>1, <4>1
    <3> QED
      BY <1>4, <3>2
  <2>6. r.until <= Len(decisions')
    BY <1>1, <1>2, <2>3
  <2>7. reports'[i] = r
    BY <2>1, <2>2
  <2> QED
    BY <2>1, <2>2, <2>4, <2>5, <2>6, <2>7 DEF ReportStands
<1> QED
  BY <1>5, <1>6

\* A report that includes nothing.
LEMMA NothingIsRead == <<>> \in Statuses /\ <<>> \in Drafts
<1>1. \A S : <<>> \in [{} -> S]
  OBVIOUS
<1> QED
  BY <1>1 DEF Statuses, Drafts

Op == {Idle} \cup Deciding \cup Asking \cup Editing \cup Reporting

\* The position of a request tells what it has in its hands.
LEMMA OpIs ==
    ASSUME NEW op \in Op
    PROVE  /\ op.at = "decide" => op \in Deciding
           /\ op.at = "ask" => op \in Asking
           /\ op.at = "draft" => op \in Editing
           /\ op.at \in {"suggestions", "drafts", "source", "report"} => op \in Reporting
BY DEF Op, Idle, Deciding, Asking, Editing, Reporting

\* One request goes on; the others and the reports stand as they did.
LEMMA RequestMoves ==
    ASSUME IInv, NEW p \in Apis, NEW op \in Op, proc' = [proc EXCEPT ![p] = op],
           \/ UNCHANGED decisions
           \/ \E d \in Decision : decisions' = Append(decisions, d),
           \/ UNCHANGED sessions
           \/ \E new \in [user : Users, review : Reviews \cup {"none"}] : sessions' = Append(sessions, new),
           \/ UNCHANGED reports
           \/ \E r \in Report : reports' = Append(reports, r),
           OpStands(op)'
    PROVE  /\ proc' \in [Apis -> Op] /\ RequestsStand'
           /\ \A i \in 1 .. Len(reports) : ReportStands(i)'
<1>1. proc \in [Apis -> Op] /\ TypeOK /\ RequestsStand
  BY DEF IInv, TypeOK, Op
<1>2. proc'[p] = op /\ \A q \in Apis \ {p} : proc'[q] = proc[q]
  BY <1>1
<1>3. /\ \A o \in Op : OpStands(o) => OpStands(o)'
      /\ \A i \in 1 .. Len(reports) : ReportStands(i)'
  BY GrowthIsHarmless DEF Op
<1>4. ASSUME NEW CONSTANT q \in Apis
      PROVE  \A o : o = proc'[q] => OpStands(o)'
  <2>1. CASE q = p
    BY <1>2, <2>1
  <2>2. CASE q # p
    BY <1>1, <1>2, <1>3, <1>4, <2>2 DEF RequestsStand
  <2> QED
    BY <2>1, <2>2
<1>5. RequestsStand'
  BY <1>4 DEF RequestsStand
<1> QED
  BY <1>1, <1>3, <1>5

\* What the rows say of suggestions and questions, when nobody writes them.
LEMMA OldRowsStand ==
    ASSUME IInv, UNCHANGED <<suggestions, decisions, sessions, messages>>
    PROVE  RowsFollowDecisions' /\ MessagesHaveSessions' /\ QuestionsAreFound'
<1>1. decisions' = decisions /\ suggestions' = suggestions /\ sessions' = sessions /\ messages' = messages
  OBVIOUS
<1>2. HasLasts(decisions')
  BY <1>1 DEF IInv, RowsFollowDecisions
<1>3. \A s \in DOMAIN Suggestions : suggestions'[s] = StatusIn(decisions', s, Len(decisions'))
  BY <1>1 DEF IInv, RowsFollowDecisions
<1>4. RowsFollowDecisions'
  BY <1>2, <1>3 DEF RowsFollowDecisions, HasLasts, StatusIn, DecisionsOn
<1>5. MessagesHaveSessions'
  BY <1>1 DEF IInv, MessagesHaveSessions
<1>6. QuestionsAreFound'
  BY <1>1 DEF IInv, QuestionsAreFound, ListQuestions
<1> QED
  BY <1>4, <1>5, <1>6

\* A step of one request that writes no row.
LEMMA QuietStep ==
    ASSUME IInv, NEW p \in Apis, NEW op \in Op, OpStands(op), proc' = [proc EXCEPT ![p] = op],
           requests' \in 0 .. MaxRequests, requests <= requests',
           UNCHANGED <<suggestions, decisions, sessions, messages, drafts, reports, comparisons>>
    PROVE  IInv'
<1>1. OpStands(op)'
  BY GrowthIsHarmless DEF Op
<1>2. /\ proc' \in [Apis -> Op] /\ RequestsStand'
      /\ \A i \in 1 .. Len(reports) : ReportStands(i)'
  BY <1>1, RequestMoves
<1>3. requests \in Nat /\ requests' \in Nat /\ Len(drafts) \in Nat /\ Len(drafts) <= requests
  BY LenProperties DEF IInv, TypeOK
<1>4. TypeOK'
  BY <1>2, <1>3 DEF IInv, TypeOK, Op
<1>5. ReportsStand'
  BY <1>2 DEF ReportsStand
<1>6. RowsFollowDecisions' /\ MessagesHaveSessions' /\ QuestionsAreFound'
  BY OldRowsStand
<1> QED
  BY <1>2, <1>4, <1>5, <1>6 DEF IInv

(***************************************************************************)
(* The actions.                                                            *)
(***************************************************************************)

\* A request that begins has gathered nothing yet (decide, question,
\* update_draft, create_report).
LEMMA BeginKeeps ==
    ASSUME IInv, RightsAreOfReviews, NEW p \in Apis,
           BeginDecision(p) \/ BeginQuestion(p) \/ BeginDraftUpdate(p) \/ BeginReport(p)
    PROVE  IInv'
<1>1. ASSUME NEW op \in Op, OpStands(op), Begins(p, op),
             UNCHANGED <<suggestions, decisions, sessions, messages, drafts, reports, comparisons>>
      PROVE  IInv'
  <2>1. requests' \in 0 .. MaxRequests /\ requests <= requests'
    BY <1>1 DEF Begins, IInv, TypeOK, RightsAreOfReviews
  <2>2. proc' = [proc EXCEPT ![p] = op]
    BY <1>1 DEF Begins
  <2> QED
    BY <1>1, <2>1, <2>2, QuietStep
<1>2. CASE BeginDecision(p)
  <2>1. PICK s \in DOMAIN Suggestions, status \in {"ACCEPTED", "REJECTED", "MODIFIED_AND_USED"} :
          Begins(p, [at |-> "decide", suggestion |-> s, status |-> status])
    BY <1>2 DEF BeginDecision
  <2>2. PICK op : op = [at |-> "decide", suggestion |-> s, status |-> status]
    OBVIOUS
  <2>3. op \in Deciding
    BY <2>2 DEF Deciding, Status
  <2>4. op \in Op /\ OpStands(op)
    BY <2>3 DEF Op, OpStands, Deciding, Reporting
  <2> QED
    BY <1>1, <1>2, <2>1, <2>2, <2>4 DEF BeginDecision
<1>3. CASE BeginQuestion(p)
  <2>1. PICK u \in Users, review \in Reviews \cup {"none"}, session \in 0 .. Len(sessions) :
          /\ session > 0 => Belongs(session, u, review)
          /\ Begins(p, [at |-> "ask", user |-> u, review |-> review, session |-> session])
    BY <1>3 DEF BeginQuestion
  <2>2. PICK op : op = [at |-> "ask", user |-> u, review |-> review, session |-> session]
    OBVIOUS
  <2>3. session \in Nat
    BY LenProperties DEF IInv, TypeOK
  <2>4. op \in Asking /\ op \notin Reporting
    BY <2>2, <2>3 DEF Asking, Reporting
  <2>5. op \in Op /\ OpStands(op)
    BY <2>1, <2>2, <2>4 DEF Op, OpStands
  <2> QED
    BY <1>1, <1>3, <2>1, <2>2, <2>5 DEF BeginQuestion
<1>4. CASE BeginDraftUpdate(p)
  <2>1. PICK u \in Reviewers, d \in DOMAIN drafts : Begins(p, [at |-> "draft", draft |-> d, final |-> u])
    BY <1>4 DEF BeginDraftUpdate
  <2>2. PICK op : op = [at |-> "draft", draft |-> d, final |-> u]
    OBVIOUS
  <2>3. d \in Nat /\ u \in Users
    BY LenProperties DEF IInv, TypeOK, RightsAreOfReviews
  <2>4. op \in Editing
    BY <2>2, <2>3 DEF Editing
  <2>5. op \in Op /\ OpStands(op)
    BY <2>4 DEF Op, OpStands, Editing, Reporting
  <2> QED
    BY <1>1, <1>4, <2>1, <2>2, <2>5 DEF BeginDraftUpdate
<1>5. CASE BeginReport(p)
  <2>1. PICK u \in Reviewers, format \in Format, includes \in SUBSET {"suggestions", "drafts"},
             fails \in BOOLEAN :
          \E review \in Sees[u] :
             Begins(p, [at |-> "suggestions", review |-> review, format |-> format, includes |-> includes,
                        fails |-> fails, source |-> 0, suggestions |-> <<>>, drafts |-> <<>>,
                        since |-> Len(decisions)])
    BY <1>5 DEF BeginReport, Format
  <2>2. PICK review \in Sees[u] :
          Begins(p, [at |-> "suggestions", review |-> review, format |-> format, includes |-> includes,
                     fails |-> fails, source |-> 0, suggestions |-> <<>>, drafts |-> <<>>,
                     since |-> Len(decisions)])
    BY <2>1
  <2>3. review \in Reviews /\ Len(decisions) \in Nat
    BY LenProperties DEF IInv, TypeOK, RightsAreOfReviews
  <2>4. <<>> \in Statuses /\ <<>> \in Drafts
    BY NothingIsRead
  <2>5. PICK op : op = [at |-> "suggestions", review |-> review, format |-> format, includes |-> includes,
                        fails |-> fails, source |-> 0, suggestions |-> <<>>, drafts |-> <<>>,
                        since |-> Len(decisions)]
    OBVIOUS
  <2>6. op \in Reporting
    BY <2>3, <2>4, <2>5 DEF Reporting
  <2>7. op \in Op /\ op.at = "suggestions" /\ op.source = 0 /\ op.since = Len(decisions)
    BY <2>5, <2>6 DEF Op
  <2>8. OpStands(op)
    BY <2>3, <2>7 DEF OpStands
  <2> QED
    BY <1>1, <1>5, <2>2, <2>5, <2>7, <2>8 DEF BeginReport
<1> QED
  BY <1>2, <1>3, <1>4, <1>5

\* A request whose process dies leaves what it has committed.
LEMMA CrashKeeps ==
    ASSUME IInv, NEW p \in Apis, Crash(p)
    PROVE  IInv'
<1>1. Idle \in Op /\ OpStands(Idle)
  BY DEF Op, OpStands, Idle, Reporting
<1>2. requests' \in 0 .. MaxRequests /\ requests <= requests'
  BY DEF Crash, Goes, IInv, TypeOK
<1> QED
  BY <1>1, <1>2, QuietStep DEF Crash, Goes

\* What a report reads is what the rows say at that moment (create_report).
LEMMA ReadKeeps ==
    ASSUME IInv, RightsAreOfReviews, NEW p \in Apis, ReadSuggestions(p) \/ ReadDrafts(p)
    PROVE  IInv'
<1>1. PICK r : r = proc[p]
  OBVIOUS
<1>2. r \in Op /\ OpStands(r) /\ r.at \in {"suggestions", "drafts"}
  BY <1>1 DEF IInv, TypeOK, RequestsStand, ReadSuggestions, ReadDrafts, Op
<1>3. r \in Reporting
  BY <1>2, OpIs
<1>4. requests' \in 0 .. MaxRequests /\ requests <= requests'
  BY DEF ReadSuggestions, ReadDrafts, Goes, IInv, TypeOK
<1>5. CASE ReadSuggestions(p)
  <2> DEFINE read == IF "suggestions" \in r.includes THEN SuggestionsOf(r.review) ELSE <<>>
  <2>1. r.at = "suggestions" /\ proc' = [proc EXCEPT ![p] = [r EXCEPT !.at = "drafts", !.suggestions = read]]
    BY <1>1, <1>5 DEF ReadSuggestions, Goes
  <2>2. read \in Statuses
    <3> DEFINE own == {x \in DOMAIN Suggestions : Suggestions[x] = r.review}
    <3>1. SuggestionsOf(r.review) \in Statuses
      <4>1. SuggestionsOf(r.review) = [s \in own |-> suggestions[s]]
        BY DEF SuggestionsOf
      <4>2. own \in SUBSET DOMAIN Suggestions /\ \A s \in own : suggestions[s] \in Status
        BY DEF IInv, TypeOK
      <4> HIDE DEF own
      <4>3. [s \in own |-> suggestions[s]] \in [own -> Status]
        BY <4>2
      <4> QED
        BY <4>1, <4>2, <4>3 DEF Statuses
    <3> QED
      BY <3>1, NothingIsRead
  <2>3. "suggestions" \in r.includes => read = StatusAfter(r.review, Len(decisions))
    <3>1. SuggestionsOf(r.review) = StatusAfter(r.review, Len(decisions))
      BY StatusAfterIs DEF SuggestionsOf, IInv, RowsFollowDecisions
    <3> QED
      BY <3>1
  <2> HIDE DEF read
  <2>4. PICK op : op = [r EXCEPT !.at = "drafts", !.suggestions = read]
    OBVIOUS
  <2>5. /\ op \in Reporting /\ op.at = "drafts" /\ op.suggestions = read
        /\ op.includes = r.includes /\ op.review = r.review /\ op.since = r.since /\ op.source = r.source
    BY <1>3, <2>2, <2>4 DEF Reporting
  <2>6. r.since \in Nat /\ r.since <= Len(decisions) /\ r.source = 0 /\ Len(decisions) \in Nat
    BY <1>2, <1>3, <2>1, LenProperties DEF OpStands, Reporting, IInv, TypeOK
  <2>7. Len(decisions) \in op.since .. Len(decisions)
    BY <2>5, <2>6
  <2>8. OpStands(op)
    BY <2>3, <2>5, <2>6, <2>7 DEF OpStands
  <2> QED
    BY <1>4, <1>5, <2>1, <2>4, <2>5, <2>8, QuietStep DEF Op, ReadSuggestions
<1>6. CASE ReadDrafts(p)
  <2> DEFINE read == IF "drafts" \in r.includes THEN DraftsOf(r.review) ELSE <<>>
             next == IF r.format = "PDF" THEN "source" ELSE "report"
  <2>1. r.at = "drafts" /\ proc' = [proc EXCEPT ![p] = [r EXCEPT !.at = next, !.drafts = read]]
    BY <1>1, <1>6 DEF ReadDrafts, Goes
  <2>2. read \in Drafts
    <3> DEFINE own == {x \in DOMAIN drafts : drafts[x].review = r.review}
    <3>1. DOMAIN drafts = 1 .. Len(drafts) /\ \A d \in 1 .. Len(drafts) : drafts[d] \in Draft
      BY ElementOfSeq, LenProperties DEF IInv, TypeOK
    <3>2. DOMAIN drafts \subseteq 1 .. MaxRequests
      <4>1. Len(drafts) \in Nat /\ Len(drafts) <= requests /\ requests \in 0 .. MaxRequests
        BY LenProperties DEF IInv, TypeOK
      <4>2. MaxRequests \in Nat
        BY DEF RightsAreOfReviews
      <4> QED
        BY <3>1, <4>1, <4>2
    <3>3. DraftsOf(r.review) \in Drafts
      <4>1. DraftsOf(r.review) = [d \in own |-> drafts[d]]
        BY DEF DraftsOf
      <4>2. own \in SUBSET (1 .. MaxRequests) /\ \A d \in own : drafts[d] \in Draft
        BY <3>1, <3>2
      <4> HIDE DEF own
      <4>3. [d \in own |-> drafts[d]] \in [own -> Draft]
        BY <4>2
      <4> QED
        BY <4>1, <4>2, <4>3 DEF Drafts
    <3> QED
      BY <3>3, NothingIsRead
  <2>3. \A k \in DOMAIN read : read[k].review = r.review
    BY DEF DraftsOf
  <2> HIDE DEF read
  <2>4. PICK op : op = [r EXCEPT !.at = next, !.drafts = read]
    OBVIOUS
  <2>5. /\ op \in Reporting /\ op.at = next /\ op.drafts = read /\ op.suggestions = r.suggestions
        /\ op.format = r.format /\ op.includes = r.includes /\ op.review = r.review
        /\ op.since = r.since /\ op.source = r.source
    BY <1>3, <2>2, <2>4 DEF Reporting
  <2>6. OpStands(op)
    BY <1>2, <1>3, <2>1, <2>3, <2>5 DEF OpStands
  <2> QED
    BY <1>4, <1>6, <2>1, <2>4, <2>5, <2>6, QuietStep DEF Op, ReadDrafts
<1> QED
  BY <1>5, <1>6

\* A decision changes a row and the history in one transaction (save_decision).
LEMMA SaveDecisionKeeps ==
    ASSUME IInv, NEW p \in Apis, SaveDecision(p)
    PROVE  IInv'
<1>1. PICK d : d = proc[p]
  OBVIOUS
<1>2. d \in Deciding
  BY <1>1, OpIs DEF IInv, TypeOK, Op, SaveDecision
<1>3. PICK decision \in Decision :
        /\ decision.suggestion = d.suggestion /\ decision.status = d.status
        /\ decisions' = Append(decisions, decision)
  <2>1. [suggestion |-> d.suggestion, status |-> d.status] \in Decision
    BY <1>2 DEF Deciding, Decision
  <2> QED
    BY <1>1, <2>1 DEF SaveDecision
<1>4. /\ decisions \in Seq(Decision) /\ decisions' \in Seq(Decision) /\ HasLasts(decisions)
      /\ Len(decisions') = Len(decisions) + 1
  BY <1>3, AppendProperties DEF IInv, TypeOK, Decision, RowsFollowDecisions
<1>5. suggestions' \in [DOMAIN Suggestions -> Status]
      /\ \A s \in DOMAIN Suggestions : suggestions'[s] = IF s = d.suggestion THEN d.status ELSE suggestions[s]
  BY <1>1, <1>2 DEF SaveDecision, IInv, TypeOK, Deciding
<1>6. HasLasts(decisions')
  BY <1>3, <1>4, LastsAreKept
<1>7. \A s \in DOMAIN Suggestions : suggestions'[s] = StatusIn(decisions', s, Len(decisions'))
  BY <1>3, <1>4, <1>5, DecisionCounts DEF IInv, RowsFollowDecisions
<1>8. RowsFollowDecisions'
  BY <1>6, <1>7 DEF RowsFollowDecisions, HasLasts, StatusIn, DecisionsOn
<1>9. Idle \in Op /\ OpStands(Idle)'
  BY DEF Op, OpStands, Idle, Reporting
<1>10. proc' = [proc EXCEPT ![p] = Idle]
       /\ UNCHANGED <<sessions, messages, drafts, reports, comparisons, requests>>
  BY DEF SaveDecision, Goes
<1>11. /\ proc' \in [Apis -> Op] /\ RequestsStand'
       /\ \A i \in 1 .. Len(reports) : ReportStands(i)'
  BY <1>3, <1>9, <1>10, RequestMoves
<1>12. TypeOK'
  BY <1>4, <1>5, <1>10, <1>11 DEF IInv, TypeOK, Op, Decision
<1>13. ReportsStand'
  BY <1>10, <1>11 DEF ReportsStand
<1>14. MessagesHaveSessions' /\ QuestionsAreFound'
  <2>1. sessions' = sessions /\ messages' = messages
    BY <1>10
  <2> QED
    BY <2>1 DEF IInv, MessagesHaveSessions, QuestionsAreFound, ListQuestions
<1> QED
  BY <1>8, <1>11, <1>12, <1>13, <1>14 DEF IInv

\* A message is found in its session.
FoundIn(i) ==
    LET session == sessions[messages[i].session]
    IN messages[i].user = session.user /\ messages[i].review \in {"none", session.review}

LEMMA FoundIs ==
    ASSUME TypeOK
    PROVE  QuestionsAreFound <=>
             /\ \A i \in 1 .. Len(messages) : FoundIn(i)
             /\ \A s \in 1 .. Len(sessions) : \E i \in 1 .. Len(messages) : messages[i].session = s
<1>1. DOMAIN messages = 1 .. Len(messages)
  BY LenProperties DEF TypeOK
<1> QED
  BY <1>1 DEF QuestionsAreFound, FoundIn, ListQuestions

\* A question is saved with its session, new or checked before (save_question).
LEMMA SaveQuestionKeeps ==
    ASSUME IInv, NEW p \in Apis, SaveQuestion(p)
    PROVE  IInv'
<1> DEFINE Session == [user : Users, review : Reviews \cup {"none"}]
           Message == [session : Nat, user : Users, review : Reviews \cup {"none"}]
<1>1. PICK q : q = proc[p]
  OBVIOUS
<1>2. q \in Asking /\ OpStands(q) /\ q.at = "ask"
  BY <1>1, OpIs DEF IInv, TypeOK, Op, SaveQuestion, RequestsStand
<1>3. PICK n : n = IF q.session = 0 THEN Len(sessions) + 1 ELSE q.session
  OBVIOUS
<1>4. /\ sessions \in Seq(Session) /\ messages \in Seq(Message)
      /\ Len(sessions) \in Nat /\ Len(messages) \in Nat
  BY LenProperties DEF IInv, TypeOK
<1>5. q.session \in 0 .. Len(sessions) /\ q.user \in Users /\ q.review \in Reviews \cup {"none"}
  BY <1>2 DEF OpStands, Asking
<1>6. PICK new \in Session : new.user = q.user /\ new.review = q.review
                             /\ sessions' = IF q.session = 0 THEN Append(sessions, new) ELSE sessions
  <2>1. [user |-> q.user, review |-> q.review] \in Session
    BY <1>5
  <2> QED
    BY <1>1, <2>1 DEF SaveQuestion
<1>7. PICK message \in Message : message.session = n /\ message.user = q.user /\ message.review = q.review
                                 /\ messages' = Append(messages, message)
  <2>1. n \in Nat
    BY <1>3, <1>4, <1>5
  <2>2. [session |-> n, user |-> q.user, review |-> q.review] \in Message
    BY <1>5, <2>1
  <2> QED
    BY <1>1, <1>3, <2>2 DEF SaveQuestion
<1>8. /\ sessions' \in Seq(Session) /\ Len(sessions') \in Nat /\ Len(sessions) <= Len(sessions')
      /\ \A s \in 1 .. Len(sessions) : sessions'[s] = sessions[s]
      /\ \A s \in 1 .. Len(sessions') : s \in 1 .. Len(sessions) \/ s = n
      /\ n \in 1 .. Len(sessions')
      /\ sessions'[n].user = q.user /\ q.review \in {"none", sessions'[n].review}
  <2>1. CASE q.session = 0
    BY <1>3, <1>4, <1>6, <2>1, AppendProperties
  <2>2. CASE q.session # 0
    <3>1. n = q.session /\ sessions' = sessions
      BY <1>3, <1>6, <2>2
    <3>2. n \in 1 .. Len(sessions) /\ q.session > 0
      BY <1>4, <1>5, <2>2, <3>1
    <3>3. Belongs(n, q.user, q.review)
      BY <1>2, <3>1, <3>2 DEF OpStands
    <3> QED
      BY <1>4, <3>1, <3>2, <3>3 DEF Belongs
  <2> QED
    BY <2>1, <2>2
<1>9. /\ messages' \in Seq(Message) /\ Len(messages') = Len(messages) + 1
      /\ messages'[Len(messages) + 1] = message
      /\ \A i \in 1 .. Len(messages) : messages'[i] = messages[i]
  BY <1>4, <1>7, AppendProperties
<1>10. Idle \in Op /\ OpStands(Idle)'
  BY DEF Op, OpStands, Idle, Reporting
<1>11. proc' = [proc EXCEPT ![p] = Idle]
       /\ UNCHANGED <<suggestions, decisions, drafts, reports, comparisons, requests>>
  BY DEF SaveQuestion, Goes
<1>12. /\ proc' \in [Apis -> Op] /\ RequestsStand'
       /\ \A i \in 1 .. Len(reports) : ReportStands(i)'
  BY <1>6, <1>10, <1>11, RequestMoves
<1>13. TypeOK'
  BY <1>8, <1>9, <1>11, <1>12 DEF IInv, TypeOK, Op
<1> HIDE DEF Session, Message
<1>14. /\ \A i \in 1 .. Len(messages') : i \in 1 .. Len(messages) \/ i = Len(messages) + 1
       /\ DOMAIN messages' = 1 .. Len(messages') /\ Len(messages) + 1 \in 1 .. Len(messages')
       /\ \A i \in 1 .. Len(messages) : i \in 1 .. Len(messages')
  BY <1>4, <1>9, LenProperties
<1>15. \A i \in 1 .. Len(messages) : messages[i].session \in 1 .. Len(sessions)
  BY DEF IInv, MessagesHaveSessions
<1>16. \A s \in 1 .. Len(sessions) : s \in 1 .. Len(sessions') /\ sessions'[s] = sessions[s]
  BY <1>4, <1>8
<1>17. MessagesHaveSessions'
  <2>1. \A i \in 1 .. Len(messages) : messages'[i].session \in 1 .. Len(sessions')
    BY <1>9, <1>15, <1>16
  <2>2. messages'[Len(messages) + 1].session \in 1 .. Len(sessions')
    BY <1>7, <1>8, <1>9
  <2> QED
    BY <1>14, <2>1, <2>2 DEF MessagesHaveSessions
<1>18. QuestionsAreFound'
  <2>1. /\ \A i \in 1 .. Len(messages) : FoundIn(i)
        /\ \A s \in 1 .. Len(sessions) : \E i \in 1 .. Len(messages) : messages[i].session = s
    BY FoundIs DEF IInv
  <2>2. \A i \in 1 .. Len(messages) : FoundIn(i)'
    BY <1>9, <1>15, <1>16, <2>1 DEF FoundIn
  <2>3. \A i : i = Len(messages) + 1 => FoundIn(i)'
    BY <1>7, <1>8, <1>9 DEF FoundIn
  <2>4. \A i \in 1 .. Len(messages') : FoundIn(i)'
    BY <1>14, <2>2, <2>3
  <2>5. ASSUME NEW CONSTANT s \in 1 .. Len(sessions')
        PROVE  \E i \in 1 .. Len(messages') : messages'[i].session = s
    <3>1. CASE s = n
      BY <1>7, <1>9, <1>14, <3>1
    <3>2. CASE s # n
      <4>1. s \in 1 .. Len(sessions)
        BY <1>8, <2>5, <3>2
      <4>2. PICK i \in 1 .. Len(messages) : messages[i].session = s
        BY <2>1, <4>1
      <4> QED
        BY <1>9, <1>14, <4>2
    <3> QED
      BY <3>1, <3>2
  <2> QED
    BY <1>14, <2>4, <2>5 DEF QuestionsAreFound, FoundIn, ListQuestions
<1>19. ReportsStand'
  BY <1>11, <1>12 DEF ReportsStand
<1>20. RowsFollowDecisions'
  BY <1>11 DEF IInv, RowsFollowDecisions, HasLasts, StatusIn, DecisionsOn
<1> QED
  BY <1>12, <1>13, <1>17, <1>18, <1>19, <1>20 DEF IInv

\* Drafts and comparisons are rows of their own (create_draft, update_draft,
\* create_comparison).
LEMMA OtherRowsKeep ==
    ASSUME IInv, RightsAreOfReviews, CreateDraft \/ Compare \/ \E p \in Apis : SaveDraftUpdate(p)
    PROVE  IInv'
<1>1. UNCHANGED <<suggestions, decisions, sessions, messages, reports>>
  BY DEF CreateDraft, Compare, SaveDraftUpdate
<1>2. RowsFollowDecisions' /\ MessagesHaveSessions' /\ QuestionsAreFound'
  BY <1>1, OldRowsStand
<1>3. /\ \A op \in Op : OpStands(op) => OpStands(op)'
      /\ \A i \in 1 .. Len(reports) : ReportStands(i)'
  BY <1>1, GrowthIsHarmless DEF Op
<1>4. ReportsStand'
  BY <1>1, <1>3 DEF ReportsStand
<1>5. proc \in [Apis -> Op] /\ RequestsStand
  BY DEF IInv, TypeOK, Op
<1>6. /\ requests \in Nat /\ MaxRequests \in Nat /\ requests <= MaxRequests
      /\ drafts \in Seq(Draft) /\ Len(drafts) \in Nat /\ Len(drafts) <= requests
  BY LenProperties DEF IInv, TypeOK, RightsAreOfReviews
<1>7. CASE CreateDraft \/ Compare
  <2>1. UNCHANGED proc /\ requests < MaxRequests /\ requests' = requests + 1
    BY <1>7 DEF CreateDraft, Compare
  <2>2. RequestsStand'
    BY <1>3, <1>5, <2>1 DEF RequestsStand
  <2>3. drafts' \in Seq(Draft) /\ Len(drafts') <= Len(drafts) + 1
    <3>1. CASE CreateDraft
      <4>1. PICK u \in Reviewers : \E review \in Sees[u] :
              drafts' = Append(drafts, [review |-> review, final |-> "none"])
        BY <3>1 DEF CreateDraft
      <4>2. PICK review \in Sees[u] : drafts' = Append(drafts, [review |-> review, final |-> "none"])
        BY <4>1
      <4>3. PICK d : d = [review |-> review, final |-> "none"]
        OBVIOUS
      <4>4. d \in Draft
        BY <4>3 DEF RightsAreOfReviews, Draft
      <4> QED
        BY <1>6, <4>2, <4>3, <4>4, AppendProperties
    <3>2. CASE Compare
      BY <1>6, <3>2 DEF Compare
    <3> QED
      BY <1>7, <3>1, <3>2
  <2>4. Len(drafts') \in Nat
    BY <2>3, LenProperties
  <2>5. requests' \in 0 .. MaxRequests /\ Len(drafts') <= requests'
    BY <1>6, <2>1, <2>3, <2>4
  <2>6. TypeOK'
    BY <1>1, <2>1, <2>3, <2>5 DEF IInv, TypeOK
  <2> QED
    BY <1>2, <1>4, <2>2, <2>6 DEF IInv
<1>8. ASSUME NEW p \in Apis, SaveDraftUpdate(p)
      PROVE  IInv'
  <2>1. PICK e : e = proc[p]
    OBVIOUS
  <2>2. e \in Editing
    BY <1>5, <1>8, <2>1, OpIs DEF SaveDraftUpdate
  <2>3. /\ drafts' = [drafts EXCEPT ![e.draft].final = e.final]
        /\ proc' = [proc EXCEPT ![p] = Idle] /\ UNCHANGED requests
    BY <1>8, <2>1 DEF SaveDraftUpdate, Goes
  <2>4. drafts' \in Seq(Draft) /\ Len(drafts') = Len(drafts)
    <3>1. PICK final \in Users : final = e.final
      BY <2>2 DEF Editing
    <3>2. \A d \in Draft : [d EXCEPT !.final = final] \in Draft
      BY DEF Draft
    <3>3. drafts' = [drafts EXCEPT ![e.draft] = [@ EXCEPT !.final = final]]
      BY <2>3, <3>1
    <3>4. CASE e.draft \in 1 .. Len(drafts)
      BY <1>6, <3>2, <3>3, <3>4, ExceptSeq, ElementOfSeq
    <3>5. CASE e.draft \notin 1 .. Len(drafts)
      <4>1. drafts' = drafts
        BY <1>6, <3>3, <3>5, LenProperties
      <4> QED
        BY <1>6, <4>1
    <3> QED
      BY <3>4, <3>5
  <2>5. Idle \in Op /\ OpStands(Idle)'
    BY DEF Op, OpStands, Idle, Reporting
  <2>6. proc' \in [Apis -> Op] /\ RequestsStand'
    BY <1>1, <2>3, <2>5, RequestMoves
  <2>7. TypeOK'
    BY <1>1, <1>6, <2>3, <2>4, <2>6 DEF IInv, TypeOK, Op
  <2> QED
    BY <1>2, <1>4, <2>6, <2>7 DEF IInv
<1> QED
  BY <1>7, <1>8

\* A report is saved as it was gathered (_save_report).
LEMMA SavedKeeps ==
    ASSUME IInv, NEW p \in Apis, NEW r \in Reporting, OpStands(r), r.at \in {"source", "report"},
           NEW format \in Format, NEW source \in Nat,
           reports' = Append(reports, SavedReport(r, format, source)),
           format = "PDF" <=> source # 0,
           format = "PDF" =>
             /\ source \in 1 .. Len(reports) /\ reports[source].format = "HWPX"
             /\ reports[source].status = "CREATED" /\ reports[source].snapshot = Snapshot(r),
           NEW op \in Op, OpStands(op)', proc' = [proc EXCEPT ![p] = op],
           UNCHANGED <<suggestions, decisions, sessions, messages, drafts, comparisons, requests>>
    PROVE  IInv'
<1>1. PICK new : new = SavedReport(r, format, source)
  OBVIOUS
<1>2. reports \in Seq(Report) /\ Len(reports) \in Nat /\ Len(decisions) \in Nat
  BY LenProperties DEF IInv, TypeOK
<1>3. Snapshot(r) \in Content
  BY DEF Snapshot, Content, Reporting
<1>4. /\ new \in Report /\ new.review = r.review /\ new.format = format /\ new.source = source
      /\ new.snapshot = Snapshot(r) /\ new.since = r.since /\ new.until = Len(decisions)
  BY <1>1, <1>2, <1>3 DEF SavedReport, Report, Reporting, Format
<1>5. /\ reports' \in Seq(Report) /\ Len(reports') = Len(reports) + 1
      /\ reports'[Len(reports) + 1] = new
      /\ \A i \in 1 .. Len(reports) : reports'[i] = reports[i]
  BY <1>1, <1>2, <1>4, AppendProperties
<1>6. /\ proc' \in [Apis -> Op] /\ RequestsStand'
      /\ \A i \in 1 .. Len(reports) : ReportStands(i)'
  BY <1>1, <1>4, RequestMoves
<1>7. /\ Snapshot(r).review = r.review /\ Snapshot(r).includes = r.includes
      /\ Snapshot(r).suggestions = r.suggestions /\ Snapshot(r).drafts = r.drafts
  BY DEF Snapshot
<1>8. "suggestions" \in r.includes =>
        \E n \in r.since .. Len(decisions) : r.suggestions = StatusAfter(r.review, n)'
  <2>1. \A review, n : StatusAfter(review, n)' = StatusAfter(review, n)
    BY DEF StatusAfter
  <2> QED
    BY <2>1 DEF OpStands
<1>9. ASSUME NEW CONSTANT i, i = Len(reports) + 1
      PROVE  ReportStands(i)'
  <2>1. \A k \in DOMAIN r.drafts : r.drafts[k].review = r.review
    BY DEF OpStands
  <2>2. format = "PDF" => source < i /\ reports'[source] = reports[source]
    BY <1>2, <1>5, <1>9
  <2>3. reports'[i] = new
    BY <1>5, <1>9
  <2>4. new.until <= Len(decisions')
    BY <1>2, <1>4
  <2> QED
    BY <1>4, <1>7, <1>8, <2>1, <2>2, <2>3, <2>4 DEF ReportStands
<1>10. ReportsStand'
  <2>1. \A i \in 1 .. Len(reports') : i \in 1 .. Len(reports) \/ i = Len(reports) + 1
    BY <1>2, <1>5
  <2> QED
    BY <1>6, <1>9, <2>1 DEF ReportsStand
<1>11. TypeOK'
  BY <1>5, <1>6 DEF IInv, TypeOK, Op
<1>12. RowsFollowDecisions' /\ MessagesHaveSessions' /\ QuestionsAreFound'
  BY OldRowsStand
<1> QED
  BY <1>6, <1>10, <1>11, <1>12 DEF IInv

\* The report of a request, and the one that it is made from (create_report).
LEMMA SaveReportKeeps ==
    ASSUME IInv, NEW p \in Apis, SaveSourceReport(p) \/ SaveReport(p)
    PROVE  IInv'
<1>1. PICK r : r = proc[p]
  OBVIOUS
<1>2. r \in Op /\ OpStands(r) /\ r.at \in {"source", "report"}
  BY <1>1 DEF IInv, TypeOK, RequestsStand, SaveSourceReport, SaveReport, Op
<1>3. r \in Reporting
  BY <1>2, OpIs
<1>4. reports \in Seq(Report) /\ Len(reports) \in Nat
  BY LenProperties DEF IInv, TypeOK
<1>5. CASE SaveReport(p)
  <2>1. /\ r.at = "report" /\ reports' = Append(reports, SavedReport(r, r.format, r.source))
        /\ proc' = [proc EXCEPT ![p] = Idle]
        /\ UNCHANGED <<suggestions, decisions, sessions, messages, drafts, comparisons, requests>>
    BY <1>1, <1>5 DEF SaveReport, Goes
  <2>2. Idle \in Op /\ OpStands(Idle)'
    BY DEF Op, OpStands, Idle, Reporting
  <2>3. /\ r.format = "PDF" <=> r.source # 0
        /\ r.format = "PDF" =>
             /\ r.source \in 1 .. Len(reports) /\ reports[r.source].format = "HWPX"
             /\ reports[r.source].status = "CREATED" /\ reports[r.source].snapshot = Snapshot(r)
    BY <1>2, <1>3, <2>1 DEF OpStands
  <2>4. r.format \in Format /\ r.source \in Nat
    BY <1>3 DEF Reporting
  <2> QED
    BY <1>2, <1>3, <2>1, <2>2, <2>3, <2>4, SavedKeeps
<1>6. CASE SaveSourceReport(p)
  <2> DEFINE last == Len(reports) + 1
  <2> last \in Nat
    BY <1>4
  <2> HIDE DEF last
  <2>1. PICK op : op = [r EXCEPT !.at = "report", !.source = last]
    OBVIOUS
  <2>2. /\ r.at = "source" /\ reports' = Append(reports, SavedReport(r, "HWPX", 0))
        /\ proc' = [proc EXCEPT ![p] = op]
        /\ UNCHANGED <<suggestions, decisions, sessions, messages, drafts, comparisons, requests>>
    BY <1>1, <1>6, <2>1 DEF SaveSourceReport, Goes, last
  <2>3. /\ op \in Reporting /\ op.at = "report" /\ op.source = last
        /\ op.format = r.format /\ op.includes = r.includes /\ op.review = r.review /\ op.since = r.since
        /\ op.suggestions = r.suggestions /\ op.drafts = r.drafts
    BY <1>3, <2>1 DEF Reporting
  <2>4. Snapshot(op) = Snapshot(r)
    BY <2>3 DEF Snapshot
  <2>5. PICK new : new = SavedReport(r, "HWPX", 0)
    OBVIOUS
  <2>6. new.format = "HWPX" /\ new.status = "CREATED" /\ new.snapshot = Snapshot(r)
    BY <2>5 DEF SavedReport
  <2>7. Len(reports') = Len(reports) + 1 /\ reports'[Len(reports) + 1] = new
    BY <1>4, <2>2, <2>5, AppendProperties
  <2>8. OpStands(op)'
    <3>1. /\ op.since <= Len(decisions') /\ op.format = "PDF" /\ op.source # 0
          /\ op.source \in 1 .. Len(reports')
      BY <1>2, <1>3, <1>4, <2>2, <2>3, <2>7 DEF OpStands, last
    <3>2. "suggestions" \in op.includes =>
            \E n \in op.since .. Len(decisions') : op.suggestions = StatusAfter(op.review, n)'
      <4>1. \A review, n : StatusAfter(review, n)' = StatusAfter(review, n)
        BY <2>2 DEF StatusAfter
      <4> QED
        BY <1>2, <1>3, <2>2, <2>3, <4>1 DEF OpStands
    <3>3. \A k \in DOMAIN op.drafts : op.drafts[k].review = op.review
      BY <1>2, <1>3, <2>2, <2>3 DEF OpStands
    <3> QED
      BY <2>3, <2>4, <2>6, <2>7, <3>1, <3>2, <3>3 DEF OpStands, Snapshot, last
  <2> QED
    BY <1>2, <1>3, <2>2, <2>3, <2>8, SavedKeeps DEF Op, Format
<1> QED
  BY <1>5, <1>6

(***************************************************************************)
(* The theorems.                                                           *)
(***************************************************************************)
LEMMA NextInvariant ==
    ASSUME RightsAreOfReviews
    PROVE  IInv /\ [Next]_vars => IInv'
<1> SUFFICES ASSUME IInv, [Next]_vars PROVE IInv'
  OBVIOUS
<1>1. CASE CreateDraft \/ Compare
  BY <1>1, OtherRowsKeep
<1>2. ASSUME NEW p \in Apis,
             BeginDecision(p) \/ BeginQuestion(p) \/ BeginDraftUpdate(p) \/ BeginReport(p)
      PROVE  IInv'
  BY <1>2, BeginKeeps
<1>3. ASSUME NEW p \in Apis, SaveDecision(p) PROVE IInv'
  BY <1>3, SaveDecisionKeeps
<1>4. ASSUME NEW p \in Apis, SaveQuestion(p) PROVE IInv'
  BY <1>4, SaveQuestionKeeps
<1>5. ASSUME NEW p \in Apis, SaveDraftUpdate(p) PROVE IInv'
  BY <1>5, OtherRowsKeep
<1>6. ASSUME NEW p \in Apis, ReadSuggestions(p) \/ ReadDrafts(p) PROVE IInv'
  BY <1>6, ReadKeeps
<1>7. ASSUME NEW p \in Apis, SaveSourceReport(p) \/ SaveReport(p) PROVE IInv'
  BY <1>7, SaveReportKeeps
<1>8. ASSUME NEW p \in Apis, Crash(p) PROVE IInv'
  BY <1>8, CrashKeeps
<1>9. CASE UNCHANGED vars
  <2>1. /\ \A op \in Op : OpStands(op) => OpStands(op)'
        /\ \A i \in 1 .. Len(reports) : ReportStands(i)'
    BY <1>9, GrowthIsHarmless DEF Op, vars
  <2>2. proc \in [Apis -> Op] /\ RequestsStand
    BY DEF IInv, TypeOK, Op
  <2>3. RequestsStand' /\ ReportsStand'
    BY <1>9, <2>1, <2>2 DEF vars, RequestsStand, ReportsStand
  <2>4. TypeOK'
    BY <1>9 DEF vars, IInv, TypeOK
  <2>5. RowsFollowDecisions' /\ MessagesHaveSessions' /\ QuestionsAreFound'
    BY <1>9, OldRowsStand DEF vars
  <2> QED
    BY <2>3, <2>4, <2>5 DEF IInv
<1> QED
  BY <1>1, <1>2, <1>3, <1>4, <1>5, <1>6, <1>7, <1>8, <1>9 DEF Next

\* All of the invariant, in every reachable state.
THEOREM Inductive ==
    ASSUME RightsAreOfReviews
    PROVE  Spec => []IInv
<1>1. Init => IInv
  BY InitInvariant
<1> QED
  BY <1>1, NextInvariant, PTL DEF Spec

\* The rows of the support routes and the requests under way keep their types.
THEOREM Types ==
    ASSUME RightsAreOfReviews
    PROVE  Spec => []TypeOK
<1>1. IInv => TypeOK
  BY DEF IInv
<1> QED
  BY <1>1, Inductive, PTL

\* The suggestions of a report are those of one moment although decisions are taken
\* while it is made, its drafts are drafts of its review, and a PDF has the content of
\* the HWPX report it is made from (create_report, save_decision).
THEOREM ReportsShowOneMoment ==
    ASSUME RightsAreOfReviews
    PROVE  Spec => []ReportsAreOneSnapshot
<1>1. IInv => ReportsAreOneSnapshot
  BY DEF IInv, ReportsStand, ReportStands, ReportsAreOneSnapshot
<1> QED
  BY <1>1, Inductive, PTL

\* What a user asked about a review is found under it by that user alone, and no
\* session is without a question (save_question, list_questions).
THEOREM QuestionsStayFound ==
    ASSUME RightsAreOfReviews
    PROVE  Spec => []QuestionsAreFound
<1>1. IInv => QuestionsAreFound
  BY DEF IInv
<1> QED
  BY <1>1, Inductive, PTL
=============================================================================
