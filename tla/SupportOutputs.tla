--------------------------- MODULE SupportOutputs ---------------------------
(***************************************************************************)
(* What people produce from a review: decisions on suggested phrases,      *)
(* questions, opinion drafts, reports and comparisons.  A request is a     *)
(* sequence of queries and transactions; another process of the API, or a  *)
(* crash, may come between any two of them.                                *)
(***************************************************************************)
EXTENDS Naturals, SequencesExt

CONSTANTS
    Apis,        \* processes of the API
    Users,
    Reviewers,   \* users with the role COMPLIANCE_REVIEWER
    Reviews,
    Sees,        \* the reviews a user may read: [Users -> SUBSET Reviews]
    Suggestions, \* the suggested phrases and their reviews: a function into Reviews
    Revisions,   \* the revisions of advertisements: a function into advertisements
    AdOf,        \* the advertisement of each review
    MaxRequests  \* bound on requests

VARIABLES
    suggestions, \* decision_status of each suggestion
    decisions,   \* suggestion_decisions, in the order of the commits
    sessions,    \* qa_sessions: [user, review]
    messages,    \* qa_messages: [session, user, review]
    drafts,      \* opinion_drafts: [review, final]
    reports,     \* reports: [review, format, source, status, snapshot]
    comparisons, \* comparisons: [ad, base, revision]
    proc,        \* what each process is doing
    requests     \* requests begun

\* Users read reviews, reviewers are users, and suggestions are about reviews.
RightsAreOfReviews ==
    /\ Reviewers \subseteq Users /\ Sees \in [Users -> SUBSET Reviews]
    /\ Suggestions \in [DOMAIN Suggestions -> Reviews]
    /\ MaxRequests \in Nat

vars == <<suggestions, decisions, sessions, messages, drafts, reports, comparisons, proc, requests>>

Idle == [at |-> "idle"]

Init ==
    /\ suggestions = [s \in DOMAIN Suggestions |-> "PENDING"]
    /\ decisions = <<>> /\ sessions = <<>> /\ messages = <<>> /\ drafts = <<>>
    /\ reports = <<>> /\ comparisons = <<>>
    /\ proc = [p \in Apis |-> Idle] /\ requests = 0

Begins(p, op) ==
    /\ proc[p] = Idle /\ requests < MaxRequests
    /\ requests' = requests + 1
    /\ proc' = [proc EXCEPT ![p] = op]

Goes(p, op) == proc' = [proc EXCEPT ![p] = op] /\ UNCHANGED requests

\* The process is restarted; what it had not committed is gone.
Crash(p) ==
    /\ proc[p] # Idle /\ Goes(p, Idle)
    /\ UNCHANGED <<suggestions, decisions, sessions, messages, drafts, reports, comparisons>>

-----------------------------------------------------------------------------
(* Decisions on suggestions *)

BeginDecision(p) ==
    /\ \E u \in Users, s \in DOMAIN Suggestions, status \in {"ACCEPTED", "REJECTED", "MODIFIED_AND_USED"} :
          /\ Suggestions[s] \in Sees[u]
          /\ Begins(p, [at |-> "decide", suggestion |-> s, status |-> status])
    /\ UNCHANGED <<suggestions, decisions, sessions, messages, drafts, reports, comparisons>>

\* save_decision: the history and the status in one transaction.
SaveDecision(p) ==
    /\ proc[p].at = "decide"
    /\ LET d == proc[p]
       IN /\ decisions' = Append(decisions, [suggestion |-> d.suggestion, status |-> d.status])
          /\ suggestions' = [suggestions EXCEPT ![d.suggestion] = d.status]
    /\ Goes(p, Idle)
    /\ UNCHANGED <<sessions, messages, drafts, reports, comparisons>>

-----------------------------------------------------------------------------
(* Questions *)

\* session_belongs_to: a question without a review may continue any of them.
Belongs(session, u, review) ==
    /\ sessions[session].user = u
    /\ review \in {"none", sessions[session].review}

\* The session of a question is checked; 0 asks for a new one.
BeginQuestion(p) ==
    /\ \E u \in Users, review \in Reviews \cup {"none"}, session \in 0 .. Len(sessions) :
          /\ review \in Sees[u] \cup {"none"}
          /\ session > 0 => Belongs(session, u, review)
          /\ Begins(p, [at |-> "ask", user |-> u, review |-> review, session |-> session])
    /\ UNCHANGED <<suggestions, decisions, sessions, messages, drafts, reports, comparisons>>

\* save_question: a new session and its first message in one transaction.
SaveQuestion(p) ==
    /\ proc[p].at = "ask"
    /\ LET q == proc[p]
           new == q.session = 0
       IN /\ sessions' = IF new THEN Append(sessions, [user |-> q.user, review |-> q.review]) ELSE sessions
          /\ messages' = Append(messages, [session |-> IF new THEN Len(sessions) + 1 ELSE q.session,
                                           user |-> q.user, review |-> q.review])
    /\ Goes(p, Idle)
    /\ UNCHANGED <<suggestions, decisions, drafts, reports, comparisons>>

\* list_questions: the messages of the user's sessions about a review.
ListQuestions(u, review) ==
    {i \in DOMAIN messages : sessions[messages[i].session].user = u
                             /\ review \in {"none", sessions[messages[i].session].review}}

-----------------------------------------------------------------------------
(* Opinion drafts *)

CreateDraft ==
    /\ requests < MaxRequests /\ requests' = requests + 1
    /\ \E u \in Reviewers : \E review \in Sees[u] :
          drafts' = Append(drafts, [review |-> review, final |-> "none"])
    /\ UNCHANGED <<suggestions, decisions, sessions, messages, reports, comparisons, proc>>

BeginDraftUpdate(p) ==
    /\ \E u \in Reviewers, d \in DOMAIN drafts :
          drafts[d].review \in Sees[u] /\ Begins(p, [at |-> "draft", draft |-> d, final |-> u])
    /\ UNCHANGED <<suggestions, decisions, sessions, messages, drafts, reports, comparisons>>

SaveDraftUpdate(p) ==
    /\ proc[p].at = "draft"
    /\ drafts' = [drafts EXCEPT ![proc[p].draft].final = proc[p].final]
    /\ Goes(p, Idle)
    /\ UNCHANGED <<suggestions, decisions, sessions, messages, reports, comparisons>>

-----------------------------------------------------------------------------
(* Reports *)

\* list_suggestions and list_drafts of a review.
SuggestionsOf(review) == [s \in {x \in DOMAIN Suggestions : Suggestions[x] = review} |-> suggestions[s]]
DraftsOf(review) == [d \in {x \in DOMAIN drafts : drafts[x].review = review} |-> drafts[d]]

BeginReport(p) ==
    /\ \E u \in Reviewers, format \in {"HWPX", "PDF"}, includes \in SUBSET {"suggestions", "drafts"},
          fails \in BOOLEAN : \E review \in Sees[u] :
          /\ fails => format = "PDF"
          /\ Begins(p, [at |-> "suggestions", review |-> review, format |-> format, includes |-> includes,
                        fails |-> fails, source |-> 0, suggestions |-> <<>>, drafts |-> <<>>,
                        since |-> Len(decisions)])  \* ghost: decisions before the request
    /\ UNCHANGED <<suggestions, decisions, sessions, messages, drafts, reports, comparisons>>

ReadSuggestions(p) ==
    /\ proc[p].at = "suggestions"
    /\ LET r == proc[p]
       IN Goes(p, [r EXCEPT !.at = "drafts",
                     !.suggestions = IF "suggestions" \in r.includes THEN SuggestionsOf(r.review) ELSE <<>>])
    /\ UNCHANGED <<suggestions, decisions, sessions, messages, drafts, reports, comparisons>>

ReadDrafts(p) ==
    /\ proc[p].at = "drafts"
    /\ LET r == proc[p]
       IN Goes(p, [r EXCEPT !.at = IF r.format = "PDF" THEN "source" ELSE "report",
                            !.drafts = IF "drafts" \in r.includes THEN DraftsOf(r.review) ELSE <<>>])
    /\ UNCHANGED <<suggestions, decisions, sessions, messages, drafts, reports, comparisons>>

\* Mutant: the suggestions are read again for each report.
SnapshotAnew(r) ==
    [review |-> r.review, drafts |-> r.drafts, includes |-> r.includes,
     suggestions |-> IF "suggestions" \in r.includes THEN SuggestionsOf(r.review) ELSE <<>>]

\* The payload of a report, and its hash.
Snapshot(r) ==
    [review |-> r.review, drafts |-> r.drafts, includes |-> r.includes, suggestions |-> r.suggestions]

\* _save_report; a conversion fails only towards PDF.
SavedReport(r, format, source) ==
    [review |-> r.review, format |-> format, source |-> source, snapshot |-> Snapshot(r),
     status |-> IF format = "PDF" /\ r.fails THEN "FAILED" ELSE "CREATED",
     since |-> r.since, until |-> Len(decisions)]

\* The HWPX report a PDF is made from is saved first.
SaveSourceReport(p) ==
    /\ proc[p].at = "source"
    /\ reports' = Append(reports, SavedReport(proc[p], "HWPX", 0))
    /\ Goes(p, [proc[p] EXCEPT !.at = "report", !.source = Len(reports) + 1])
    /\ UNCHANGED <<suggestions, decisions, sessions, messages, drafts, comparisons>>

SaveReport(p) ==
    /\ proc[p].at = "report"
    /\ reports' = Append(reports, SavedReport(proc[p], proc[p].format, proc[p].source))
    /\ Goes(p, Idle)
    /\ UNCHANGED <<suggestions, decisions, sessions, messages, drafts, comparisons>>

-----------------------------------------------------------------------------
(* Comparisons *)

\* create_comparison: revision and base review are those of the advertisement.
Compare ==
    /\ requests < MaxRequests /\ requests' = requests + 1
    /\ \E u \in Users, revision \in DOMAIN Revisions : \E base \in Sees[u] :
          /\ Revisions[revision] = AdOf[base]
          /\ comparisons' = Append(comparisons, [ad |-> AdOf[base], base |-> base, revision |-> revision])
    /\ UNCHANGED <<suggestions, decisions, sessions, messages, drafts, reports, proc>>

-----------------------------------------------------------------------------
Next ==
    \/ CreateDraft \/ Compare
    \/ \E p \in Apis :
          \/ BeginDecision(p) \/ SaveDecision(p)
          \/ BeginQuestion(p) \/ SaveQuestion(p)
          \/ BeginDraftUpdate(p) \/ SaveDraftUpdate(p)
          \/ BeginReport(p) \/ ReadSuggestions(p) \/ ReadDrafts(p)
          \/ SaveSourceReport(p) \/ SaveReport(p)
          \/ Crash(p)

Spec == Init /\ [][Next]_vars

-----------------------------------------------------------------------------
(* Properties *)

Status == {"PENDING", "ACCEPTED", "REJECTED", "MODIFIED_AND_USED"}
Format == {"HWPX", "PDF"}
Draft == [review : Reviews, final : Users \cup {"none"}]
\* What a report shows: suggestions and drafts by their ids.
Statuses == UNION {[S -> Status] : S \in SUBSET DOMAIN Suggestions}
Drafts == UNION {[S -> Draft] : S \in SUBSET (1 .. MaxRequests)}
Content == [review : Reviews, drafts : Drafts,
            includes : SUBSET {"suggestions", "drafts"}, suggestions : Statuses]
Report == [review : Reviews, format : Format, source : Nat, snapshot : Content,
           status : {"CREATED", "FAILED"}, since : Nat, until : Nat]

Deciding == [at : {"decide"}, suggestion : DOMAIN Suggestions, status : Status]
Asking == [at : {"ask"}, user : Users, review : Reviews \cup {"none"}, session : Nat]
Editing == [at : {"draft"}, draft : Nat, final : Users]
Reporting == [at : {"suggestions", "drafts", "source", "report"}, review : Reviews, format : Format,
              includes : SUBSET {"suggestions", "drafts"}, fails : BOOLEAN, source : Nat,
              suggestions : Statuses, drafts : Drafts, since : Nat]

\* The rows and the local states have the values the code gives them.
TypeOK ==
    /\ suggestions \in [DOMAIN Suggestions -> Status]
    /\ decisions \in Seq([suggestion : DOMAIN Suggestions, status : Status])
    /\ sessions \in Seq([user : Users, review : Reviews \cup {"none"}])
    /\ messages \in Seq([session : Nat, user : Users, review : Reviews \cup {"none"}])
    /\ drafts \in Seq(Draft) /\ reports \in Seq(Report)
    /\ proc \in [Apis -> {Idle} \cup Deciding \cup Asking \cup Editing \cup Reporting]
    /\ requests \in 0 .. MaxRequests /\ Len(drafts) <= requests

\* The status of the suggestions of a review after the first n decisions.
StatusAfter(review, n) ==
    [s \in {x \in DOMAIN Suggestions : Suggestions[x] = review} |->
        LET of == {i \in 1 .. n : decisions[i].suggestion = s}
        IN IF of = {} THEN "PENDING" ELSE decisions[Max(of)].status]

\* The suggestions of a report are those of one moment although decisions are
\* taken while it is made: the state after some number of the decisions in the
\* history.  Its drafts, which a query of its own reads, are drafts of the same
\* review.  A PDF has the same content as the HWPX report it is made from, which
\* is stored even when the conversion fails or the process dies.
ReportsAreOneSnapshot ==
    \A i \in 1 .. Len(reports) :
        LET r == reports[i]
        IN /\ r.snapshot.review = r.review
           /\ "suggestions" \in r.snapshot.includes =>
                \E n \in r.since .. r.until : r.snapshot.suggestions = StatusAfter(r.review, n)
           /\ \A k \in DOMAIN r.snapshot.drafts : r.snapshot.drafts[k].review = r.review
           /\ r.format = "PDF" <=> r.source # 0
           /\ r.format = "PDF" =>
                /\ r.source < i
                /\ reports[r.source].format = "HWPX" /\ reports[r.source].status = "CREATED"
                /\ reports[r.source].snapshot = r.snapshot

\* What a user asked about a review is found under that review, by that user
\* alone, and no session is without a question, whatever crashes.
QuestionsAreFound ==
    /\ \A i \in 1 .. Len(messages) :
          /\ messages[i].user = sessions[messages[i].session].user
          /\ i \in ListQuestions(messages[i].user, messages[i].review)
    /\ \A s \in 1 .. Len(sessions) : \E i \in DOMAIN messages : messages[i].session = s

=============================================================================
