------------------------------ MODULE Judgment ------------------------------
(***************************************************************************)
(* One answer of the model about one rule, from the raw answer to the row  *)
(* that is stored: _expand_model_response restores the canonical judgment, *)
(* normalize_contract_sentinels repairs its structure, validate checks it, *)
(* apply_reading_guard withdraws what rests on text that could not be read *)
(* with certainty, and abstain_unresolved_applicability and                *)
(* quarantine_unsupported_observations turn what stays unsupported into    *)
(* UNDETERMINED.                                                           *)
(*                                                                         *)
(* Texts are abstracted to what these steps tell apart: a line is readable *)
(* or not, cited or not, and the reason of a check is quoted from a cited  *)
(* line or not.  A document is its line.                                   *)
(***************************************************************************)
EXTENDS Kleene, ConditionContracts

CONSTANTS
    Lines,       \* lines of the advertisement in the scope of the rule
    Foreign,     \* a line outside that scope
    Rules,       \* rules of the catalog
    Inputs,      \* what the request says of the advertisement
    GateClaims,  \* what a model may say of a condition
    Claims       \* what a model may say of an obligation

VARIABLES
    stage,       \* how far the answer has come
    item,        \* the rule's contract and the request's inputs
    answer,      \* the answer of the model
    result,      \* the canonical result in work
    plain,       \* ghost: the result before the guards
    errors       \* the validation errors of the result

vars == <<stage, item, answer, result, plain, errors>>

Contracts == {AttachConditionContract(rule) : rule \in Rules}
ASSUME RulesCompile == \A rule \in Rules : Compiles(rule)

Stages == {"asked", "answered", "projected", "guarded", "invalid", "accepted", "failed"}
Verdicts == {"COMPLIANT", "VIOLATION", "NOT_APPLICABLE", "UNDETERMINED"}
Decided == {"SATISFIED", "MISSING", "VIOLATED"}

-----------------------------------------------------------------------------
(* Expressions over obligations and facts *)

RECURSIVE Value(_, _)
Value(expr, state) ==
    CASE expr.op = "leaf" -> state[expr.of]
      [] expr.op = "unknown" -> "U"
      [] expr.op = "not" -> Negated(Value(expr.args[1], state))
      [] expr.op = "if" -> Branch(Value(expr.args[1], state),
                                  Value(expr.args[2], state), Value(expr.args[3], state))
      [] expr.op = "all" -> AllOf({Value(expr.args[i], state) : i \in DOMAIN expr.args})
      [] expr.op = "any" -> AnyOf({Value(expr.args[i], state) : i \in DOMAIN expr.args})

Ids(rows) == [i \in DOMAIN rows |-> rows[i].id]
Row(rows, id) == rows[CHOOSE i \in DOMAIN rows : rows[i].id = id]
WithId(rows, id) == {rows[i] : i \in {j \in DOMAIN rows : rows[j].id = id}}

FactTruth(status) ==
    CASE status = "SATISFIED" -> "T" [] status = "NOT_SATISFIED" -> "F" [] OTHER -> "U"

\* Mutant: a duty that is open counts as failed.
DutyTruthClosed(status) == IF status = "SATISFIED" THEN "T" ELSE "F"

DutyTruth(status) ==
    CASE status = "SATISFIED" -> "T" [] status \in {"MISSING", "VIOLATED"} -> "F" [] OTHER -> "U"

\* The states of the leaves under a checklist of duties and one of facts.
States(checks, conds) ==
    [id \in ToSet(Ids(checks)) \cup ToSet(Ids(conds)) |->
        IF id \in ToSet(Ids(checks)) THEN DutyTruth(Row(checks, id).status)
        ELSE FactTruth(Row(conds, id).status)]

\* The facts that gate the whole rule: decision facts only choose branches.
GateFacts(c) == ToSet(Ids(c.conds)) \ c.decision

Gate(c) ==
    IF c.logic # NoLogic THEN c.logic
    ELSE [op |-> "all", args |-> [i \in DOMAIN c.conds |-> [op |-> "leaf", of |-> c.conds[i].id]]]

\* "invalid" where the code raises: the caller then keeps or reports it.
AggregateApplicability(c, scope, conds) ==
    IF scope = "NOT_MATCHED" THEN "NOT_APPLICABLE"
    ELSE IF scope # "MATCHED" THEN "UNDETERMINED"
    ELSE IF c.conds = <<>> THEN "APPLICABLE"
    ELSE IF Leaves(Gate(c)) # GateFacts(c) \/ Ids(conds) # Ids(c.conds) THEN "invalid"
    ELSE CASE Value(Gate(c), States(<<>>, conds)) = "T" -> "APPLICABLE"
           [] Value(Gate(c), States(<<>>, conds)) = "F" -> "NOT_APPLICABLE"
           [] OTHER -> "UNDETERMINED"

\* Mutant: what is not established is a violation.
VerdictOfClosed(truth) == IF truth = "T" THEN "COMPLIANT" ELSE "VIOLATION"

VerdictOf(truth) ==
    CASE truth = "T" -> "COMPLIANT" [] truth = "F" -> "VIOLATION" [] OTHER -> "UNDETERMINED"

Allowed(c, verdict) == c.allowed = {} \/ verdict \in c.allowed

AggregateObligations(c, checks, conds) ==
    IF c.join = NoLogic \/ Ids(checks) # Ids(c.duties) THEN "invalid"
    ELSE LET verdict == VerdictOf(Value(c.join, States(checks, conds)))
         IN IF Allowed(c, verdict) THEN verdict ELSE "UNDETERMINED"

-----------------------------------------------------------------------------
(* What the request establishes *)

Complete(in) == in.coverage = "READY" /\ in.scan
Unresolved(in) == in.unsafe # {}
CompleteAdScan(in) == Complete(in) /\ ~Unresolved(in)

Undecided(check, claim) ==
    [check EXCEPT !.status = "UNDETERMINED", !.basis = "UNKNOWN", !.claim = claim]

Unfounded(check) == [Undecided(check, "grounded") EXCEPT !.refs = {}]

\* A duty of a human or of an external input is never the model's, a
\* deterministic adapter replaces what the model says, and one of a kind that
\* computed_check does not know leaves the duty open (CONFIRMED_BOOLEAN, which
\* _expand_model_response would read from the request, is such a kind).
NotTheModels(duty) == duty.external \/ duty.adapter = "UNKNOWN_KIND"
DutyOverride(c, in, check) ==
    LET known == WithId(c.duties, check.id)
        duty == CHOOSE d \in known : TRUE
        fact == in.facts[check.id]
    IN IF known = {} THEN check
       ELSE IF NotTheModels(duty) THEN Unfounded(check)
       ELSE IF duty.adapter = "COMPUTED"
            THEN IF fact = "U" \/ check.refs = {} THEN Unfounded(check)
                 ELSE [check EXCEPT !.status = IF fact = "T" THEN "SATISFIED" ELSE "VIOLATED",
                                    !.basis = "OBSERVED", !.claim = "grounded"]
       ELSE check

\* A confirmed fact replaces the model's, an external one stays open, and
\* an absent trigger is a fact only of a completely read advertisement.
FactOverride(c, in, cond) ==
    LET known == WithId(c.conds, cond.id)
        fact == CHOOSE f \in known : TRUE
        confirmed == IF known # {} /\ in.facts[cond.id] # "-"
                     THEN CASE in.facts[cond.id] = "T" -> "SATISFIED"
                            [] in.facts[cond.id] = "F" -> "NOT_SATISFIED"
                            [] OTHER -> "UNDETERMINED"
                     ELSE cond.status
    IN IF known = {} THEN [cond EXCEPT !.status = confirmed]
       ELSE IF fact.external THEN [cond EXCEPT !.status = "UNDETERMINED"]
       ELSE IF confirmed = "NOT_SATISFIED" /\ cond.refs = {} /\ fact.closable /\ ~CompleteAdScan(in)
            THEN [cond EXCEPT !.status = "UNDETERMINED"]
       ELSE [cond EXCEPT !.status = confirmed]

ClosedAbsence(c, in, conds) ==
    {i \in DOMAIN conds : /\ conds[i].status = "NOT_SATISFIED"
                          /\ conds[i].refs = {}
                          /\ \E f \in WithId(c.conds, conds[i].id) : f.closable
                          /\ CompleteAdScan(in)}

\* Only an unknown exemption is left, and the duties hold either way.
SatisfiedWhateverExempts(c, scope, conds, reviews, checks) ==
    LET unknown == {i \in DOMAIN conds : conds[i].status = "UNDETERMINED"}
        Observed(k) == k.status = "SATISFIED" /\ k.basis = "OBSERVED" /\ k.refs # {}
        supported == [i \in DOMAIN checks |->
            [checks[i] EXCEPT !.status = IF Observed(checks[i]) THEN "SATISFIED" ELSE "UNDETERMINED"]]
    IN /\ scope = "MATCHED"
       /\ unknown # {}
       /\ \A i \in unknown : \E f \in WithId(c.conds, conds[i].id) : f.role = "EXEMPTION"
       /\ \A i \in DOMAIN conds : conds[i].status \in {"SATISFIED", "UNDETERMINED"}
       /\ \A i \in DOMAIN reviews : reviews[i].status = "NOT_TRIGGERED"
       /\ c.duties # <<>> /\ Ids(checks) = Ids(c.duties)
       /\ IF c.join # NoLogic THEN AggregateObligations(c, supported, <<>>) = "COMPLIANT"
          ELSE \A i \in DOMAIN checks : Observed(checks[i])

AllRefs(rows) == UNION {rows[i].refs : i \in DOMAIN rows}

Expanded(c, in, a) ==
    LET scope == IF c.scopeOwner = "RULE" THEN "MATCHED" ELSE a.scope
        conds == [i \in DOMAIN a.conds |-> FactOverride(c, in, a.conds[i])]
        checks == [i \in DOMAIN a.checks |-> DutyOverride(c, in, a.checks[i])]
        joined == AggregateApplicability(c, scope, conds)
        app == IF \E i \in DOMAIN a.reviews : a.reviews[i].status # "NOT_TRIGGERED"
               THEN "UNDETERMINED"
               ELSE IF joined = "invalid" THEN a.app ELSE joined
        invariant == SatisfiedWhateverExempts(c, scope, conds, a.reviews, checks)
        closed == ClosedAbsence(c, in, conds)
        gateRefs == a.scopeRefs \cup AllRefs(conds)
        meta == (IF c.scopeOwner = "RULE" THEN {"scope"} ELSE {})
                \cup {conds[i].id : i \in {j \in DOMAIN conds :
                        in.facts[conds[j].id] \in {"T", "F"}}}
                \cup (IF closed # {} THEN {"complete_ad_scan"} ELSE {})
        verdict == CASE app = "NOT_APPLICABLE" -> "NOT_APPLICABLE"
                     [] app = "UNDETERMINED" -> IF invariant THEN "COMPLIANT" ELSE "UNDETERMINED"
                     [] OTHER -> IF AggregateObligations(c, checks, conds) = "invalid" THEN a.verdict
                                 ELSE AggregateObligations(c, checks, conds)
        kept == IF app = "APPLICABLE" \/ (app = "UNDETERMINED" /\ invariant) THEN checks ELSE <<>>
    IN [scope |-> scope, conds |-> conds, reviews |-> a.reviews, app |-> app,
        basis |-> IF app # "APPLICABLE" THEN app
                  ELSE IF gateRefs # {} THEN "ADVERTISEMENT_EVIDENCE"
                  ELSE IF meta # {} THEN "CONFIRMED_METADATA" ELSE None,
        appRefs |-> IF app = "APPLICABLE" THEN gateRefs ELSE {},
        meta |-> CASE app = "NOT_APPLICABLE" -> IF closed # {} THEN {"complete_ad_scan"} ELSE {}
                   [] OTHER -> meta,
        verdict |-> verdict, checks |-> kept, refs |-> AllRefs(kept), unsure |-> a.unsure]

-----------------------------------------------------------------------------
(* normalize_contract_sentinels *)

\* A complete checklist in another order is put in the order of the contract.
Ordered(rows, expected) ==
    IF Len(rows) = Len(expected) /\ ToSet(Ids(rows)) = ToSet(Ids(expected))
    THEN [i \in DOMAIN rows |-> Row(rows, expected[i].id)]
    ELSE rows

RestoredDuties(c, r) ==
    IF r.app = "APPLICABLE" /\ r.verdict = "UNDETERMINED" /\ r.checks = <<>>
    THEN [i \in DOMAIN c.duties |->
            [id |-> c.duties[i].id, status |-> "UNDETERMINED", basis |-> "UNKNOWN",
             refs |-> {}, claim |-> "grounded"]]
    ELSE r.checks

Normalized(c, r) ==
    LET ordered == [r EXCEPT !.conds = Ordered(@, c.conds), !.reviews = Ordered(@, c.reviews),
                             !.checks = Ordered(@, c.duties)]
    IN [ordered EXCEPT
          !.refs = IF @ = {} THEN AllRefs(ordered.checks) ELSE @,
          !.checks = RestoredDuties(c, ordered),
          !.basis = IF r.app = r.verdict /\ r.app \in {"NOT_APPLICABLE", "UNDETERMINED"}
                    THEN r.app ELSE @]

-----------------------------------------------------------------------------
(* validate, with or without the reading checks *)

\* An exclusion needs a confirmed fact or a source for what it says is not so.
UnresolvedApplicability(r) ==
    /\ r.verdict = "NOT_APPLICABLE"
    /\ \/ r.unsure
       \/ /\ \E i \in DOMAIN r.conds : r.conds[i].status = "NOT_SATISFIED"
          /\ r.appRefs = {} /\ r.meta = {}

GateErrors(c, r) ==
    LET invariant == SatisfiedWhateverExempts(c, r.scope, r.conds, r.reviews, r.checks)
    IN \/ Ids(r.conds) # Ids(c.conds)
       \/ Ids(r.reviews) # Ids(c.reviews)
       \/ \E i \in DOMAIN r.conds : /\ r.conds[i].status # "UNDETERMINED"
                                    /\ \E f \in WithId(c.conds, r.conds[i].id) : f.external
       \/ r.app # AggregateApplicability(c, r.scope, r.conds)
       \/ /\ r.app = "APPLICABLE" \/ invariant
          /\ \/ Ids(r.checks) # Ids(c.duties)
             \/ \E i \in DOMAIN r.checks : /\ r.checks[i].status # "UNDETERMINED"
                                           /\ \E d \in WithId(c.duties, r.checks[i].id) : d.external
       \/ /\ r.app = "APPLICABLE"
          /\ \/ r.scope # "MATCHED"
             \/ c.logic = NoLogic /\ \E i \in DOMAIN r.conds : r.conds[i].status # "SATISFIED"
             \/ \E i \in DOMAIN r.reviews : r.reviews[i].status # "NOT_TRIGGERED"
       \/ /\ r.app = "NOT_APPLICABLE" /\ c.logic = NoLogic /\ r.scope # "NOT_MATCHED"
          /\ \A i \in DOMAIN r.conds : r.conds[i].status # "NOT_SATISFIED"
       \/ /\ r.verdict # "UNDETERMINED"
          /\ \E i \in DOMAIN r.reviews : r.reviews[i].status = "TRIGGERED"
       \/ ~(AllRefs(r.conds) \subseteq Lines)

ConsistencyErrors(c, r) ==
    \/ r.app = "NOT_APPLICABLE" /\ r.verdict # "NOT_APPLICABLE"
    \/ r.app = "APPLICABLE" /\ r.verdict = "NOT_APPLICABLE"
    \/ /\ r.app = "UNDETERMINED" /\ r.verdict # "UNDETERMINED"
       /\ ~(r.verdict = "COMPLIANT"
            /\ SatisfiedWhateverExempts(c, r.scope, r.conds, r.reviews, r.checks))
    \/ r.basis \notin (IF r.app = "APPLICABLE" THEN {"ADVERTISEMENT_EVIDENCE", "CONFIRMED_METADATA"}
                       ELSE {r.app})
    \/ r.basis = "ADVERTISEMENT_EVIDENCE" /\ r.appRefs = {}
    \/ r.basis = "CONFIRMED_METADATA" /\ ~(r.meta # {} /\ "complete_ad_scan" \notin r.meta)
    \/ ~(r.appRefs \cup r.refs \subseteq Lines)

\* The line rules of a violation: one for the result, one for each check.
EvidenceErrors(in, r, reading) ==
    LET statuses == {r.checks[i].status : i \in DOMAIN r.checks}
        absenceOnly == /\ ~reading \/ in.scan
                       /\ \E i \in DOMAIN r.checks : /\ r.checks[i].status = "MISSING"
                                                     /\ r.checks[i].basis = "ABSENCE"
                       /\ "VIOLATED" \notin statuses
    IN \/ r.verdict = "VIOLATION" /\ r.refs = {} /\ ~absenceOnly
       \/ reading /\ ~in.scan /\ "MISSING" \in statuses

\* What makes one check inadmissible for a reason that no guard may hide.
CheckError(c, in, cat, check, reading) ==
    LET known == WithId(c.duties, check.id)
        computed == DutyOverride(c, in, check)
    IN \/ /\ \E d \in known : d.adapter # None
          /\ <<computed.status, computed.basis>> # <<check.status, check.basis>>
       \/ check.status = "MISSING" /\ check.basis \notin {"ABSENCE", "CONFIRMED_METADATA"}
       \/ check.status = "VIOLATED" /\ (check.basis # "OBSERVED" \/ check.refs = {})
       \/ check.status = "UNDETERMINED" /\ check.basis # "UNKNOWN"
       \/ check.status = "SATISFIED" /\ check.basis = "UNKNOWN"
       \/ check.status = "SATISFIED" /\ check.basis = "ABSENCE" /\ cat # "PROHIBIT"
       \/ check.status = "VIOLATED" /\ check.claim = "absent" /\ \A d \in known : d.adapter = None
       \/ reading /\ check.basis = "ABSENCE" /\ ~in.scan
       \/ ~(check.refs \subseteq Lines)

\* Mutant: an observation is supported by any line, quoted or not.
UnsupportedUncited(c, cat, check) == check.basis = "OBSERVED" /\ check.refs = {}

\* A rule of sums need not quote what it adds up, unless it is about presence.
MustQuote(c, cat) == cat = "PRESENCE" \/ ~c.arithmetic

\* The errors a quarantine may settle: the observation is unsupported.
Unsupported(c, cat, check) ==
    \/ check.basis = "OBSERVED" /\ check.refs = {}
    \/ check.basis = "OBSERVED" /\ check.claim = "unquoted" /\ MustQuote(c, cat)
    \/ /\ check.status \in {"SATISFIED", "MISSING"} /\ check.basis = "CONFIRMED_METADATA"
       /\ \E d \in WithId(c.duties, check.id) : d.adOnly

VerdictErrors(c, in, cat, r) ==
    LET statuses == {r.checks[i].status : i \in DOMAIN r.checks}
        failed == "VIOLATED" \in statuses \/ (cat = "PRESENCE" /\ in.scan /\ "MISSING" \in statuses)
    IN IF c.join # NoLogic
       THEN r.app = "APPLICABLE" /\ r.verdict # AggregateObligations(c, r.checks, r.conds)
       ELSE \/ r.verdict = "COMPLIANT" /\ statuses # {"SATISFIED"}
            \/ r.verdict = "VIOLATION" /\ statuses \cap {"MISSING", "VIOLATED"} = {}
            \/ r.app = "APPLICABLE" /\ failed /\ r.verdict # "VIOLATION"

\* reading_issues: the determinations that rest on uncertain readings.
ReadingIssues(in, r) ==
    LET Touches(refs) == refs \cap in.unsafe # {}
        Absence(k) == k.basis = "ABSENCE" \/ k.status = "MISSING"
                      \/ (k.status = "VIOLATED" /\ k.claim = "absent")
    IN (IF r.app # "UNDETERMINED" /\ Touches(r.appRefs) THEN {<<"gate", 0>>} ELSE {})
       \cup {<<"gate", i>> : i \in {j \in DOMAIN r.conds :
                r.conds[j].status # "UNDETERMINED" /\ Touches(r.conds[j].refs)}}
       \cup {<<"check", i>> : i \in {j \in DOMAIN r.checks :
                /\ r.checks[j].status \in Decided
                /\ IF Absence(r.checks[j]) /\ (~Complete(in) \/ Unresolved(in)) THEN TRUE
                   ELSE r.checks[j].basis = "OBSERVED" /\ Touches(r.checks[j].refs)}}

Errors(it, r, reading) ==
    LET c == it.contract
        in == it.input
        gated == r.checks = <<>> /\ r.app \in {"NOT_APPLICABLE", "UNDETERMINED"} /\ r.verdict = r.app
    IN (IF UnresolvedApplicability(r) THEN {<<"unresolved", 0>>} ELSE {})
       \cup (IF reading THEN {<<"reading", 0>> : i \in ReadingIssues(in, r)} ELSE {})
       \cup (IF GateErrors(c, r) \/ ConsistencyErrors(c, r) \/ EvidenceErrors(in, r, reading)
             THEN {<<"structure", 0>>} ELSE {})
       \cup (IF gated THEN {}
             ELSE IF r.checks = <<>> \/ VerdictErrors(c, in, it.category, r)
                     \/ \E i \in DOMAIN r.checks : CheckError(c, in, it.category, r.checks[i], reading)
             THEN {<<"structure", 0>>} ELSE {})
       \cup {<<"unsupported", i>> : i \in {j \in DOMAIN r.checks : Unsupported(c, it.category, r.checks[j])}}

-----------------------------------------------------------------------------
(* The guards *)

Withdrawn(rows, refs) ==
    [i \in DOMAIN rows |-> [rows[i] EXCEPT !.status = "UNDETERMINED", !.refs = refs]]

Open(r) ==
    [r EXCEPT !.app = "UNDETERMINED", !.basis = "UNDETERMINED", !.verdict = "UNDETERMINED",
              !.scope = "UNDETERMINED", !.conds = Withdrawn(@, {}),
              !.reviews = [i \in DOMAIN @ |-> [@[i] EXCEPT !.status = "UNDETERMINED"]],
              !.appRefs = {}, !.refs = {}, !.checks = <<>>]

\* What is left of a result when the checks at these places are withdrawn.
Without(c, r, places) ==
    LET checks == [i \in DOMAIN r.checks |->
                      IF i \in places THEN Unfounded(r.checks[i]) ELSE r.checks[i]]
        failed == \E i \in DOMAIN checks : checks[i].status \in {"VIOLATED", "MISSING"}
        verdict == IF c.join # NoLogic /\ r.app = "APPLICABLE"
                   THEN AggregateObligations(c, checks, r.conds)
                   ELSE IF failed THEN "VIOLATION" ELSE "UNDETERMINED"
        observed == {i \in DOMAIN checks : checks[i].basis = "OBSERVED"}
    IN [r EXCEPT !.checks = checks, !.verdict = verdict,
                 !.refs = UNION {checks[i].refs : i \in observed}]

\* An unreadable gate withdraws the rule, an unreadable check only itself.
ReadingGuard(it, r) ==
    LET issues == ReadingIssues(it.input, r)
    IN IF issues = {} \/ Errors(it, r, FALSE) # {} THEN r
       ELSE IF \E issue \in issues : issue[1] = "gate" THEN Open(r)
       ELSE Without(it.contract, r, {issue[2] : issue \in issues})

Abstained(it, r, errs) ==
    LET open == [Open(r) EXCEPT !.meta = {}]
    IN IF errs = {<<"unresolved", 0>>} /\ Errors(it, open, TRUE) = {} THEN open ELSE r

Quarantined(it, r, errs) ==
    LET places == {e[2] : e \in errs}
        left == Without(it.contract, r, places)
    IN IF /\ \A e \in errs : e[1] = "unsupported"
          /\ Errors(it, left, TRUE) = {}
       THEN left ELSE r

-----------------------------------------------------------------------------
(* The life of an answer *)

Blank == [scope |-> None, conds |-> <<>>, reviews |-> <<>>, app |-> None, basis |-> None,
          appRefs |-> {}, meta |-> {}, verdict |-> None, checks |-> <<>>, refs |-> {},
          unsure |-> FALSE]

AnyClaim == CHOOSE claim \in Claims : TRUE
Answers(c) ==
    LET Cond(i, g) == [id |-> c.conds[i].id, status |-> g.status, refs |-> g.refs]
        Check(i, k) == [id |-> c.duties[i].id, status |-> k.status, basis |-> k.basis,
                        refs |-> k.refs, claim |-> k.claim]
        \* What is said of a duty that is never the model's makes no difference.
        said == {s \in [DOMAIN c.duties -> Claims] :
                    \A i \in DOMAIN c.duties : NotTheModels(c.duties[i]) => s[i] = AnyClaim}
        rows == [conds : [DOMAIN c.conds -> GateClaims], checks : said,
                 reviews : [DOMAIN c.reviews -> {"TRIGGERED", "NOT_TRIGGERED", "UNDETERMINED"}],
                 scope : {"MATCHED", "NOT_MATCHED", "UNDETERMINED"},
                 scopeRefs : {{}} \cup {{l} : l \in Lines}, unsure : BOOLEAN,
                 turned : BOOLEAN, silent : BOOLEAN]
        usual == {row \in rows : /\ c.scopeOwner = "RULE" => row.scope = "MATCHED"
                                 /\ row.turned => ~row.unsure /\ Len(c.duties) > 1
                                 /\ row.silent => ~row.unsure /\ ~row.turned
                                 /\ row.unsure \/ row.turned \/ row.silent => row.scopeRefs = {}}
    IN {[scope |-> row.scope, scopeRefs |-> row.scopeRefs, unsure |-> row.unsure,
         conds |-> [i \in DOMAIN c.conds |-> Cond(i, row.conds[i])],
         reviews |-> [i \in DOMAIN c.reviews |-> [id |-> c.reviews[i].id, status |-> row.reviews[i]]],
         checks |-> IF row.silent THEN <<>>
                    ELSE LET list == [i \in DOMAIN c.duties |-> Check(i, row.checks[i])]
                         IN IF row.turned THEN Reverse(list) ELSE list,
         app |-> "APPLICABLE", verdict |-> "UNDETERMINED"] : row \in usual}

Init ==
    /\ stage = "asked"
    /\ item \in [contract : Contracts, input : Inputs, category : {"PRESENCE", "PROHIBIT"}]
    /\ answer = None
    /\ result = Blank
    /\ plain = Blank
    /\ errors = {}

\* Whatever the model says: the checklists may come turned around or empty.
Answer ==
    /\ stage = "asked"
    /\ answer' \in Answers(item.contract)
    /\ stage' = "answered"
    /\ UNCHANGED <<item, result, plain, errors>>

Project ==
    /\ stage = "answered"
    /\ result' = Normalized(item.contract, Expanded(item.contract, item.input, answer))
    /\ plain' = result'
    /\ stage' = "projected"
    /\ UNCHANGED <<item, answer, errors>>

Guard ==
    /\ stage = "projected"
    /\ result' = ReadingGuard(item, result)
    /\ stage' = "guarded"
    /\ UNCHANGED <<item, answer, plain, errors>>

\* The last step of call_once.
Settle ==
    /\ stage = "guarded"
    /\ LET found == Errors(item, result, TRUE)
           settled == Abstained(item, result, found)
       IN /\ result' = settled
          /\ errors' = IF settled = result THEN found ELSE {}
          /\ stage' = IF errors' = {} THEN "accepted" ELSE "invalid"
    /\ UNCHANGED <<item, answer, plain>>

\* The model is asked again: what it says then is another answer.
Retry ==
    /\ stage = "invalid"
    /\ stage' = "asked"
    /\ answer' = None
    /\ result' = Blank
    /\ plain' = Blank
    /\ errors' = {}
    /\ UNCHANGED item

\* The attempts are used up: what is only unsupported becomes unknown.
Quarantine ==
    /\ stage = "invalid"
    /\ result' = Quarantined(item, result, errors)
    /\ stage' = IF result' # result THEN "accepted" ELSE "failed"
    /\ errors' = IF result' # result THEN {} ELSE errors
    /\ UNCHANGED <<item, answer, plain>>

Next == Answer \/ Project \/ Guard \/ Settle \/ Retry \/ Quarantine

Spec == Init /\ [][Next]_vars

-----------------------------------------------------------------------------
(* Properties *)

Accepted == stage = "accepted"

\* No guard changes a judgment into another one: a stored verdict is the one
\* computed from the answer, or UNDETERMINED (apply_reading_guard,
\* quarantine_unsupported_observations, abstain_unresolved_applicability).
GuardsOnlyAbstain ==
    Accepted => result.verdict \in {plain.verdict, "UNDETERMINED"}

\* What a checklist may rest on: readable lines that are quoted, where the rule
\* asks for a quotation; a complete reading, for an absence; and, for a duty that
\* is not one of the advertisement alone, the word of the model that metadata
\* confirms it, which nothing compares with the request.
Supported(in, cat, c, k) ==
    \/ /\ k.basis = "OBSERVED" /\ k.refs # {} /\ k.refs \subseteq Lines \ in.unsafe
       /\ k.claim = "grounded" \/ ~MustQuote(c, cat)
    \/ /\ k.basis = "CONFIRMED_METADATA" /\ k.status \in {"SATISFIED", "MISSING"}
       /\ \A d \in WithId(c.duties, k.id) : ~d.adOnly
    \/ k.basis = "ABSENCE" /\ CompleteAdScan(in)
       /\ (k.status = "MISSING" \/ (k.status = "SATISFIED" /\ cat = "PROHIBIT"))

\* A stored COMPLIANT or VIOLATION follows from the supported checks alone:
\* take every check that rests on a line that could not be read, on an
\* unquoted claim, on metadata where only the advertisement may establish the
\* duty or on an absence in an advertisement that was not read completely for
\* unknown, and the join of the contract still gives the verdict (validate with
\* the guards).  Duties in prose may rest on metadata that nobody confirmed.
VerdictsAreSupported ==
    Accepted /\ item.contract.join # NoLogic /\ result.verdict \in {"COMPLIANT", "VIOLATION"} =>
        LET c == item.contract
            known == [i \in DOMAIN result.checks |->
                        IF Supported(item.input, item.category, c, result.checks[i])
                        THEN result.checks[i] ELSE Unfounded(result.checks[i])]
        IN AggregateObligations(c, known, result.conds) = result.verdict

\* Every way the open statuses of a checklist may turn out.
Resolutions(state) ==
    {s \in [DOMAIN state -> {"T", "F"}] : \A id \in DOMAIN state : Below(state[id], s[id])}

\* Whatever the open conditions and duties turn out to be, the stored
\* verdict stands: a violation is one under every resolution and needs the
\* rule to apply, a compliant rule that applies has its duties satisfied,
\* and an excluded rule applies under no resolution.  A join that stays open
\* (an authored "unknown") gives no verdict (aggregate_obligations,
\* aggregate_applicability, _obligations_satisfy_unknown_exemptions).
VerdictsAreFinal ==
    Accepted /\ item.contract.join # NoLogic /\ result.verdict # "UNDETERMINED" =>
        LET c == item.contract
            Applies(s) == c.conds = <<>> \/ Value(Gate(c), s) = "T"
        IN \A s \in Resolutions(States(result.checks, result.conds)) :
              CASE result.verdict = "NOT_APPLICABLE" -> result.scope = "NOT_MATCHED" \/ ~Applies(s)
                [] result.verdict = "VIOLATION" ->
                     result.scope = "MATCHED" /\ Applies(s) /\ Value(c.join, s) = "F"
                [] OTHER -> result.scope = "MATCHED" /\ Value(c.join, s) = "T"

\* What tests/test_source_checks.py says of an exclusion: a condition that a
\* cited, readable line refutes is a source for it, and the rule is excluded.
CitedExclusionStands ==
    Accepted /\ plain.verdict = "NOT_APPLICABLE" /\ ~plain.unsure
    /\ (\E i \in DOMAIN plain.conds : /\ plain.conds[i].status = "NOT_SATISFIED"
                                      /\ plain.conds[i].refs # {}
                                      /\ plain.conds[i].refs \cap item.input.unsafe = {})
        => result.verdict = "NOT_APPLICABLE"

=============================================================================
