------------------------- MODULE ConditionContracts -------------------------
(***************************************************************************)
(* The condition contract of a rule: which conditions gate it, which       *)
(* duties it consists of and how they are joined.  A rule of the prose     *)
(* catalog is compiled from its parts without splitting them; a rule with  *)
(* a canonical execution plan is projected from the plan.                  *)
(*                                                                         *)
(* A text is abstracted to its place in the rule; of a condition its role  *)
(* is kept, because an unknown exemption is treated unlike an unknown      *)
(* trigger.                                                                *)
(***************************************************************************)
EXTENDS Naturals, SequencesExt

None == "none"
NoLogic == [op |-> "none"]   \* a contract that states no expression

Leaf(id) == [op |-> "leaf", of |-> id]
Each(args) == [op |-> "all", args |-> args]
Either(args) == [op |-> "any", args |-> args]

Id(prefix, i) == prefix \o ToString(i)
Fact(id, external, role, closable) ==
    [id |-> id, external |-> external, role |-> role, closable |-> closable]
Duty(id, external, adapter, adOnly) ==
    [id |-> id, external |-> external, adapter |-> adapter, adOnly |-> adOnly]

RECURSIVE Leaves(_)
Leaves(expr) ==
    IF expr.op = "leaf" THEN {expr.of}
    ELSE IF expr.op = "unknown" THEN {}
    ELSE UNION {Leaves(expr.args[i]) : i \in DOMAIN expr.args}

RECURSIVE Operators(_)
Operators(expr) ==
    IF expr.op \in {"leaf", "unknown"} THEN {expr.op}
    ELSE {expr.op} \cup UNION {Operators(expr.args[i]) : i \in DOMAIN expr.args}

\* validate_expression: each duty is a leaf.  Only a review program may
\* negate, branch, stay open, or look at the facts that choose a branch.
ValidJoin(expr, duties, decision, program) ==
    /\ duties \subseteq Leaves(expr)
    /\ Leaves(expr) \ duties \subseteq IF program THEN decision ELSE {}
    /\ ~program => duties # {} /\ Operators(expr) \subseteq {"leaf", "all", "any"}

\* validate_applicability_expression: the gate looks at every fact but those.
ValidGate(expr, facts) ==
    Leaves(expr) = facts /\ Operators(expr) \subseteq {"leaf", "not", "all", "any"}

-----------------------------------------------------------------------------
(* A rule of the prose catalog *)

\* The conditions of the bound guides and, for a conditional template, its
\* guidance or else the whole criterion.
GuideConditions(rule) ==
    rule.guides \o (IF rule.required # "CONDITIONAL" THEN <<>>
                    ELSE IF rule.guidance # <<>> THEN rule.guidance ELSE <<"TRIGGER">>)

\* A list of methods is split only if the source marks it as one and nothing
\* else restricts the rule.
ExplicitAlternatives(rule) ==
    /\ rule.template /\ rule.anyOf /\ Len(rule.members) > 1
    /\ rule.requirements = 0
    /\ GuideConditions(rule) = <<>> /\ rule.reviews = 0
    /\ ~rule.manual

\* A member stands for the number of texts of one method: its criterion, its
\* dates and its quotations.
Method(rule, m) ==
    LET before == FoldSeq(LAMBDA n, sum : n + sum, 0, SubSeq(rule.members, 1, m - 1))
        texts == [i \in 1..rule.members[m] |-> Leaf(Id("O", before + i))]
    IN IF Len(texts) = 1 THEN texts[1] ELSE Each(texts)

\* A duty in prose states no evidence, so it is not one that only the
\* advertisement can establish.
CompileConditionContract(rule) ==
    LET roles == GuideConditions(rule)
        split == ExplicitAlternatives(rule)
        count == IF split THEN FoldSeq(LAMBDA n, sum : n + sum, 0, rule.members)
                 ELSE 1 + rule.clauses + rule.requirements
        ids == [i \in 1..count |-> Id("O", i)]
        join == IF split THEN Either([m \in DOMAIN rule.members |-> Method(rule, m)])
                ELSE Each([i \in 1..count |-> Leaf(ids[i])])
    IN [scopeOwner |-> "MODEL",
        conds |-> [i \in DOMAIN roles |-> Fact(Id("A", i), FALSE, roles[i], FALSE)],
        logic |-> NoLogic, decision |-> {},
        reviews |-> [i \in 1..rule.reviews |-> [id |-> Id("U", i)]],
        duties |-> [i \in 1..count |-> Duty(ids[i], FALSE, None, FALSE)],
        join |-> join, allowed |-> {}, arithmetic |-> rule.arithmetic]

-----------------------------------------------------------------------------
(* A rule with a canonical execution plan *)

CompileCanonicalConditionContract(plan) ==
    [scopeOwner |-> "RULE", conds |-> plan.inputs, logic |-> plan.logic,
     decision |-> plan.decision, reviews |-> <<>>,
     duties |-> plan.duties, join |-> plan.join, allowed |-> plan.allowed, arithmetic |-> plan.arithmetic]

\* A plan is refused when its expressions do not cover what it lists.
PlanAccepted(plan) ==
    LET facts == ToSet([i \in DOMAIN plan.inputs |-> plan.inputs[i].id])
        duties == ToSet([i \in DOMAIN plan.duties |-> plan.duties[i].id])
    IN /\ ValidGate(plan.logic, facts \ plan.decision)
       /\ ValidJoin(plan.join, duties, plan.decision, plan.program)

\* attach_condition_contracts: one refused plan refuses the catalog, so a
\* rule that is judged has its contract.
AttachConditionContract(rule) ==
    IF "plan" \in DOMAIN rule THEN CompileCanonicalConditionContract(rule.plan)
    ELSE CompileConditionContract(rule)

Compiles(rule) == "plan" \in DOMAIN rule => PlanAccepted(rule.plan)
=============================================================================
