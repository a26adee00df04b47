----------------------------- MODULE MCJudgment -----------------------------
EXTENDS Judgment
Not(arg) == [op |-> "not", args |-> <<arg>>]
If(c, y, n) == [op |-> "if", args |-> <<c, y, n>>]
Unknown == [op |-> "unknown"]
Llm(id) == Duty(id, FALSE, None, TRUE)

Plan(inputs, logic, decision, duties, join, program, allowed) ==
    [plan |-> [inputs |-> inputs, logic |-> logic, decision |-> decision, duties |-> duties,
               join |-> join, program |-> program, allowed |-> allowed, arithmetic |-> program]]
A1 == Fact("A1", FALSE, "FACT", TRUE)
A2 == Fact("A2", TRUE, "FACT", FALSE)
B1 == Fact("B1", FALSE, "FACT", FALSE)

Prose == [template |-> TRUE, required |-> "REQUIRED", guides |-> <<>>, guidance |-> <<>>,
          reviews |-> 0, clauses |-> 0, requirements |-> 0, members |-> <<>>, anyOf |-> FALSE, manual |-> FALSE,
          arithmetic |-> FALSE]

(* Four plans: alternatives, a computed duty with limited outcomes, a branch on
   a fact, external inputs with an adapter of no known kind and an authored
   unknown; of these, those with a program sum up; three rules in prose: a
   conditional template with an exemption, one with conditions for a reviewer,
   and one with two methods, of which one has two texts. *)
MCRules == {
  Plan(<<A1>>, Each(<<Leaf("A1")>>), {}, <<Llm("O1"), Llm("O2")>>,
       Either(<<Leaf("O1"), Leaf("O2")>>), FALSE, {}),
  Plan(<<A1>>, Each(<<Leaf("A1")>>), {}, <<Llm("O1"), Duty("O2", FALSE, "COMPUTED", TRUE)>>,
       Each(<<Leaf("O1"), Leaf("O2")>>), TRUE, {"COMPLIANT", "UNDETERMINED"}),
  Plan(<<A1, B1>>, Each(<<Leaf("A1")>>), {"B1"}, <<Llm("O1")>>,
       If(Leaf("B1"), Leaf("O1"), Not(Leaf("O1"))), TRUE, {"COMPLIANT", "VIOLATION", "UNDETERMINED"}),
  Plan(<<A1, A2>>, Either(<<Leaf("A1"), Not(Leaf("A2"))>>), {},
       <<Duty("O1", TRUE, None, TRUE), Duty("O2", FALSE, "COMPUTED", TRUE), Duty("O3", FALSE, "UNKNOWN_KIND", TRUE)>>,
       Either(<<Leaf("O1"), Leaf("O2"), Leaf("O3"), Unknown>>), TRUE, {}),
  [Prose EXCEPT !.required = "CONDITIONAL", !.guidance = <<"EXEMPTION">>, !.clauses = 1],
  [Prose EXCEPT !.required = "", !.template = FALSE, !.guides = <<"EXEMPTION">>, !.reviews = 1],
  [Prose EXCEPT !.anyOf = TRUE, !.members = <<1, 2>>]}
Claim(status, basis, refs, claim) == [status |-> status, basis |-> basis, refs |-> refs, claim |-> claim]
MCClaims == {
  Claim("SATISFIED", "OBSERVED", {"L1"}, "grounded"),
  Claim("SATISFIED", "OBSERVED", {"L2"}, "grounded"),
  Claim("SATISFIED", "OBSERVED", {"L1"}, "unquoted"),
  Claim("SATISFIED", "OBSERVED", {}, "grounded"),
  Claim("SATISFIED", "ABSENCE", {}, "grounded"),
  Claim("SATISFIED", "CONFIRMED_METADATA", {}, "grounded"),
  Claim("MISSING", "ABSENCE", {}, "absent"),
  Claim("VIOLATED", "OBSERVED", {"L1"}, "grounded"),
  Claim("VIOLATED", "OBSERVED", {"L2", "X"}, "grounded"),
  Claim("UNDETERMINED", "UNKNOWN", {}, "grounded")}
Say(status, refs) == [status |-> status, refs |-> refs]
MCGateClaims == {Say("SATISFIED", {"L1"}), Say("SATISFIED", {"L2"}), Say("NOT_SATISFIED", {"L1"}),
                 Say("NOT_SATISFIED", {}), Say("UNDETERMINED", {})}
NoFacts == [id \in {"A1", "A2", "B1", "O1", "O2", "O3"} |-> "-"]
Input(coverage, scan, unsafe, facts) ==
    [coverage |-> coverage, scan |-> scan, unsafe |-> unsafe, facts |-> facts]
MCInputs == {
  Input("READY", TRUE, {}, [NoFacts EXCEPT !["O2"] = "T"]),
  Input("READY", TRUE, {"L2"}, [NoFacts EXCEPT !["O2"] = "F"]),
  Input("READY", FALSE, {}, [NoFacts EXCEPT !["O2"] = "U", !["A1"] = "T"]),
  Input("PARTIAL", TRUE, {"L2"}, [NoFacts EXCEPT !["O2"] = "T", !["B1"] = "F"])}
=============================================================================
