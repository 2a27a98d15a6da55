---------------------------- MODULE MCAdmission ----------------------------
(***************************************************************************)
(* Admission with three requests of one user, two at a time, against small *)
(* sets of rules.                                                          *)
(***************************************************************************)
EXTENDS Admission, TLC

CONSTANTS r1, r2, r3

TheRequests == {r1, r2, r3}
Symmetry == Permutations(TheRequests)

\* Two models; "nick" matches the pattern of large, "gone" is no model.
TheModels == {"large", "small"}
TheModelFor == [n \in {"large", "small", "nick", "gone"} |->
                  CASE n \in TheModels -> n [] n = "nick" -> "large" [] OTHER -> None]

Context(name, stream, tier) ==
    [header |-> IF tier = Blank THEN [x \in {} |-> Blank] ELSE [x \in {"tier"} |-> tier],
     parameter |-> [model |-> name, stream |-> stream],
     content |-> [messages |-> "hello", system |-> Blank],
     function |-> [count_tokens |-> 2]]
TheContexts == {Context("large", FALSE, Blank), Context("nick", TRUE, "gold")}

Quota(measure, op, value, window, per) ==
    [type |-> "quota", field |-> measure, op |-> op, value |-> value, negate |-> FALSE,
     window |-> window, per |-> per]
Test(type, field, op, value, negate) ==
    [type |-> type, field |-> field, op |-> op, value |-> value, negate |-> negate,
     window |-> None, per |-> {}]
Group(logic, conds) == [type |-> "group", logic |-> logic, conditions |-> conds]
Rule(weight, conditions, action) ==
    [weight |-> weight, enabled |-> TRUE, conditions |-> conditions, action |-> action]
Block == [type |-> "block"]
Allow == [type |-> "allow"]
Reroute(target) == [type |-> "reroute", target |-> target]

\* One request in a second, over a reroute that all but gold requests take if
\* they are short: a nested group with a negated member.
CapRules ==
    <<Rule(2, Group("and", <<Quota("requests", "gte", 1, 1, {})>>), Block),
      Rule(1, Group("and", <<Test("function", "count_tokens", "lt", 3, FALSE),
                             Group("or", <<Test("header", "tier", "exact", "gold", TRUE),
                                           Test("content", "system", "regex", {}, FALSE)>>)>>),
           Reroute("small"))>>
\* One request in a second for each model; a rule of less weight changes nothing.
ModelCapRules ==
    <<Rule(2, Group("and", <<Quota("requests", "gt", 0, 1, {"model"})>>), Block),
      Rule(1, Group("or", <<Test("header", "tier", "in", {"gold"}, FALSE)>>), Allow)>>
\* Two measures over different windows in one rule; a rule of more weight sends
\* streamed requests to a model that is gone.
TwoMeasureRules ==
    <<Rule(2, Group("and", <<Test("parameter", "stream", "exact", TRUE, FALSE)>>),
           Reroute("gone")),
      Rule(1, Group("or", <<Quota("requests", "gt", 0, 2, {}), Quota("tokens", "gt", 1, 1, {})>>),
           Block)>>
\* A daily and an hourly cap of one measure, as in docs/rules-engine.md.
DailyAndHourlyRules ==
    <<Rule(2, Group("and", <<Quota("tokens", "gt", 1, 2, {})>>), Block),
      Rule(1, Group("and", <<Quota("tokens", "gt", 1, 1, {})>>), Block)>>

TheRuleSets == {CapRules, ModelCapRules, TwoMeasureRules}
TwoCaps == {DailyAndHourlyRules}
=============================================================================
