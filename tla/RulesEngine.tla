---------------------------- MODULE RulesEngine ----------------------------
(***************************************************************************)
(* The pure part of the rules engine (core/rules.py): conditions, groups,  *)
(* the choice of the rule that applies, and the Retry-After of a block.    *)
(*                                                                         *)
(* A rule is a record [weight, enabled, conditions, action].  conditions   *)
(* is a group [type |-> "group", logic, conditions], a sequence of leaf    *)
(* conditions [type, field, op, value, negate, window, per] and of groups  *)
(* of leaf conditions: nesting is cut off at that depth, each level being  *)
(* evaluated like the one above.  An action is [type] or [type, target].   *)
(*                                                                         *)
(* A request context ctx maps each type of condition to the fields it can  *)
(* be asked about, and "quota" to a bucket per measure.  Texts are atoms:  *)
(* the value of a regex, contains or in condition is the set of the texts  *)
(* that it accepts.                                                        *)
(***************************************************************************)
EXTENDS Integers, Sequences, FiniteSets

CONSTANTS
    None,     \* Python's None
    Blank     \* the text of a header the request does not have

Measures == {"requests", "tokens", "cost"}
NoBucket == [value |-> 0, nextFree |-> None, spec |-> None, oldest |-> None]

-----------------------------------------------------------------------------
\* _compare: nothing compares with None.
Compare(actual, op, expected) ==
    /\ actual # None
    /\ \/ op = "exact" /\ actual = expected
       \/ op \in {"regex", "contains", "in"} /\ actual \in expected
       \/ op = "gt" /\ actual > expected
       \/ op = "gte" /\ actual >= expected
       \/ op = "lt" /\ actual < expected
       \/ op = "lte" /\ actual <= expected

\* What the matcher of a condition's type compares: a bucket's value, the text
\* of a header or of the messages, a parameter, the result of a function.
Actual(cond, ctx) ==
    CASE cond.type = "quota" -> ctx.quota[cond.field].value
      [] cond.type # "quota" /\ cond.field \in DOMAIN ctx[cond.type] ->
             ctx[cond.type][cond.field]
      [] cond.type = "header" /\ cond.field \notin DOMAIN ctx.header -> Blank
      [] cond.type = "content" /\ cond.field \notin DOMAIN ctx.content ->
             ctx.content["messages"]
      [] OTHER -> None

\* evaluate_condition
Holds(cond, ctx) == Compare(Actual(cond, ctx), cond.op, cond.value) # cond.negate

\* evaluate_group, on a group of leaf conditions and on a group of those.
FlatHolds(group, ctx) ==
    LET conds == group.conditions IN
    IF group.logic = "and" THEN \A i \in DOMAIN conds : Holds(conds[i], ctx)
                           ELSE \E i \in DOMAIN conds : Holds(conds[i], ctx)

MemberHolds(cond, ctx) ==
    IF cond.type = "group" THEN FlatHolds(cond, ctx) ELSE Holds(cond, ctx)

GroupHolds(group, ctx) ==
    LET conds == group.conditions IN
    IF group.logic = "and" THEN \A i \in DOMAIN conds : MemberHolds(conds[i], ctx)
                           ELSE \E i \in DOMAIN conds : MemberHolds(conds[i], ctx)

-----------------------------------------------------------------------------
\* evaluate sorts the enabled rules by descending weight, keeping the order of
\* equals, and takes the first whose group holds.
Precedes(rules, i, j) ==
    \/ rules[i].weight > rules[j].weight
    \/ rules[i].weight = rules[j].weight /\ i < j

Matches(rules, i, ctx) == rules[i].enabled /\ GroupHolds(rules[i].conditions, ctx)

\* The position of the rule evaluate returns.
Winner(rules, i, ctx) ==
    /\ i \in DOMAIN rules /\ Matches(rules, i, ctx)
    /\ \A j \in DOMAIN rules \ {i} : Matches(rules, j, ctx) => Precedes(rules, i, j)

\* iter_conditions: the places of the leaf conditions of a group, in the order
\* of (member of the group, member of that member).
Leaves(group) ==
    LET conds == group.conditions IN
    {<<j, 0>> : j \in {j \in DOMAIN conds : conds[j].type # "group"}}
        \cup UNION {{<<j, k>> : k \in DOMAIN conds[j].conditions} :
                        j \in {j \in DOMAIN conds : conds[j].type = "group"}}

LeafAt(group, at) ==
    IF at[2] = 0 THEN group.conditions[at[1]]
                 ELSE group.conditions[at[1]].conditions[at[2]]

QuotaLeaves(rule) ==
    {cond \in {LeafAt(rule.conditions, at) : at \in Leaves(rule.conditions)} :
        cond.type = "quota"}

-----------------------------------------------------------------------------
\* _retry_after_for_rule: the longest wait of the measures a rule is about.
Waits(rule, quota) ==
    {quota[cond.field].nextFree : cond \in QuotaLeaves(rule)} \ {None}

\* A slip of RetryAfter: the shortest wait.
ShortestWait(rule, quota) ==
    IF Waits(rule, quota) = {} THEN 0
    ELSE CHOOSE w \in Waits(rule, quota) : \A v \in Waits(rule, quota) : w <= v

\* 0 stands for the header being left out: create_message sends none for 0 and
\* none for None.
RetryAfter(rule, quota) ==
    IF Waits(rule, quota) = {} THEN 0
    ELSE CHOOSE w \in Waits(rule, quota) : \A v \in Waits(rule, quota) : w >= v
=============================================================================
