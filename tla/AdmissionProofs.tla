-------------------------- MODULE AdmissionProofs --------------------------
(***************************************************************************)
(* What Admission promises for any number of requests, rules, models and   *)
(* for clocks of any length.                                               *)
(***************************************************************************)
EXTENDS Admission, FiniteSetTheorems, TLAPS

\* The actions keep the rules and what a request looks like.
LEMMA RulesFixed ==
    ASSUME [Next]_vars
    PROVE  rules' = rules /\ ctx' = ctx
BY DEF Next, vars, Tick, Arrive, CollectSpecs, Query, Blocked, Admitted, Complete, Respond,
       RespondFails, Fail, StreamEnds, Die

\* What a request is asked about depends on the rules only.
LEMMA SpecsFixed ==
    ASSUME rules' = rules
    PROVE  \A c : Specs(c)' = Specs(c)
BY DEF Specs

\* A model found is one the user may use.
LEMMA ResolvedIsModel ==
    ASSUME rules \in RuleSets, ctx \in [Requests -> Contexts], NEW r \in Requests
    PROVE  ModelFor[ResolvedBy(r)] \in Models \cup {None}
<1>1. CASE \E i \in DOMAIN rules : Applies(r, i) /\ rules[i].action.type = "reroute"
    <2> DEFINE k == CHOOSE i \in DOMAIN rules :
                        Applies(r, i) /\ rules[i].action.type = "reroute"
    <2>1. k \in DOMAIN rules /\ rules[k].action.type = "reroute"
        BY <1>1
    <2>2. ResolvedBy(r) = rules[k].action.target
        BY <1>1 DEF ResolvedBy
    <2> QED BY <2>1, <2>2, NameAssumption
<1>2. CASE ~\E i \in DOMAIN rules : Applies(r, i) /\ rules[i].action.type = "reroute"
    BY <1>2, NameAssumption DEF ResolvedBy
<1> QED BY <1>1, <1>2

-----------------------------------------------------------------------------
(***************************************************************************)
(* Types.                                                                  *)
(***************************************************************************)

\* A request that ends has nothing left, and its verdict is well formed.
LEMMA EndKeepsTypes ==
    ASSUME TypeOK, rules' = rules, ctx' = ctx, now' = now, log' \subseteq Rows,
           NEW r \in Requests, NEW a \in Answers \ {"none"}, NEW w, Answered(r, a, w)
    PROVE  TypeOK'
<1> USE DEF TypeOK, Answered, Steps, NoQuota, Unanswered
<1>1. pc' \in [Requests -> Labels] /\ pc'[r] = "done"
    BY DEF Labels
<1>2. begun' \in [Requests -> 0..now'] /\ clock' \in [Requests -> 0..now']
    BY TimeAssumption
<1>3. \A q \in Requests :
        /\ todo'[q] \subseteq Specs(ctx[q])
        /\ pc'[q] \in {"figured", "running", "logged"} => todo'[q] = {}
        /\ DOMAIN quota'[q] = Measures
        /\ pc'[q] \in {"running", "logged"} => model'[q] \in Models
    OBVIOUS
<1>4. \A q \in Requests : verdict'[q].answer \in Answers /\ verdict'[q].at \in 0..now
    BY TimeAssumption DEF Answers
<1>5. DOMAIN todo' = Requests /\ DOMAIN quota' = Requests /\ DOMAIN model' = Requests
      /\ DOMAIN verdict' = Requests
    OBVIOUS
<1>6. Rows' = Rows
    BY DEF Rows
<1> QED BY <1>1, <1>2, <1>3, <1>4, <1>5, <1>6, SpecsFixed

LEMMA TypesInit == Init => TypeOK
BY TimeAssumption DEF Init, TypeOK, Labels, Answers, Unanswered, NoQuota, Measures

LEMMA TypesStep == TypeOK /\ [Next]_vars => TypeOK'
<1> SUFFICES ASSUME TypeOK, [Next]_vars PROVE TypeOK'
    OBVIOUS
<1>0. rules' = rules /\ ctx' = ctx /\ \A c : Specs(c)' = Specs(c)
    BY RulesFixed, SpecsFixed
<1>1. CASE UNCHANGED vars
    BY <1>0, <1>1 DEF TypeOK, vars, Rows
<1>2. CASE Tick
    <2>1. now' \in 0..MaxTime /\ now' = now + 1 /\ now \in Nat
        BY <1>2, TimeAssumption DEF Tick, TypeOK
    <2>2. Rows \subseteq Rows'
        BY <2>1 DEF Rows
    <2>3. 0..now \subseteq 0..now'
        BY <2>1
    <2> QED BY <1>0, <1>2, <2>1, <2>2, <2>3 DEF Tick, TypeOK
<1>3. ASSUME NEW r \in Requests, Arrive(r) PROVE TypeOK'
    BY <1>0, <1>3, TimeAssumption DEF Arrive, Steps, TypeOK, Labels, Rows
<1>4. ASSUME NEW r \in Requests, CollectSpecs(r) PROVE TypeOK'
    <2>1. pc' \in [Requests -> Labels]
        BY <1>4 DEF CollectSpecs, Steps, TypeOK, Labels
    <2>2. clock' \in [Requests -> 0..now']
        BY <1>4, TimeAssumption DEF CollectSpecs, TypeOK
    <2>3. \A q \in Requests :
            /\ todo'[q] \subseteq Specs(ctx[q])
            /\ pc'[q] \in {"figured", "running", "logged"} => todo'[q] = {}
            /\ pc'[q] \in {"running", "logged"} => model'[q] \in Models
        BY <1>4 DEF CollectSpecs, Steps, TypeOK
    <2> QED BY <1>0, <1>4, <2>1, <2>2, <2>3 DEF CollectSpecs, TypeOK, Rows
<1>5. ASSUME NEW r \in Requests, Query(r) PROVE TypeOK'
    <2>1. PICK s \in todo[r] :
            /\ quota' = [quota EXCEPT ![r][s.measure] = Bucket(s, clock[r])]
            /\ todo' = [todo EXCEPT ![r] = @ \ {s}]
            /\ Steps(r, IF todo[r] = {s} THEN "figured" ELSE "asking")
        BY <1>5 DEF Query
    <2>2. pc' \in [Requests -> Labels]
        BY <2>1 DEF Steps, TypeOK, Labels
    <2>3. \A q \in Requests :
            /\ todo'[q] \subseteq Specs(ctx[q])
            /\ pc'[q] \in {"figured", "running", "logged"} => todo'[q] = {}
            /\ DOMAIN quota'[q] = Measures
            /\ pc'[q] \in {"running", "logged"} => model'[q] \in Models
        BY <1>5, <2>1 DEF Query, Steps, TypeOK
    <2>4. UNCHANGED <<now, log, begun, clock, model, verdict>>
        BY <1>5 DEF Query
    <2>5. DOMAIN todo' = Requests /\ DOMAIN quota' = Requests
        BY <2>1 DEF TypeOK
    <2>6. Rows' = Rows
        BY <2>4 DEF Rows
    <2> QED BY <1>0, <2>2, <2>3, <2>4, <2>5, <2>6 DEF TypeOK
<1>6. ASSUME NEW r \in Requests, Blocked(r) PROVE TypeOK'
    BY <1>0, <1>6, EndKeepsTypes DEF Blocked, Answers, TypeOK
<1>7. ASSUME NEW r \in Requests, Admitted(r) PROVE TypeOK'
    <2>1. CASE Answered(r, "forbidden", 0)
        BY <1>0, <1>7, <2>1, EndKeepsTypes DEF Admitted, Answers, TypeOK
    <2>2. CASE /\ ModelFor[ResolvedBy(r)] # None
               /\ Steps(r, "running")
               /\ model' = [model EXCEPT ![r] = ModelFor[ResolvedBy(r)]]
               /\ UNCHANGED <<begun, clock, todo, quota, verdict>>
        <3>1. ModelFor[ResolvedBy(r)] \in Models
            BY <2>2, ResolvedIsModel DEF TypeOK
        <3>2. pc' \in [Requests -> Labels]
            BY <2>2 DEF Steps, TypeOK, Labels
        <3>3. \A q \in Requests :
                /\ pc'[q] \in {"figured", "running", "logged"} => todo'[q] = {}
                /\ pc'[q] \in {"running", "logged"} => model'[q] \in Models
            BY <1>7, <2>2, <3>1 DEF Admitted, Steps, TypeOK
        <3>4. UNCHANGED <<now, log>>
            BY <1>7 DEF Admitted
        <3>5. Rows' = Rows
            BY <3>4 DEF Rows
        <3> QED BY <1>0, <2>2, <3>2, <3>3, <3>4, <3>5 DEF TypeOK
    <2> QED BY <1>7, <2>1, <2>2 DEF Admitted
<1>8. ASSUME NEW r \in Requests, Complete(r) PROVE TypeOK'
    <2>1. log' \subseteq Rows
        BY <1>8, LoadAssumption DEF Complete, TypeOK, Rows, Row
    <2>2. pc' \in [Requests -> Labels]
        BY <1>8 DEF Complete, Steps, TypeOK, Labels
    <2>3. \A q \in Requests :
            /\ pc'[q] \in {"figured", "running", "logged"} => todo'[q] = {}
            /\ pc'[q] \in {"running", "logged"} => model'[q] \in Models
        BY <1>8 DEF Complete, Steps, TypeOK
    <2> QED BY <1>0, <1>8, <2>1, <2>2, <2>3 DEF Complete, TypeOK, Rows
<1>9. ASSUME NEW r \in Requests, Respond(r) PROVE TypeOK'
    BY <1>0, <1>9, EndKeepsTypes DEF Respond, Answers, TypeOK
<1>10. ASSUME NEW r \in Requests, RespondFails(r) PROVE TypeOK'
    <2>1. log' \subseteq Rows
        BY <1>10 DEF RespondFails, TypeOK, Rows, Row
    <2> QED BY <1>0, <1>10, <2>1, EndKeepsTypes DEF RespondFails, Answers
<1>11. ASSUME NEW r \in Requests, Fail(r) PROVE TypeOK'
    <2>1. log' \subseteq Rows
        BY <1>11 DEF Fail, TypeOK, Rows, Row
    <2> QED BY <1>0, <1>11, <2>1, EndKeepsTypes DEF Fail, Answers
<1>12. ASSUME NEW r \in Requests, StreamEnds(r) PROVE TypeOK'
    <2>1. log' \subseteq Rows
        BY <1>12, LoadAssumption DEF StreamEnds, TypeOK, Rows, Row
    <2> QED BY <1>0, <1>12, <2>1, EndKeepsTypes DEF StreamEnds, Answers
<1>13. ASSUME NEW r \in Requests, Die(r) PROVE TypeOK'
    BY <1>0, <1>13, EndKeepsTypes DEF Die, Answers, TypeOK
<1> QED BY <1>1, <1>2, <1>3, <1>4, <1>5, <1>6, <1>7, <1>8, <1>9, <1>10, <1>11, <1>12, <1>13
        DEF Next

\* The variables keep their types, and the stations of a request what they say.
THEOREM TypeCorrect == Spec => []TypeOK
BY TypesInit, TypesStep, PTL DEF Spec

-----------------------------------------------------------------------------
(***************************************************************************)
(* Billing.  A request has no row before it is answered or logged.         *)
(***************************************************************************)
Unlogged == {"new", "begun", "asking", "figured", "running"}

BillInv ==
    /\ \A a, b \in log : a.req = b.req /\ Billable(a) /\ Billable(b) => a = b
    /\ \A r \in Requests :
         /\ pc[r] \in Unlogged => \A row \in log : row.req # r
         /\ pc[r] = "logged" => \E row \in log : row.req = r /\ row.status = 200
         /\ pc[r] # "done" => verdict[r].answer = "none"
         /\ pc[r] = "done" => verdict[r].answer # "none"
         /\ verdict[r].answer = "ok" => \E row \in log : row.req = r /\ row.status = 200
         /\ verdict[r].answer \in {"blocked", "forbidden"} => \A row \in log : row.req # r

LEMMA BillInvImplies == TypeOK /\ BillInv => BilledOnce
BY DEF TypeOK, BillInv, BilledOnce, Labels, Unlogged

\* An answer changes the verdict and the station of the request only.
LEMMA AnswerOf ==
    ASSUME TypeOK, NEW r \in Requests, NEW a \in Answers, NEW w, Answered(r, a, w)
    PROVE  /\ pc'[r] = "done" /\ verdict'[r].answer = a
           /\ \A q \in Requests \ {r} : pc'[q] = pc[q] /\ verdict'[q] = verdict[q]
BY DEF TypeOK, Answered, Steps, Unanswered

LEMMA BillStep == TypeOK /\ BillInv /\ [Next]_vars => BillInv'
<1> SUFFICES ASSUME TypeOK, BillInv, [Next]_vars PROVE BillInv'
    OBVIOUS
<1>1. CASE UNCHANGED vars
    BY <1>1 DEF BillInv, Billable, vars
<1>2. CASE Tick
    BY <1>2 DEF BillInv, Billable, Tick
<1>3. ASSUME NEW r \in Requests, Arrive(r) \/ CollectSpecs(r) \/ Query(r) PROVE BillInv'
    <2>1. UNCHANGED <<log, verdict>>
        BY <1>3 DEF Arrive, CollectSpecs, Query
    <2>2. /\ pc[r] \in Unlogged /\ pc'[r] \in Unlogged
          /\ \A q \in Requests \ {r} : pc'[q] = pc[q]
        BY <1>3 DEF Arrive, CollectSpecs, Query, Steps, TypeOK, Unlogged
    <2> QED BY <2>1, <2>2 DEF BillInv, Billable, Unlogged
<1>4. ASSUME NEW r \in Requests, Blocked(r) \/ Admitted(r) PROVE BillInv'
    <2>1. log' = log /\ pc[r] \in Unlogged
        BY <1>4 DEF Blocked, Admitted, Unlogged
    <2>2. CASE \E a, w : a \in {"blocked", "forbidden"} /\ Answered(r, a, w)
        <3>1. /\ pc'[r] = "done" /\ verdict'[r].answer \in {"blocked", "forbidden"}
              /\ \A q \in Requests \ {r} : pc'[q] = pc[q] /\ verdict'[q] = verdict[q]
            BY <2>2, AnswerOf DEF Answers
        <3> QED BY <2>1, <3>1 DEF BillInv, Billable, Unlogged
    <2>3. CASE Steps(r, "running") /\ UNCHANGED verdict
        <3>1. pc'[r] = "running" /\ \A q \in Requests \ {r} : pc'[q] = pc[q]
            BY <2>3 DEF Steps, TypeOK
        <3> QED BY <2>1, <2>3, <3>1 DEF BillInv, Billable, Unlogged
    <2> QED BY <1>4, <2>2, <2>3 DEF Blocked, Admitted
<1>5. ASSUME NEW r \in Requests, Complete(r) PROVE BillInv'
    <2>1. PICK u \in Usage : log' = log \cup {Row(r, 200, u, begun[r])}
        BY <1>5 DEF Complete
    <2>2. \A row \in log : row.req # r
        BY <1>5 DEF Complete, BillInv, Unlogged
    <2>3. /\ pc'[r] = "logged" /\ verdict' = verdict
          /\ \A q \in Requests \ {r} : pc'[q] = pc[q]
        BY <1>5 DEF Complete, Steps, TypeOK
    <2>4. verdict[r].answer = "none"
        BY <1>5 DEF Complete, BillInv
    <2>5. Row(r, 200, u, begun[r]).req = r /\ Row(r, 200, u, begun[r]).status = 200
        BY DEF Row
    <2>6. \A a, b \in log' : a.req = b.req /\ Billable(a) /\ Billable(b) => a = b
        BY <2>1, <2>2, <2>5 DEF BillInv
    <2>7. \A q \in Requests \ {r}, row \in log' : row.req = q => row \in log
        BY <2>1, <2>5
    <2>8. log \subseteq log' /\ \E row \in log' : row.req = r /\ row.status = 200
        BY <2>1, <2>5
    <2>9. \A a, b \in log' : a.req = b.req /\ Billable(a)' /\ Billable(b)' => a = b
        BY <2>6 DEF Billable
    <2> QED BY <2>3, <2>4, <2>7, <2>8, <2>9 DEF BillInv, Unlogged
<1>6. ASSUME NEW r \in Requests, Respond(r) PROVE BillInv'
    <2>1. /\ pc'[r] = "done" /\ verdict'[r].answer = "ok"
          /\ \A q \in Requests \ {r} : pc'[q] = pc[q] /\ verdict'[q] = verdict[q]
        BY <1>6, AnswerOf DEF Respond, Answers
    <2> QED BY <1>6, <2>1 DEF Respond, BillInv, Billable, Unlogged
<1>7. ASSUME NEW r \in Requests, RespondFails(r) \/ Fail(r) \/ Die(r) PROVE BillInv'
    <2>1. /\ pc'[r] = "done" /\ verdict'[r].answer = "error"
          /\ \A q \in Requests \ {r} : pc'[q] = pc[q] /\ verdict'[q] = verdict[q]
        BY <1>7, AnswerOf DEF RespondFails, Fail, Die, Answers
    <2>2. CASE log' = log
        BY <2>1, <2>2 DEF BillInv, Billable, Unlogged
    <2>3. CASE \E at : log' = log \cup {Row(r, 500, 0, at)}
        <3>1. PICK at : log' = log \cup {Row(r, 500, 0, at)}
            BY <2>3
        <3>2. ~Billable(Row(r, 500, 0, at)) /\ Row(r, 500, 0, at).req = r
            BY DEF Billable, Row
        <3>3. verdict[r].answer = "none"
            BY <1>7 DEF RespondFails, Fail, Die, InFlight, BillInv
        <3>4. \A a, b \in log' : a.req = b.req /\ Billable(a) /\ Billable(b) => a = b
            BY <3>1, <3>2 DEF BillInv
        <3> QED BY <2>1, <3>1, <3>2, <3>3, <3>4 DEF BillInv, Billable, Unlogged
    <2> QED BY <1>7, <2>2, <2>3 DEF RespondFails, Fail, Die
<1>8. ASSUME NEW r \in Requests, StreamEnds(r) PROVE BillInv'
    <2>1. /\ pc'[r] = "done" /\ verdict'[r].answer = "streamed"
          /\ \A q \in Requests \ {r} : pc'[q] = pc[q] /\ verdict'[q] = verdict[q]
        BY <1>8, AnswerOf DEF StreamEnds, Answers
    <2>2. PICK s, u, at : log' = log \cup {Row(r, s, u, at)}
        BY <1>8 DEF StreamEnds
    <2>3. \A row \in log : row.req # r
        BY <1>8 DEF StreamEnds, BillInv, Unlogged
    <2>4. Row(r, s, u, at).req = r
        BY DEF Row
    <2>5. \A a, b \in log' : a.req = b.req /\ Billable(a) /\ Billable(b) => a = b
        BY <2>2, <2>3, <2>4 DEF BillInv
    <2>6. \A q \in Requests \ {r}, row \in log' : row.req = q => row \in log
        BY <2>2, <2>4
    <2> QED BY <2>1, <2>2, <2>5, <2>6 DEF BillInv, Billable, Unlogged
<1> QED BY <1>1, <1>2, <1>3, <1>4, <1>5, <1>6, <1>7, <1>8 DEF Next

\* Nobody is billed twice, an answer is billed and a refusal is not recorded,
\* whatever fails and in whatever order requests are served.
THEOREM NobodyBilledTwice == Spec => []BilledOnce
<1>1. Init => BillInv
    BY DEF Init, BillInv, Unlogged, Unanswered
<1> QED BY <1>1, TypesInit, TypesStep, BillStep, BillInvImplies, PTL DEF Spec

-----------------------------------------------------------------------------
(***************************************************************************)
(* Quota.  What may still be charged to a window are the requests that     *)
(* have read their figures and found room: with what is charged already    *)
(* they are no more than the cap lets pass and the load adds.              *)
(***************************************************************************)
LastTick(cond, t) == t + cond.window * Second - MaxDelay

HasRoom(r, cond) ==
    /\ pc[r] \in {"asking", "figured", "running"}
    /\ SpecOf(cond, ctx[r]) \notin todo[r]
    /\ quota[r]["requests"].value < Cap(cond)

MayStamp(r, cond, t) ==
    \/ begun[r] >= t /\ begun[r] <= LastTick(cond, t)
    \/ ctx[r].parameter["stream"] /\ now <= LastTick(cond, t)

Pending(cond, m, t) ==
    {r \in Requests : /\ HasRoom(r, cond) /\ MayStamp(r, cond, t)
                      /\ "model" \in cond.per => ctx[r].parameter["model"] = m}

\* No more requests are in flight than may be, clocks are read soon after the
\* transaction began, and counts are numbers.
LoadInv ==
    /\ IsFiniteSet(log) /\ Cardinality(InFlight) <= Limit
    /\ \A r \in Requests :
         /\ quota[r]["requests"].value \in Nat
         /\ pc[r] = "begun" => now <= begun[r] + MaxDelay
         /\ pc[r] \in {"asking", "figured", "running"} => clock[r] <= begun[r] + MaxDelay

Room(cond, m, t) ==
    Cardinality(Charged(cond, m, t)) + Cardinality(Pending(cond, m, t)) <= Cap(cond) - 1 + Limit

QuotaInv ==
    \A i \in DOMAIN rules : \A cond \in QuotaLeaves(rules[i]) :
        Caps(i, cond) =>
            /\ \A r \in Requests : pc[r] = "running" => quota[r]["requests"].value < Cap(cond)
            /\ \A m \in Models, t \in Nat : Room(cond, m, t)

\* The sets that are counted are finite.
LEMMA FiniteCounts ==
    ASSUME LoadInv, NEW cond, NEW m, NEW t
    PROVE  /\ IsFiniteSet(Charged(cond, m, t)) /\ Cardinality(Charged(cond, m, t)) \in Nat
           /\ IsFiniteSet(Pending(cond, m, t)) /\ Cardinality(Pending(cond, m, t)) \in Nat
<1>1. Charged(cond, m, t) \subseteq log
    BY DEF Charged
<1>2. Pending(cond, m, t) \subseteq Requests
    BY DEF Pending
<1>3. IsFiniteSet(Charged(cond, m, t)) /\ IsFiniteSet(Pending(cond, m, t))
    BY <1>1, <1>2, FS_Subset, LoadAssumption DEF LoadInv
<1> QED BY <1>3, FS_CardinalityType

\* No more is charged, and no more is pending.
LEMMA CountKept ==
    ASSUME NEW C, NEW P, NEW D, NEW Q, NEW B \in Int, IsFiniteSet(C), IsFiniteSet(P),
           D \subseteq C, Q \subseteq P, Cardinality(C) + Cardinality(P) <= B
    PROVE  Cardinality(D) + Cardinality(Q) <= B
<1>1. Cardinality(D) <= Cardinality(C) /\ IsFiniteSet(D)
    BY FS_Subset
<1>2. Cardinality(Q) <= Cardinality(P) /\ IsFiniteSet(Q)
    BY FS_Subset
<1> QED BY <1>1, <1>2, FS_CardinalityType

\* A cap that is reached wins over all other rules.
LEMMA CapBlocks ==
    ASSUME NEW i, NEW cond, Caps(i, cond), NEW r \in Requests,
           quota[r]["requests"].value \in Nat, quota[r]["requests"].value >= Cap(cond)
    PROVE  Applies(r, i) /\ rules[i].action.type = "block"
<1> DEFINE c == RuleContext(ctx[r], quota[r])
           group == rules[i].conditions
<1>1. c.quota["requests"].value = quota[r]["requests"].value
    BY DEF RuleContext
<1>2. Actual(cond, c) = quota[r]["requests"].value
    BY <1>1 DEF Actual, Caps
<1>3. Compare(Actual(cond, c), cond.op, cond.value)
    <2>1. Actual(cond, c) # None
        BY <1>2, NameAssumption
    <2>2. CASE cond.op = "gte"
        BY <1>2, <2>1, <2>2 DEF Compare, Caps, Cap
    <2>3. CASE cond.op = "gt"
        BY <1>2, <2>1, <2>3 DEF Compare, Caps, Cap
    <2> QED BY <2>2, <2>3 DEF Caps
<1>4. Holds(cond, c)
    BY <1>3 DEF Holds, Caps
<1>5. group.conditions = <<cond>> /\ DOMAIN <<cond>> = {1} /\ cond.type # "group"
    BY DEF Caps
<1>6. \A k \in DOMAIN group.conditions : MemberHolds(group.conditions[k], c)
    BY <1>4, <1>5 DEF MemberHolds
<1>7. GroupHolds(group, c)
    BY <1>5, <1>6 DEF GroupHolds
<1>8. \A j \in DOMAIN rules \ {i} : Precedes(rules, i, j)
    BY DEF Caps, Precedes
<1> QED BY <1>7, <1>8 DEF Applies, Winner, Matches, Caps

-----------------------------------------------------------------------------
\* What the end of a request leaves.
LEMMA EndOf ==
    ASSUME TypeOK, NEW r \in Requests, NEW a \in Answers, NEW w, Answered(r, a, w)
    PROVE  /\ pc'[r] = "done" /\ quota'[r] = NoQuota
           /\ \A q \in Requests \ {r} :
                /\ pc'[q] = pc[q] /\ todo'[q] = todo[q] /\ quota'[q] = quota[q]
                /\ begun'[q] = begun[q] /\ clock'[q] = clock[q]
BY DEF TypeOK, Answered, Steps

\* The actions that answer a request, and the row they leave.
Ends(r) ==
    \/ Blocked(r) \/ (Admitted(r) /\ ModelFor[ResolvedBy(r)] = None)
    \/ Respond(r) \/ RespondFails(r) \/ Fail(r) \/ StreamEnds(r) \/ Die(r)

LEMMA EndsAnswer ==
    ASSUME NEW r \in Requests, Ends(r)
    PROVE  /\ \E a, w : a \in Answers /\ Answered(r, a, w)
           /\ pc[r] \notin {"new", "done"}
           /\ now' = now /\ rules' = rules /\ ctx' = ctx
           /\ \/ log' = log
              \/ \E at : log' = log \cup {Row(r, 500, 0, at)}
              \/ pc[r] = "running" /\ StreamEnds(r)
BY DEF Ends, Blocked, Admitted, Respond, RespondFails, Fail, StreamEnds, Die, Answers, InFlight

LEMMA LoadInit == Init => LoadInv
<1> SUFFICES ASSUME Init PROVE LoadInv
    OBVIOUS
<1>1. InFlight = {} /\ log = {}
    BY DEF Init, InFlight
<1>2. \A r \in Requests : quota[r]["requests"].value = 0 /\ pc[r] = "new"
    BY DEF Init, NoQuota, Measures, NoBucket
<1> QED BY <1>1, <1>2, FS_EmptySet, LoadAssumption DEF LoadInv

\* Fewer requests in flight, no more than one row more.
LEMMA LoadOnEnd ==
    ASSUME TypeOK, LoadInv, NEW r \in Requests, Ends(r)
    PROVE  LoadInv'
<1>1. PICK a, w : a \in Answers /\ Answered(r, a, w)
    BY EndsAnswer
<1>2. /\ pc'[r] = "done" /\ quota'[r] = NoQuota
      /\ \A q \in Requests \ {r} :
           /\ pc'[q] = pc[q] /\ quota'[q] = quota[q]
           /\ begun'[q] = begun[q] /\ clock'[q] = clock[q]
    BY <1>1, EndOf
<1>3. IsFiniteSet(log')
    <2>1. CASE log' = log
        BY <2>1 DEF LoadInv
    <2>2. CASE \E row : log' = log \cup {row}
        BY <2>2, FS_AddElement DEF LoadInv
    <2>3. CASE StreamEnds(r)
        BY <2>2, <2>3 DEF StreamEnds
    <2> QED BY <2>1, <2>2, <2>3, EndsAnswer
<1>4. InFlight' \subseteq InFlight
    BY <1>2 DEF InFlight
<1>5. Cardinality(InFlight') <= Limit
    <2>1. IsFiniteSet(InFlight)
        BY FS_Subset, LoadAssumption DEF InFlight
    <2>2. Cardinality(InFlight') <= Cardinality(InFlight) /\ IsFiniteSet(InFlight')
        BY <1>4, <2>1, FS_Subset
    <2> QED BY <2>1, <2>2, FS_CardinalityType, LoadAssumption DEF LoadInv
<1>6. quota'[r]["requests"].value \in Nat
    BY <1>2 DEF NoQuota, NoBucket, Measures
<1>7. now' = now
    BY EndsAnswer
<1> QED BY <1>2, <1>3, <1>5, <1>6, <1>7 DEF LoadInv

LEMMA LoadStep == TypeOK /\ LoadInv /\ [Next]_vars => LoadInv'
<1> SUFFICES ASSUME TypeOK, LoadInv, [Next]_vars PROVE LoadInv'
    OBVIOUS
<1>1. CASE UNCHANGED vars
    BY <1>1 DEF LoadInv, InFlight, vars
<1>2. CASE Tick
    <2>1. InFlight' = InFlight
        BY <1>2 DEF Tick, InFlight
    <2>2. \A r \in Requests : pc[r] = "begun" => now' <= begun[r] + MaxDelay
        BY <1>2, TimeAssumption DEF Tick, TypeOK
    <2> QED BY <1>2, <2>1, <2>2 DEF Tick, LoadInv
<1>3. ASSUME NEW r \in Requests, Arrive(r) PROVE LoadInv'
    <2>1. InFlight' = InFlight \cup {r} /\ r \notin InFlight
        BY <1>3 DEF Arrive, Steps, InFlight, TypeOK
    <2>2. IsFiniteSet(InFlight)
        BY FS_Subset, LoadAssumption DEF InFlight
    <2>3. Cardinality(InFlight) \in Nat
        BY <2>2, FS_CardinalityType
    <2>4. Cardinality(InFlight') <= Limit
        <3>1. Cardinality(InFlight \cup {r}) =
                  IF r \in InFlight THEN Cardinality(InFlight) ELSE Cardinality(InFlight) + 1
            BY <2>2, FS_AddElement, Zenon
        <3> QED BY <1>3, <2>1, <2>3, <3>1, LoadAssumption DEF Arrive
    <2>5. \A q \in Requests :
            /\ pc'[q] = "begun" => now' <= begun'[q] + MaxDelay
            /\ pc'[q] \in {"asking", "figured", "running"} => clock'[q] <= begun'[q] + MaxDelay
        BY <1>3, TimeAssumption DEF Arrive, Steps, LoadInv, TypeOK
    <2> QED BY <1>3, <2>4, <2>5 DEF Arrive, LoadInv
<1>4. ASSUME NEW r \in Requests, CollectSpecs(r) PROVE LoadInv'
    <2>1. InFlight' = InFlight
        BY <1>4 DEF CollectSpecs, Steps, InFlight, TypeOK
    <2> QED BY <1>4, <2>1 DEF CollectSpecs, Steps, LoadInv, TypeOK
<1>5. ASSUME NEW r \in Requests, Query(r) PROVE LoadInv'
    <2>1. PICK s \in todo[r] :
            /\ quota' = [quota EXCEPT ![r][s.measure] = Bucket(s, clock[r])]
            /\ Steps(r, IF todo[r] = {s} THEN "figured" ELSE "asking")
        BY <1>5 DEF Query
    <2>2. InFlight' = InFlight
        BY <1>5, <2>1 DEF Query, Steps, InFlight, TypeOK
    <2>3. s.measure = "requests" => Bucket(s, clock[r]).value \in Nat
        <3>1. Contributing(s, clock[r]) \subseteq log
            BY DEF Contributing
        <3>2. Cardinality(Contributing(s, clock[r])) \in Nat
            BY <3>1, FS_Subset, FS_CardinalityType DEF LoadInv
        <3> QED BY <3>2 DEF Bucket, Value
    <2>4. \A q \in Requests : quota'[q]["requests"].value \in Nat
        <3>1. ASSUME NEW q \in Requests PROVE quota'[q]["requests"].value \in Nat
            <4>1. CASE q = r /\ s.measure = "requests"
                BY <2>1, <2>3, <4>1 DEF TypeOK, Measures
            <4>2. CASE q # r \/ s.measure # "requests"
                <5>1. quota'[q]["requests"] = quota[q]["requests"]
                    BY <2>1, <4>2 DEF TypeOK, Measures
                <5> QED BY <5>1 DEF LoadInv
            <4> QED BY <4>1, <4>2
        <3> QED BY <3>1
    <2> QED BY <1>5, <2>1, <2>2, <2>4 DEF Query, Steps, LoadInv, TypeOK
<1>6. ASSUME NEW r \in Requests, Admitted(r), ModelFor[ResolvedBy(r)] # None PROVE LoadInv'
    <2>1. InFlight' = InFlight
        BY <1>6 DEF Admitted, Steps, InFlight, TypeOK
    <2> QED BY <1>6, <2>1 DEF Admitted, Steps, LoadInv, TypeOK
<1>7. ASSUME NEW r \in Requests, Complete(r) PROVE LoadInv'
    <2>1. InFlight' = InFlight
        BY <1>7 DEF Complete, Steps, InFlight, TypeOK
    <2>2. IsFiniteSet(log')
        BY <1>7, FS_AddElement DEF Complete, LoadInv
    <2> QED BY <1>7, <2>1, <2>2 DEF Complete, Steps, LoadInv, TypeOK
<1>8. ASSUME NEW r \in Requests, Ends(r) PROVE LoadInv'
    BY <1>8, LoadOnEnd
<1> QED BY <1>1, <1>2, <1>3, <1>4, <1>5, <1>6, <1>7, <1>8 DEF Next, Ends

-----------------------------------------------------------------------------
\* The only figure a cap's measure has is that of the cap's own spec.
LEMMA OwnSpec ==
    ASSUME NEW i, NEW cond, Caps(i, cond), cond \in QuotaLeaves(rules[i]), NEW c
    PROVE  /\ SpecOf(cond, c) \in Specs(c)
           /\ \A s \in Specs(c) : s.measure = "requests" => s = SpecOf(cond, c)
<1>1. SpecOf(cond, c) \in Specs(c)
    BY DEF Specs, Caps
<1>2. ASSUME NEW s \in Specs(c), s.measure = "requests" PROVE s = SpecOf(cond, c)
    <2>1. PICK j \in DOMAIN rules : \E other \in QuotaLeaves(rules[j]) : s = SpecOf(other, c)
        BY DEF Specs
    <2>2. PICK other \in QuotaLeaves(rules[j]) : s = SpecOf(other, c)
        BY <2>1
    <2>3. other.field = "requests"
        BY <1>2, <2>2 DEF SpecOf
    <2> QED BY <2>1, <2>2, <2>3 DEF Caps
<1> QED BY <1>1, <1>2

LEMMA CapIsInt ==
    ASSUME NEW i, NEW cond, Caps(i, cond), NEW t \in Nat
    PROVE  /\ Cap(cond) \in Nat /\ Cap(cond) - 1 + Limit \in Int
           /\ LastTick(cond, t) \in Int /\ LastTick(cond, t) <= t + cond.window * Second
           /\ cond.window * Second \in Nat
<1>1. cond.window * Second \in Nat
    BY TimeAssumption DEF Caps
<1> QED BY <1>1, TimeAssumption, LoadAssumption DEF Caps, Cap, LastTick

\* The requests an action does not serve are pending as before.
LEMMA OthersPending ==
    ASSUME NEW r \in Requests, ctx' = ctx, now' = now,
           \A q \in Requests \ {r} :
              /\ pc'[q] = pc[q] /\ todo'[q] = todo[q] /\ quota'[q] = quota[q]
              /\ begun'[q] = begun[q],
           rules' = rules, NEW cond, NEW m, NEW t
    PROVE  \A q \in Requests \ {r} : q \in Pending(cond, m, t)' <=> q \in Pending(cond, m, t)
BY DEF Pending, HasRoom, MayStamp

\* The step this is about: a request reads the figure of the cap and finds room.
\* All that is charged to a window its row may fall into is in that figure.
LEMMA RoomOnRead ==
    ASSUME TypeOK, TypeOK', LoadInv, LoadInv', NEW i, NEW cond, Caps(i, cond),
           cond \in QuotaLeaves(rules[i]), NEW m \in Models, NEW t \in Nat,
           NEW r \in Requests, Query(r),
           quota'[r]["requests"] = Bucket(SpecOf(cond, ctx[r]), clock[r]),
           r \in Pending(cond, m, t)'
    PROVE  Room(cond, m, t)'
<1> DEFINE own == SpecOf(cond, ctx[r])
           C == Charged(cond, m, t)
           rows == Contributing(own, clock[r])
<1>1. now' = now /\ log' = log /\ ctx' = ctx /\ begun' = begun /\ rules' = rules
    BY DEF Query
<1>2. Charged(cond, m, t)' = C
    BY <1>1 DEF Charged, Billable
<1>3. /\ quota'[r]["requests"].value < Cap(cond)
      /\ "model" \in cond.per => ctx[r].parameter["model"] = m
      /\ \/ begun[r] >= t /\ begun[r] <= LastTick(cond, t)
         \/ now <= LastTick(cond, t)
    BY <1>1 DEF Pending, HasRoom, MayStamp
<1>4. own.measure = "requests" /\ own.window = cond.window
      /\ (own.model # None => "model" \in cond.per /\ own.model = ctx[r].parameter["model"])
    BY DEF SpecOf, Caps
<1>5. Cardinality(rows) < Cap(cond)
    BY <1>3, <1>4 DEF Bucket, Value
<1>6. t >= clock[r] - own.window * Second
    <2>1. clock[r] \in Nat /\ begun[r] \in Nat /\ now \in Nat /\ clock[r] <= now
        BY TimeAssumption DEF TypeOK
    <2>2. clock[r] <= begun[r] + MaxDelay
        BY DEF Query, LoadInv
    <2>3. cond.window * Second \in Nat /\ MaxDelay \in Nat
          /\ LastTick(cond, t) = t + cond.window * Second - MaxDelay
        BY CapIsInt, TimeAssumption DEF LastTick
    <2> QED BY <1>3, <1>4, <2>1, <2>2, <2>3
<1>7. C \subseteq rows
    <2>1. ASSUME NEW row \in C PROVE row \in rows
        <3>1. /\ row \in log /\ Billable(row) /\ row.at >= t
              /\ "model" \in cond.per => row.model = m
            BY DEF Charged
        <3>2. row.at \in Int
            BY <3>1, TimeAssumption DEF TypeOK, Rows
        <3>3. clock[r] - own.window * Second \in Int
            BY <1>4, CapIsInt, TimeAssumption DEF TypeOK
        <3>4. row.at >= clock[r] - own.window * Second
            BY <1>6, <3>1, <3>2, <3>3
        <3>5. own.model # None => row.model = own.model
            BY <1>3, <1>4, <3>1
        <3> QED BY <3>1, <3>4, <3>5 DEF Contributing
    <2> QED BY <2>1
<1>8. rows \subseteq log /\ IsFiniteSet(rows) /\ Cardinality(rows) \in Nat
    <2>1. rows \subseteq log
        BY DEF Contributing
    <2> QED BY <2>1, FS_Subset, FS_CardinalityType DEF LoadInv
<1>9. Cardinality(C) <= Cardinality(rows) /\ Cardinality(C) \in Nat
    BY <1>7, <1>8, FS_Subset, FS_CardinalityType
<1>10. Cardinality(Pending(cond, m, t)') <= Limit /\ Cardinality(Pending(cond, m, t)') \in Nat
    <2>1. Pending(cond, m, t)' \subseteq InFlight'
        BY DEF Pending, HasRoom, InFlight
    <2>2. IsFiniteSet(InFlight')
        BY FS_Subset, LoadAssumption DEF InFlight
    <2>3. /\ IsFiniteSet(Pending(cond, m, t)')
          /\ Cardinality(Pending(cond, m, t)') <= Cardinality(InFlight')
        BY <2>1, <2>2, FS_Subset
    <2>4. Cardinality(InFlight') \in Nat /\ Cardinality(Pending(cond, m, t)') \in Nat
        BY <2>2, <2>3, FS_CardinalityType
    <2>5. Cardinality(InFlight') <= Limit
        BY DEF LoadInv
    <2> QED BY <2>3, <2>4, <2>5, LoadAssumption
<1> QED BY <1>2, <1>5, <1>8, <1>9, <1>10, CapIsInt, LoadAssumption DEF Room, Cap

\* A row that is charged was pending.
LEMMA RoomOnRow ==
    ASSUME TypeOK, LoadInv, NEW i, NEW cond, Caps(i, cond), NEW m \in Models, NEW t \in Nat,
           Room(cond, m, t), NEW r \in Requests, pc[r] = "running",
           quota[r]["requests"].value < Cap(cond),
           NEW s, NEW u, NEW at,
           at = begun[r] \/ (ctx[r].parameter["stream"] /\ at = now),
           log' = log \cup {Row(r, s, u, at)}, ctx' = ctx, rules' = rules,
           Pending(cond, m, t)' \subseteq Pending(cond, m, t) \ {r}
    PROVE  Room(cond, m, t)'
<1> DEFINE x == Row(r, s, u, at)
           C == Charged(cond, m, t)
           P == Pending(cond, m, t)
<1>1. x.req = r /\ x.at = at
    BY DEF Row
<1>2. Charged(cond, m, t)' \subseteq C \cup {x}
    BY DEF Charged, Billable
<1>3. IsFiniteSet(C) /\ IsFiniteSet(P) /\ Cardinality(C) + Cardinality(P) <= Cap(cond) - 1 + Limit
      /\ Cap(cond) - 1 + Limit \in Int
    BY FiniteCounts, CapIsInt DEF Room
<1>4. CASE x \in Charged(cond, m, t)'
    <2>1. /\ at >= t /\ at <= LastTick(cond, t)
          /\ "model" \in cond.per => ctx[r].parameter["model"] = m
        BY <1>1, <1>4 DEF Charged, LastTick
    <2>2. MayStamp(r, cond, t)
        BY <2>1 DEF MayStamp
    <2>3. HasRoom(r, cond)
        BY DEF HasRoom, TypeOK
    <2>4. r \in P
        BY <2>1, <2>2, <2>3 DEF Pending
    <2>5. Cardinality(C) \in Nat /\ Cardinality(P) \in Nat
        BY FiniteCounts
    <2>6. IsFiniteSet(C \cup {x}) /\ Cardinality(C \cup {x}) <= Cardinality(C) + 1
        <3> HIDE DEF C, x
        <3>1. /\ IsFiniteSet(C \cup {x})
              /\ Cardinality(C \cup {x}) = IF x \in C THEN Cardinality(C) ELSE Cardinality(C) + 1
            BY <1>3, FS_AddElement, Zenon
        <3> QED BY <2>5, <3>1
    <2>7. IsFiniteSet(P \ {r}) /\ Cardinality(P \ {r}) = Cardinality(P) - 1
        <3> HIDE DEF P
        <3> QED BY <1>3, <2>4, FS_RemoveElement
    <2>8. Cardinality(C \cup {x}) + Cardinality(P \ {r}) <= Cap(cond) - 1 + Limit
        <3> HIDE DEF C, P, x
        <3> QED BY <1>3, <2>5, <2>6, <2>7, FS_CardinalityType
    <2>9. Cardinality(Charged(cond, m, t)') + Cardinality(Pending(cond, m, t)')
              <= Cap(cond) - 1 + Limit
        <3>1. Pending(cond, m, t)' \subseteq P \ {r}
            OBVIOUS
        <3> HIDE DEF C, P, x
        <3> QED BY <1>2, <1>3, <2>6, <2>7, <2>8, <3>1, CountKept
    <2> QED BY <2>9 DEF Room, Cap
<1>5. CASE x \notin Charged(cond, m, t)'
    <2>1. Charged(cond, m, t)' \subseteq C /\ Pending(cond, m, t)' \subseteq P
        BY <1>2, <1>5
    <2> HIDE DEF C, P, x
    <2>2. Cardinality(Charged(cond, m, t)') + Cardinality(Pending(cond, m, t)')
              <= Cap(cond) - 1 + Limit
        BY <1>3, <2>1, CountKept
    <2> QED BY <2>2 DEF Room, Cap
<1> QED BY <1>4, <1>5

LEMMA RoomKept ==
    ASSUME LoadInv, NEW i, NEW cond, Caps(i, cond), NEW m, NEW t \in Nat, Room(cond, m, t),
           Charged(cond, m, t)' \subseteq Charged(cond, m, t),
           Pending(cond, m, t)' \subseteq Pending(cond, m, t)
    PROVE  Room(cond, m, t)'
<1>1. Cardinality(Charged(cond, m, t)') + Cardinality(Pending(cond, m, t)') <= Cap(cond) - 1 + Limit
    BY FiniteCounts, CapIsInt, CountKept DEF Room
<1> QED BY <1>1 DEF Room, Cap

\* A request that ends leaves the pending ones, with a row that was reckoned with.
LEMMA RoomOnEnd ==
    ASSUME TypeOK, LoadInv, NEW i, NEW cond, Caps(i, cond), NEW m \in Models, NEW t \in Nat,
           Room(cond, m, t),
           \A q \in Requests : pc[q] = "running" => quota[q]["requests"].value < Cap(cond),
           NEW r \in Requests, Ends(r)
    PROVE  Room(cond, m, t)'
<1>1. now' = now /\ rules' = rules /\ ctx' = ctx
    BY EndsAnswer
<1>2. /\ pc'[r] = "done"
      /\ \A q \in Requests \ {r} :
           /\ pc'[q] = pc[q] /\ todo'[q] = todo[q] /\ quota'[q] = quota[q]
           /\ begun'[q] = begun[q]
    BY EndsAnswer, EndOf
<1>3. \A q \in Requests \ {r} : q \in Pending(cond, m, t)' <=> q \in Pending(cond, m, t)
    BY <1>1, <1>2, OthersPending
<1>4. r \notin Pending(cond, m, t)'
    BY <1>2 DEF Pending, HasRoom
<1>5. Pending(cond, m, t)' \subseteq Pending(cond, m, t) \ {r}
    <2>1. Pending(cond, m, t)' \subseteq Requests
        BY DEF Pending
    <2> QED BY <1>3, <1>4, <2>1
<1>6. CASE log' = log \/ \E at : log' = log \cup {Row(r, 500, 0, at)}
    <2>1. Charged(cond, m, t)' \subseteq Charged(cond, m, t)
        BY <1>1, <1>6 DEF Charged, Billable, Row
    <2> QED BY <1>5, <2>1, RoomKept
<1>7. CASE pc[r] = "running" /\ StreamEnds(r)
    <2>1. CASE \E at : log' = log \cup {Row(r, 500, 0, at)}
        BY <1>6, <2>1
    <2>2. CASE \E u \in Usage, s \in {200, 499}, at \in {begun[r], now} :
                  log' = log \cup {Row(r, s, u, at)}
        <3>1. PICK u \in Usage, s \in {200, 499}, at \in {begun[r], now} :
                  log' = log \cup {Row(r, s, u, at)}
            BY <2>2
        <3>2. at = begun[r] \/ (ctx[r].parameter["stream"] /\ at = now)
            BY <1>7, <3>1 DEF StreamEnds
        <3> QED BY <1>1, <1>5, <1>7, <3>1, <3>2, RoomOnRow
    <2> QED BY <1>7, <2>1, <2>2 DEF StreamEnds
<1> QED BY <1>6, <1>7, EndsAnswer

LEMMA RoomStep ==
    ASSUME TypeOK, TypeOK', LoadInv, LoadInv', [Next]_vars,
           NEW i, NEW cond \in QuotaLeaves(rules[i]), Caps(i, cond),
           NEW m \in Models, NEW t \in Nat, Room(cond, m, t),
           \A q \in Requests : pc[q] = "running" => quota[q]["requests"].value < Cap(cond)
    PROVE  Room(cond, m, t)'
<1> DEFINE C == Charged(cond, m, t)
           P == Pending(cond, m, t)
<1>1. CASE UNCHANGED vars
    <2>1. C' = C /\ P' = P
        BY <1>1 DEF vars, Charged, Billable, Pending, HasRoom, MayStamp
    <2> QED BY <2>1, RoomKept
<1>2. CASE Tick
    <2>1. now' = now + 1 /\ now \in Nat
          /\ UNCHANGED <<rules, log, pc, ctx, begun, todo, quota>>
        BY <1>2, TimeAssumption DEF Tick, TypeOK
    <2>2. C' = C
        BY <2>1 DEF Charged, Billable
    <2>3. \A r \in Requests : MayStamp(r, cond, t)' => MayStamp(r, cond, t)
        <3>1. LastTick(cond, t) \in Int /\ LastTick(cond, t)' = LastTick(cond, t)
            BY CapIsInt DEF LastTick
        <3> QED BY <2>1, <3>1 DEF MayStamp
    <2>4. P' \subseteq P
        BY <2>1, <2>3 DEF Pending, HasRoom
    <2> QED BY <2>2, <2>4, RoomKept
<1>3. ASSUME NEW r \in Requests, Arrive(r) \/ CollectSpecs(r) PROVE Room(cond, m, t)'
    <2>1. /\ now' = now /\ rules' = rules /\ ctx' = ctx /\ log' = log
          /\ \A q \in Requests \ {r} :
               /\ pc'[q] = pc[q] /\ todo'[q] = todo[q] /\ quota'[q] = quota[q]
               /\ begun'[q] = begun[q]
        BY <1>3 DEF Arrive, CollectSpecs, Steps, TypeOK
    <2>2. r \notin P'
        <3>1. CASE Arrive(r)
            BY <3>1 DEF Arrive, Steps, TypeOK, Pending, HasRoom
        <3>2. CASE CollectSpecs(r)
            BY <2>1, <3>2, OwnSpec DEF CollectSpecs, TypeOK, Pending, HasRoom
        <3> QED BY <1>3, <3>1, <3>2
    <2>3. P' \subseteq P
        <3>1. P' \subseteq Requests
            BY DEF Pending
        <3> QED BY <2>1, <2>2, <3>1, OthersPending
    <2>4. C' = C
        BY <2>1 DEF Charged, Billable
    <2> QED BY <2>3, <2>4, RoomKept
<1>4. ASSUME NEW r \in Requests, Query(r) PROVE Room(cond, m, t)'
    <2> DEFINE own == SpecOf(cond, ctx[r])
    <2>1. PICK s \in todo[r] :
            /\ quota' = [quota EXCEPT ![r][s.measure] = Bucket(s, clock[r])]
            /\ todo' = [todo EXCEPT ![r] = @ \ {s}]
            /\ Steps(r, IF todo[r] = {s} THEN "figured" ELSE "asking")
        BY <1>4 DEF Query
    <2>2. /\ now' = now /\ rules' = rules /\ ctx' = ctx /\ log' = log /\ begun' = begun
          /\ \A q \in Requests \ {r} :
               pc'[q] = pc[q] /\ todo'[q] = todo[q] /\ quota'[q] = quota[q]
        BY <1>4, <2>1 DEF Query, Steps, TypeOK
    <2>3. \A q \in Requests \ {r} : q \in P' <=> q \in P
        BY <2>2, OthersPending
    <2>4. C' = C
        BY <2>2 DEF Charged, Billable
    <2>5. P' \subseteq Requests
        BY DEF Pending
    <2>6. CASE r \notin P'
        BY <2>3, <2>4, <2>5, <2>6, RoomKept
    <2>7. CASE r \in P' /\ s = own
        <3>1. s.measure = "requests"
            BY <2>7 DEF SpecOf, Caps
        <3>2. quota'[r]["requests"] = Bucket(own, clock[r])
            BY <2>1, <2>7, <3>1 DEF TypeOK, Measures
        <3> QED BY <1>4, <2>7, <3>2, RoomOnRead
    <2>8. CASE r \in P' /\ s # own
        <3>1. s \in Specs(ctx[r]) /\ s.measure # "requests"
            BY <2>1, <2>8, OwnSpec DEF TypeOK
        <3>2. quota'[r]["requests"] = quota[r]["requests"]
            BY <2>1, <3>1 DEF TypeOK, Measures
        <3>3. own \notin todo[r]
            BY <2>1, <2>2, <2>8 DEF Pending, HasRoom, TypeOK
        <3>4. r \in P
            BY <1>4, <2>2, <2>8, <3>2, <3>3 DEF Query, Pending, HasRoom, MayStamp
        <3> QED BY <2>3, <2>4, <2>5, <3>4, RoomKept
    <2> QED BY <2>6, <2>7, <2>8
<1>5. ASSUME NEW r \in Requests, Admitted(r), ModelFor[ResolvedBy(r)] # None
      PROVE  Room(cond, m, t)'
    <2>1. /\ now' = now /\ rules' = rules /\ ctx' = ctx /\ log' = log /\ begun' = begun
          /\ todo' = todo /\ quota' = quota /\ pc[r] = "figured"
          /\ \A q \in Requests \ {r} : pc'[q] = pc[q]
        BY <1>5 DEF Admitted, Steps, TypeOK
    <2>2. P' \subseteq P /\ C' = C
        BY <2>1 DEF Charged, Billable, Pending, HasRoom, MayStamp
    <2> QED BY <2>2, RoomKept
<1>6. ASSUME NEW r \in Requests, Complete(r) PROVE Room(cond, m, t)'
    <2>1. /\ now' = now /\ rules' = rules /\ ctx' = ctx /\ pc[r] = "running" /\ pc'[r] = "logged"
          /\ \A q \in Requests \ {r} :
               /\ pc'[q] = pc[q] /\ todo'[q] = todo[q] /\ quota'[q] = quota[q]
               /\ begun'[q] = begun[q]
        BY <1>6 DEF Complete, Steps, TypeOK
    <2>2. P' \subseteq P \ {r}
        <3>1. P' \subseteq Requests /\ r \notin P'
            BY <2>1 DEF Pending, HasRoom
        <3> QED BY <2>1, <3>1, OthersPending
    <2>3. PICK u \in Usage : log' = log \cup {Row(r, 200, u, begun[r])}
        BY <1>6 DEF Complete
    <2> QED BY <2>1, <2>2, <2>3, RoomOnRow
<1>7. ASSUME NEW r \in Requests, Ends(r) PROVE Room(cond, m, t)'
    BY <1>7, RoomOnEnd
<1> QED BY <1>1, <1>2, <1>3, <1>4, <1>5, <1>6, <1>7 DEF Next, Ends

\* A request that goes on had found room: otherwise the cap would have blocked it.
LEMMA RunningStep ==
    ASSUME TypeOK, LoadInv, [Next]_vars, NEW i, NEW cond, Caps(i, cond),
           \A q \in Requests : pc[q] = "running" => quota[q]["requests"].value < Cap(cond),
           NEW q \in Requests, pc'[q] = "running"
    PROVE  quota'[q]["requests"].value < Cap(cond)
<1>1. CASE UNCHANGED vars \/ Tick
    BY <1>1 DEF vars, Tick
<1>2. ASSUME NEW r \in Requests,
             Arrive(r) \/ CollectSpecs(r) \/ Query(r) \/ Complete(r)
      PROVE  quota'[q]["requests"].value < Cap(cond)
    <2>1. pc'[r] # "running" /\ \A o \in Requests \ {r} : pc'[o] = pc[o] /\ quota'[o] = quota[o]
        <3>1. CASE Arrive(r) \/ CollectSpecs(r) \/ Complete(r)
            BY <3>1 DEF Arrive, CollectSpecs, Complete, Steps, TypeOK
        <3>2. CASE Query(r)
            BY <3>2 DEF Query, Steps, TypeOK
        <3> QED BY <1>2, <3>1, <3>2
    <2> QED BY <2>1
<1>3. ASSUME NEW r \in Requests, Admitted(r), ModelFor[ResolvedBy(r)] # None
      PROVE  quota'[q]["requests"].value < Cap(cond)
    <2>1. quota' = quota /\ \A o \in Requests \ {r} : pc'[o] = pc[o]
        BY <1>3 DEF Admitted, Steps, TypeOK
    <2>2. quota[r]["requests"].value < Cap(cond)
        <3>1. SUFFICES ASSUME ~(quota[r]["requests"].value < Cap(cond)) PROVE FALSE
            OBVIOUS
        <3>2. quota[r]["requests"].value \in Nat /\ Cap(cond) \in Nat
            BY CapIsInt DEF LoadInv
        <3>3. Applies(r, i) /\ rules[i].action.type = "block"
            BY <3>1, <3>2, CapBlocks
        <3> QED BY <1>3, <3>3 DEF Admitted, Caps
    <2> QED BY <2>1, <2>2
<1>4. ASSUME NEW r \in Requests, Ends(r) PROVE quota'[q]["requests"].value < Cap(cond)
    <2>1. pc'[r] = "done" /\ \A o \in Requests \ {r} : pc'[o] = pc[o] /\ quota'[o] = quota[o]
        BY <1>4, EndsAnswer, EndOf
    <2> QED BY <2>1
<1> QED BY <1>1, <1>2, <1>3, <1>4 DEF Next, Ends

LEMMA QuotaInit == Init => QuotaInv
<1> SUFFICES ASSUME Init, NEW i \in DOMAIN rules, NEW cond \in QuotaLeaves(rules[i]), Caps(i, cond)
             PROVE  /\ \A r \in Requests : pc[r] = "running" => quota[r]["requests"].value < Cap(cond)
                    /\ \A m \in Models, t \in Nat : Room(cond, m, t)
    BY DEF QuotaInv
<1>1. ASSUME NEW m \in Models, NEW t \in Nat PROVE Room(cond, m, t)
    <2>1. Charged(cond, m, t) = {} /\ Pending(cond, m, t) = {}
        BY DEF Init, Charged, Pending, HasRoom
    <2>2. Cap(cond) \in Nat /\ Cap(cond) > 0 /\ Limit \in Nat
        BY CapIsInt, LoadAssumption DEF Caps
    <2> QED BY <2>1, <2>2, FS_EmptySet DEF Room
<1> QED BY <1>1 DEF Init

LEMMA QuotaStep ==
    TypeOK /\ TypeOK' /\ LoadInv /\ LoadInv' /\ QuotaInv /\ [Next]_vars => QuotaInv'
<1> SUFFICES ASSUME TypeOK, TypeOK', LoadInv, LoadInv', QuotaInv, [Next]_vars PROVE QuotaInv'
    OBVIOUS
<1>1. rules' = rules
    BY RulesFixed
<1>2. \A i, cond : Caps(i, cond)' <=> Caps(i, cond)
    BY <1>1 DEF Caps, Cap
<1>3. ASSUME NEW i \in DOMAIN rules, NEW cond \in QuotaLeaves(rules[i]), Caps(i, cond)
      PROVE  /\ \A r \in Requests : pc'[r] = "running" => quota'[r]["requests"].value < Cap(cond)
             /\ \A m \in Models, t \in Nat : Room(cond, m, t)'
    <2>1. /\ \A q \in Requests : pc[q] = "running" => quota[q]["requests"].value < Cap(cond)
          /\ \A m \in Models, t \in Nat : Room(cond, m, t)
        BY <1>3 DEF QuotaInv
    <2>2. \A q \in Requests : pc'[q] = "running" => quota'[q]["requests"].value < Cap(cond)
        BY <1>3, <2>1, RunningStep
    <2>3. ASSUME NEW m \in Models, NEW t \in Nat PROVE Room(cond, m, t)'
        <3>1. Room(cond, m, t)
            BY <2>1
        <3> QED BY <1>3, <2>1, <3>1, RoomStep
    <2> QED BY <2>2, <2>3
<1>4. \A cond : Cap(cond)' = Cap(cond)
    BY DEF Cap
<1> QED BY <1>1, <1>2, <1>3, <1>4 DEF QuotaInv

LEMMA QuotaInvImplies == LoadInv /\ TypeOK /\ QuotaInv => OvershootBounded
<1> SUFFICES ASSUME LoadInv, TypeOK, QuotaInv, NEW i \in DOMAIN rules,
                    NEW cond \in QuotaLeaves(rules[i]), Caps(i, cond),
                    NEW m \in Models, NEW t \in 0..now
             PROVE  Cardinality(Charged(cond, m, t)) <= Cap(cond) - 1 + Limit
    BY DEF OvershootBounded
<1>1. t \in Nat
    BY TimeAssumption DEF TypeOK
<1>2. Room(cond, m, t)
    BY <1>1 DEF QuotaInv
<1> QED BY <1>1, <1>2, FiniteCounts, CapIsInt DEF Room

\* Whatever the rules, the clock, the number of requests and their interleaving,
\* a cap on the requests of a window is exceeded by no more than the load.
THEOREM QuotaOvershoot == Spec => []OvershootBounded
<1> QED BY TypesInit, TypesStep, LoadInit, LoadStep, QuotaInit, QuotaStep, QuotaInvImplies, PTL
        DEF Spec

-----------------------------------------------------------------------------
(***************************************************************************)
(* Retry-After.  The figures of a measure fit its query: the wait they     *)
(* name is the number of whole seconds until the oldest row is out of the  *)
(* window.                                                                 *)
(***************************************************************************)
Figure(f, at) ==
    /\ f.oldest = None => f.nextFree \in {None, 0}
    /\ f.oldest # None =>
         /\ f.oldest \in Nat /\ f.nextFree \in Nat /\ f.spec.window \in Nat
         /\ at <= f.oldest + f.spec.window * Second
         /\ f.nextFree * Second <= f.oldest + f.spec.window * Second - at
         /\ f.oldest + f.spec.window * Second - at < (f.nextFree + 1) * Second

Figures(q, at) == DOMAIN q = Measures /\ \A m \in Measures : Figure(q[m], at)

\* A blocked request was told the wait of the rule that applied to its figures.
BlockFits(r) ==
    LET v == verdict[r] IN
    v.answer = "blocked" =>
        \E i \in DOMAIN rules : /\ Winner(rules, i, RuleContext(ctx[r], v.quota))
                                /\ v.retry = RetryAfter(rules[i], v.quota)

WaitInv ==
    \A r \in Requests :
        /\ pc[r] \in {"new", "begun"} => quota[r] = NoQuota
        /\ Figures(quota[r], clock[r]) /\ Figures(verdict[r].quota, verdict[r].at)
        /\ BlockFits(r)

\* The whole seconds of a number of ticks.
LEMMA WholeSeconds ==
    ASSUME NEW x \in Nat
    PROVE  /\ x \div Second \in Nat /\ (x \div Second) * Second <= x
           /\ x < (x \div Second + 1) * Second
<1>1. Second \in Nat \ {0}
    BY TimeAssumption
<1> QED BY <1>1, SMTT(60)

\* A non-empty set of times has a least one: of the sets 0..t of the times t in it,
\* one holds no other.
LEMMA LeastTime ==
    ASSUME NEW T \in SUBSET Nat, T # {}
    PROVE  Min(T) \in T /\ \A t \in T : Min(T) <= t
<1> DEFINE Below == {0..t : t \in T}
           R == StrictSubsetOrdering(Nat)
<1>1. Below \subseteq FiniteSubsetsOf(Nat) /\ Below # {}
    <2> SUFFICES ASSUME NEW t \in T PROVE 0..t \in FiniteSubsetsOf(Nat)
        OBVIOUS
    <2>1. IsFiniteSet(0..t)
        BY FS_Interval
    <2>2. 0..t \in SUBSET Nat
        OBVIOUS
    <2> QED BY <2>1, <2>2, Zenon DEF FiniteSubsetsOf
<1>2. PICK X \in Below : \A Y \in Below : <<Y, X>> \notin R
    <2>1. IsWellFoundedOn(R, FiniteSubsetsOf(Nat))
        BY FS_StrictSubsetOrderingWellFounded
    <2> HIDE DEF Below, R
    <2> QED BY <1>1, <2>1, WFMin
<1>3. PICK x \in T : X = 0..x
    OBVIOUS
<1>4. \A t \in T : x <= t
    <2> SUFFICES ASSUME NEW t \in T, t < x PROVE FALSE
        OBVIOUS
    <2>1. x \in 0..x /\ x \notin 0..t /\ 0..t \subseteq 0..x
        OBVIOUS
    <2>2. <<0..t, X>> \in R
        BY <2>1, <1>3 DEF StrictSubsetOrdering
    <2> QED BY <2>2, <1>2
<1> QED BY <1>4 DEF Min

\* The figures of a query fit it.
LEMMA BucketFits ==
    ASSUME TypeOK, NEW s, s.window \in Nat, NEW at \in Nat
    PROVE  Figure(Bucket(s, at), at)
<1> DEFINE rows == Contributing(s, at)
           span == s.window * Second
<1>1. Second \in Nat \ {0} /\ span \in Nat
    BY TimeAssumption
<1>2. CASE rows = {}
    BY <1>2 DEF Figure, Bucket, NextFree
<1>3. CASE rows # {}
    <2>1. \A row \in rows : row.at \in Nat /\ row.at >= at - span
        BY DEF Contributing, TypeOK, Rows
    <2>2. Oldest(rows) \in {row.at : row \in rows}
        <3>1. {row.at : row \in rows} \in SUBSET Nat /\ {row.at : row \in rows} # {}
            BY <1>3, <2>1
        <3> QED BY <3>1, LeastTime DEF Oldest
    <2> DEFINE o == Oldest(rows)
               ticks == o + span - at
    <2>3. o \in Nat /\ ticks \in Nat /\ at <= o + span
        BY <1>1, <2>1, <2>2
    <2>4. Bucket(s, at).oldest = o /\ Bucket(s, at).spec = s
          /\ Bucket(s, at).nextFree = NextFree(s, rows, at)
        BY <1>3 DEF Bucket
    <2>5. NextFree(s, rows, at) = ticks \div Second
        <3>1. ~(ticks < 0)
            BY <2>3
        <3> QED BY <1>3, <3>1 DEF NextFree
    <2>6. o # None
        BY <2>3, NameAssumption
    <2> HIDE DEF o, ticks
    <2>7. /\ ticks \div Second \in Nat /\ (ticks \div Second) * Second <= ticks
          /\ ticks < (ticks \div Second + 1) * Second
        BY <2>3, WholeSeconds
    <2> QED BY <2>3, <2>4, <2>5, <2>6, <2>7 DEF Figure, ticks
<1> QED BY <1>2, <1>3

\* What a query asks for has a measure and a window, those of a condition.
LEMMA SpecsFit ==
    ASSUME TypeOK, NEW r \in Requests, NEW s \in Specs(ctx[r])
    PROVE  s.measure \in Measures /\ s.window \in Nat
<1>1. \E i \in DOMAIN rules : \E cond \in QuotaLeaves(rules[i]) : s = SpecOf(cond, ctx[r])
    BY DEF Specs
<1>2. \A i \in DOMAIN rules : \A cond \in QuotaLeaves(rules[i]) :
         cond.field \in Measures /\ cond.window \in Nat
    BY RuleAssumption DEF TypeOK
<1> QED BY <1>1, <1>2 DEF SpecOf

LEMMA NoFigures == Figures(NoQuota, 0) /\ \A at : Figures(NoQuota, at)
BY DEF Figures, Figure, NoQuota, NoBucket

LEMMA WaitInit == Init => WaitInv
BY NoFigures DEF Init, WaitInv, BlockFits, Unanswered

\* A request that is left alone keeps what holds of it.
LEMMA WaitKept ==
    ASSUME WaitInv, rules' = rules, ctx' = ctx, NEW q \in Requests,
           verdict'[q] = verdict[q], quota'[q] = quota[q], clock'[q] = clock[q],
           pc'[q] \in {"new", "begun"} => pc[q] \in {"new", "begun"}
    PROVE  /\ pc'[q] \in {"new", "begun"} => quota'[q] = NoQuota
           /\ Figures(quota'[q], clock'[q]) /\ Figures(verdict'[q].quota, verdict'[q].at)
           /\ BlockFits(q)'
BY DEF WaitInv, BlockFits

\* One that ends has no figures left but those it was blocked with.
LEMMA WaitOnEnd ==
    ASSUME TypeOK, WaitInv, NEW r \in Requests, Ends(r)
    PROVE  WaitInv'
<1>1. PICK a, w : a \in Answers /\ Answered(r, a, w)
    BY EndsAnswer
<1>2. rules' = rules /\ ctx' = ctx
    BY EndsAnswer
<1>3. /\ pc'[r] = "done" /\ quota'[r] = NoQuota
      /\ \A q \in Requests \ {r} :
            pc'[q] = pc[q] /\ quota'[q] = quota[q] /\ clock'[q] = clock[q]
    BY <1>1, EndOf
<1>4. \A q \in Requests \ {r} : verdict'[q] = verdict[q]
    BY <1>1, AnswerOf
<1>5. /\ pc'[r] \in {"new", "begun"} => quota'[r] = NoQuota
      /\ Figures(quota'[r], clock'[r]) /\ Figures(verdict'[r].quota, verdict'[r].at)
      /\ BlockFits(r)'
    <2>1. Figures(quota'[r], clock'[r])
        BY <1>3, NoFigures
    <2>2. CASE Blocked(r)
        <3>1. PICK i \in DOMAIN rules :
                 Applies(r, i) /\ Answered(r, "blocked", RetryAfter(rules[i], quota[r]))
            BY <2>2 DEF Blocked
        <3>2. verdict'[r] = [answer |-> "blocked", retry |-> RetryAfter(rules[i], quota[r]),
                             at |-> clock[r], quota |-> quota[r]]
            BY <3>1 DEF Answered, TypeOK
        <3>3. Figures(verdict'[r].quota, verdict'[r].at)
            BY <3>2 DEF WaitInv
        <3>4. BlockFits(r)'
            BY <1>2, <3>1, <3>2 DEF BlockFits, Applies
        <3> QED BY <1>3, <2>1, <3>3, <3>4
    <2>3. CASE ~Blocked(r)
        <3>1. \E b \in Answers \ {"blocked"} : \E x : Answered(r, b, x)
            BY <2>3 DEF Ends, Admitted, Respond, RespondFails, Fail, StreamEnds, Die, Answers
        <3>2. PICK b \in Answers \ {"blocked"} : verdict'[r] = [Unanswered EXCEPT !.answer = b]
            BY <3>1 DEF Answered, TypeOK
        <3>3. verdict'[r].quota = NoQuota /\ verdict'[r].answer # "blocked"
            BY <3>2 DEF Unanswered
        <3> QED BY <1>3, <2>1, <3>3, NoFigures DEF BlockFits
    <2> QED BY <2>2, <2>3
<1> SUFFICES ASSUME NEW q \in Requests
             PROVE  /\ pc'[q] \in {"new", "begun"} => quota'[q] = NoQuota
                    /\ Figures(quota'[q], clock'[q]) /\ Figures(verdict'[q].quota, verdict'[q].at)
                    /\ BlockFits(q)'
    BY DEF WaitInv, Figures, Figure
<1>6. CASE q # r
    BY <1>2, <1>3, <1>4, <1>6, WaitKept
<1> QED BY <1>5, <1>6

LEMMA WaitStep == TypeOK /\ WaitInv /\ [Next]_vars => WaitInv'
<1> SUFFICES ASSUME TypeOK, WaitInv, [Next]_vars PROVE WaitInv'
    OBVIOUS
<1>0. rules' = rules /\ ctx' = ctx
    BY RulesFixed
<1> DEFINE Fits(q) ==
      /\ pc'[q] \in {"new", "begun"} => quota'[q] = NoQuota
      /\ Figures(quota'[q], clock'[q]) /\ Figures(verdict'[q].quota, verdict'[q].at)
      /\ BlockFits(q)'
<1>1. ASSUME \A q \in Requests : Fits(q) PROVE WaitInv'
    BY <1>1 DEF WaitInv, Figures, Figure
<1>2. ASSUME NEW q \in Requests, verdict'[q] = verdict[q], quota'[q] = quota[q],
             clock'[q] = clock[q], pc'[q] \in {"new", "begun"} => pc[q] \in {"new", "begun"}
      PROVE  Fits(q)
    BY <1>0, <1>2, WaitKept
<1> HIDE DEF Fits
<1>3. CASE UNCHANGED vars \/ Tick
    <2>1. UNCHANGED <<pc, verdict, quota, clock>>
        BY <1>3 DEF vars, Tick
    <2> QED BY <1>1, <1>2, <2>1
<1>4. ASSUME NEW r \in Requests,
             \/ Arrive(r) \/ Complete(r)
             \/ Admitted(r) /\ ModelFor[ResolvedBy(r)] # None
      PROVE  WaitInv'
    <2>1. UNCHANGED <<verdict, quota, clock>>
        BY <1>4 DEF Arrive, Complete, Admitted
    <2>2. \A q \in Requests : pc'[q] \in {"new", "begun"} => pc[q] \in {"new", "begun"}
        BY <1>4 DEF Arrive, Complete, Admitted, Steps, TypeOK
    <2> QED BY <1>1, <1>2, <2>1, <2>2
<1>5. ASSUME NEW r \in Requests, CollectSpecs(r) PROVE WaitInv'
    <2>1. UNCHANGED <<verdict, quota>> /\ quota[r] = NoQuota
        BY <1>5 DEF CollectSpecs, WaitInv
    <2>2. /\ pc'[r] \notin {"new", "begun"}
          /\ \A q \in Requests \ {r} : pc'[q] = pc[q] /\ clock'[q] = clock[q]
        BY <1>5 DEF CollectSpecs, Steps, TypeOK
    <2>3. Fits(r)
        BY <1>0, <2>1, <2>2, NoFigures DEF Fits, WaitInv, BlockFits
    <2>4. \A q \in Requests \ {r} : Fits(q)
        BY <1>2, <2>1, <2>2
    <2> QED BY <1>1, <2>3, <2>4
<1>6. ASSUME NEW r \in Requests, Query(r) PROVE WaitInv'
    <2>1. PICK s \in todo[r] : quota' = [quota EXCEPT ![r][s.measure] = Bucket(s, clock[r])]
        BY <1>6 DEF Query
    <2>2. UNCHANGED <<verdict, clock>>
        BY <1>6 DEF Query
    <2>3. /\ pc'[r] \notin {"new", "begun"}
          /\ \A q \in Requests \ {r} : pc'[q] = pc[q] /\ quota'[q] = quota[q]
        BY <1>6, <2>1 DEF Query, Steps, TypeOK
    <2>4. s.measure \in Measures /\ s.window \in Nat /\ clock[r] \in Nat
        BY <2>1, SpecsFit DEF TypeOK
    <2>5. Figure(Bucket(s, clock[r]), clock[r])
        BY <2>4, BucketFits
    <2>6. Figures(quota'[r], clock'[r])
        <3>1. DOMAIN quota = Requests /\ Figures(quota[r], clock[r])
            BY DEF WaitInv, TypeOK
        <3>2. /\ DOMAIN quota'[r] = Measures /\ quota'[r][s.measure] = Bucket(s, clock[r])
              /\ \A m \in Measures \ {s.measure} : quota'[r][m] = quota[r][m]
            BY <2>1, <2>4, <3>1 DEF Figures
        <3> HIDE DEF Figure
        <3> QED BY <2>2, <2>5, <3>1, <3>2 DEF Figures
    <2>7. Fits(r)
        BY <1>0, <2>2, <2>3, <2>6 DEF Fits, WaitInv, BlockFits
    <2>8. \A q \in Requests \ {r} : Fits(q)
        BY <1>2, <2>2, <2>3
    <2> QED BY <1>1, <2>7, <2>8
<1>7. ASSUME NEW r \in Requests, Ends(r) PROVE WaitInv'
    BY <1>7, WaitOnEnd
<1> QED BY <1>3, <1>4, <1>5, <1>6, <1>7 DEF Next, Ends

\* RetryAfter is the longest wait, and one of them if it is more than none.
LEMMA LongestWait ==
    ASSUME NEW rule, NEW q, NEW at, Figures(q, at),
           \A cond \in QuotaLeaves(rule) : cond.field \in Measures
    PROVE  /\ RetryAfter(rule, q) \in Nat
           /\ \A cond \in QuotaLeaves(rule) :
                 q[cond.field].oldest # None => q[cond.field].nextFree <= RetryAfter(rule, q)
           /\ RetryAfter(rule, q) > 0 =>
                 \E cond \in QuotaLeaves(rule) :
                    /\ q[cond.field].oldest # None
                    /\ q[cond.field].nextFree = RetryAfter(rule, q)
<1> DEFINE W == Waits(rule, q)
<1>1. \A cond \in QuotaLeaves(rule) :
         /\ q[cond.field].oldest = None => q[cond.field].nextFree \in {None, 0}
         /\ q[cond.field].oldest # None => q[cond.field].nextFree \in Nat
    BY DEF Figures, Figure
<1>2. \A w \in W : w \in Nat
    BY <1>1 DEF Waits
<1>3. \A cond \in QuotaLeaves(rule) : q[cond.field].oldest # None => q[cond.field].nextFree \in W
    BY <1>1, NameAssumption DEF Waits
<1>4. \A w \in W : \E cond \in QuotaLeaves(rule) : w = q[cond.field].nextFree
    BY DEF Waits
<1>5. CASE W = {}
    BY <1>3, <1>5 DEF RetryAfter
<1>6. CASE W # {}
    <2>1. PICK w \in W : \A v \in W : w >= v
        <3>1. \A v \in W : \/ v = q["requests"].nextFree \/ v = q["tokens"].nextFree
                           \/ v = q["cost"].nextFree
            BY <1>4 DEF Measures
        <3> HIDE DEF W
        <3> QED BY <1>2, <1>6, <3>1
    <2>2. RetryAfter(rule, q) \in W /\ \A v \in W : RetryAfter(rule, q) >= v
        BY <1>6, <2>1 DEF RetryAfter
    <2> HIDE DEF W
    <2>3. RetryAfter(rule, q) \in Nat
        BY <1>2, <2>2
    <2>4. \A cond \in QuotaLeaves(rule) :
             q[cond.field].oldest # None => q[cond.field].nextFree <= RetryAfter(rule, q)
        BY <1>2, <1>3, <2>2, <2>3
    <2>5. PICK cond \in QuotaLeaves(rule) : RetryAfter(rule, q) = q[cond.field].nextFree
        BY <1>4, <2>2
    <2>6. ASSUME RetryAfter(rule, q) > 0 PROVE q[cond.field].oldest # None
        BY <1>1, <2>3, <2>5, <2>6, NameAssumption
    <2> QED BY <2>3, <2>4, <2>5, <2>6
<1> QED BY <1>5, <1>6

\* At most one rule applies.
LEMMA OneWinner ==
    ASSUME rules \in RuleSets, NEW c, NEW i \in DOMAIN rules, NEW j \in DOMAIN rules,
           Winner(rules, i, c), Winner(rules, j, c)
    PROVE  i = j
<1>1. /\ i \in Nat /\ j \in Nat /\ rules[i].weight \in Int /\ rules[j].weight \in Int
    BY RuleAssumption
<1>2. i # j => Precedes(rules, i, j) /\ Precedes(rules, j, i)
    BY DEF Winner
<1> QED BY <1>1, <1>2 DEF Precedes

LEMMA WaitInvImplies == TypeOK /\ WaitInv => RetryFits
<1> SUFFICES ASSUME TypeOK, WaitInv, NEW r \in Requests, NEW i \in DOMAIN rules,
                    verdict[r].answer = "blocked",
                    Winner(rules, i, RuleContext(ctx[r], verdict[r].quota))
             PROVE  LET v == verdict[r]
                        used == {cond \in QuotaLeaves(rules[i]) : v.quota[cond.field].oldest # None}
                    IN  /\ \A cond \in used, q \in Requests :
                             LET mine == v.quota[cond.field]
                                 theirs == quota[q][cond.field]
                                 later == clock[q] >= v.at + (v.retry + 1) * Second
                             IN  theirs.spec = mine.spec /\ theirs.oldest # None /\ later =>
                                     theirs.oldest > mine.oldest
                        /\ v.retry > 0 =>
                             \E cond \in used :
                                 LET mine == v.quota[cond.field]
                                 IN  mine.oldest >= v.at + (v.retry - mine.spec.window) * Second
    BY DEF RetryFits
<1> DEFINE v == verdict[r]
           leaves == QuotaLeaves(rules[i])
<1>1. \A cond \in leaves : cond.field \in Measures
    BY RuleAssumption DEF TypeOK
<1>2. Figures(v.quota, v.at) /\ v.at \in Nat /\ Second \in Nat \ {0}
    BY TimeAssumption DEF WaitInv, TypeOK
<1>3. v.retry = RetryAfter(rules[i], v.quota)
    BY OneWinner DEF WaitInv, BlockFits, TypeOK
<1>4. /\ v.retry \in Nat
      /\ \A cond \in leaves :
            v.quota[cond.field].oldest # None => v.quota[cond.field].nextFree <= v.retry
      /\ v.retry > 0 => \E cond \in leaves : /\ v.quota[cond.field].oldest # None
                                             /\ v.quota[cond.field].nextFree = v.retry
    BY <1>1, <1>2, <1>3, LongestWait
<1> HIDE DEF v, leaves
<1>5. ASSUME NEW cond \in leaves, v.quota[cond.field].oldest # None
      PROVE  LET f == v.quota[cond.field] IN
             /\ f.oldest \in Nat /\ f.nextFree \in Nat /\ f.spec.window \in Nat
             /\ f.nextFree * Second <= f.oldest + f.spec.window * Second - v.at
             /\ f.oldest + f.spec.window * Second - v.at < (f.nextFree + 1) * Second
    BY <1>1, <1>2, <1>5 DEF Figures, Figure
<1>6. ASSUME NEW cond \in leaves, NEW q \in Requests, v.quota[cond.field].oldest # None,
             quota[q][cond.field].spec = v.quota[cond.field].spec,
             quota[q][cond.field].oldest # None, clock[q] >= v.at + (v.retry + 1) * Second
      PROVE  quota[q][cond.field].oldest > v.quota[cond.field].oldest
    <2> DEFINE mine == v.quota[cond.field]
               theirs == quota[q][cond.field]
    <2>1. Figure(theirs, clock[q])
        BY <1>1 DEF WaitInv, Figures
    <2>2. /\ theirs.oldest \in Nat /\ theirs.spec.window \in Nat
          /\ clock[q] <= theirs.oldest + theirs.spec.window * Second
        BY <1>6, <2>1 DEF Figure
    <2>3. /\ mine.oldest \in Nat /\ mine.nextFree \in Nat /\ mine.spec.window \in Nat
          /\ mine.oldest + mine.spec.window * Second - v.at < (mine.nextFree + 1) * Second
        BY <1>5, <1>6
    <2>4. mine.nextFree <= v.retry /\ theirs.spec.window = mine.spec.window /\ clock[q] \in Nat
        BY <1>4, <1>6 DEF TypeOK
    <2> DEFINE W == mine.spec.window * Second
               A == (mine.nextFree + 1) * Second
               B == (v.retry + 1) * Second
    <2>5. A \in Nat /\ B \in Nat /\ W \in Nat /\ A <= B
        BY <1>2, <1>4, <2>3, <2>4
    <2> HIDE DEF mine, theirs
    <2>6. /\ clock[q] <= theirs.oldest + W /\ mine.oldest + W - v.at < A
          /\ clock[q] >= v.at + B
        BY <1>6, <2>2, <2>3, <2>4
    <2> HIDE DEF W, A, B
    <2>7. theirs.oldest > mine.oldest
        BY <1>2, <2>2, <2>3, <2>4, <2>5, <2>6
    <2> QED BY <2>7 DEF mine, theirs
<1>7. ASSUME v.retry > 0
      PROVE  \E cond \in leaves :
                /\ v.quota[cond.field].oldest # None
                /\ v.quota[cond.field].oldest
                      >= v.at + (v.retry - v.quota[cond.field].spec.window) * Second
    <2>1. PICK cond \in leaves : /\ v.quota[cond.field].oldest # None
                                 /\ v.quota[cond.field].nextFree = v.retry
        BY <1>4, <1>7
    <2> DEFINE f == v.quota[cond.field]
    <2>2. /\ f.oldest \in Nat /\ f.spec.window \in Nat
          /\ v.retry * Second <= f.oldest + f.spec.window * Second - v.at
        BY <1>5, <2>1
    <2>3. (v.retry - f.spec.window) * Second = v.retry * Second - f.spec.window * Second
        BY <1>2, <1>4, <2>2
    <2>4. v.retry * Second \in Nat /\ f.spec.window * Second \in Nat
        BY <1>2, <1>4, <2>2
    <2> QED BY <1>2, <2>1, <2>2, <2>3, <2>4
<1> QED BY <1>6, <1>7 DEF v, leaves

\* Retry-After is the wait the windows ask for: waiting that long frees what the request
\* was blocked with, and waiting less does not.
THEOREM RetryAfterFits == Spec => []RetryFits
<1>1. Init => TypeOK /\ WaitInv
    BY TypesInit, WaitInit
<1>2. TypeOK /\ WaitInv /\ [Next]_vars => (TypeOK /\ WaitInv)'
    BY TypesStep, WaitStep
<1> QED BY <1>1, <1>2, WaitInvImplies, PTL DEF Spec
=============================================================================
