----------------------------- MODULE Admission -----------------------------
(***************************************************************************)
(* The requests of one user on POST /messages (api/messages.py), from      *)
(* authentication to audit row, under the quota conditions of the rules    *)
(* engine (services/rules_service.py, services/usage_service.py): a        *)
(* request reads the usage of the moving windows, is decided, and is       *)
(* recorded only when it has ended, while other requests do the same.      *)
(*                                                                         *)
(* now is the clock of the database and of the workers, in ticks: Second   *)
(* of them make a second.  audit_logs.created_at defaults to now() of      *)
(* PostgreSQL, which is the time the transaction began: for a request that *)
(* is not streamed, the transaction begun with its authentication.  Each   *)
(* query sees what is committed by then.                                   *)
(*                                                                         *)
(* Limit is the number of requests a user has in flight at most, what the  *)
(* connections to the database and the server let through: the code sets   *)
(* no limit of its own.  MaxDelay is the longest time from the first query *)
(* to the clock reading of the quota figures.  Requests are used once;     *)
(* MaxTime bounds the clock.                                               *)
(***************************************************************************)
EXTENDS RulesEngine, FiniteSetsExt

CONSTANTS
    Requests,   \* the requests of the user
    RuleSets,   \* the lists of active rules explored
    Contexts,   \* what requests look like to the rules, without the quota
    Models,     \* the models the user has access to
    ModelFor,   \* the model a requested name stands for, or None
    Usage,      \* the tokens (or the cost) a request may turn out to use
    Second, Limit, MaxDelay, MaxTime

ASSUME TimeAssumption ==
    /\ Second \in Nat \ {0} /\ MaxDelay \in Nat /\ MaxTime \in Nat
ASSUME LoadAssumption ==
    /\ IsFiniteSet(Requests) /\ Limit \in Nat
    /\ Usage \subseteq Nat
ASSUME NameAssumption ==
    /\ None \notin Models /\ None \notin Int
    /\ \A c \in Contexts : ModelFor[c.parameter["model"]] \in Models \cup {None}
    /\ \A rs \in RuleSets : \A i \in DOMAIN rs :
          rs[i].action.type = "reroute" => ModelFor[rs[i].action.target] \in Models \cup {None}

\* ConditionSchema lets no quota condition through without a measure and a window.
ASSUME RuleAssumption ==
    \A rs \in RuleSets :
        /\ DOMAIN rs \subseteq Nat
        /\ \A i \in DOMAIN rs : rs[i].weight \in Int
        /\ \A i \in DOMAIN rs : \A cond \in QuotaLeaves(rs[i]) :
              cond.field \in Measures /\ cond.window \in Nat \ {0}

VARIABLES
    now,
    rules,      \* the active rules, by descending weight
    log,        \* the rows of audit_logs
    pc,         \* where each request is suspended
    ctx,        \* its RequestContext
    begun,      \* when its transaction began
    clock,      \* populate_quota_metadata's now
    todo,       \* the quota specs it has not asked for yet
    quota,      \* ctx.metadata["quota"]
    model,      \* the model it runs on
    verdict     \* what it was answered; of a block, the Retry-After and its reason

vars == <<now, rules, log, pc, ctx, begun, clock, todo, quota, model, verdict>>

Labels == {"new", "begun", "asking", "figured", "running", "logged", "done"}
InFlight == {r \in Requests : pc[r] \notin {"new", "done"}}

Answers == {"none", "blocked", "forbidden", "ok", "streamed", "error"}

Row(r, status, used, at) ==
    [req |-> r, model |-> model[r], status |-> status, used |-> used, at |-> at]

\* _BILLABLE_STATUS_CODES
Billable(row) == row.status \in {200, 499}

NoQuota == [m \in Measures |-> NoBucket]
Unanswered == [answer |-> "none", retry |-> 0, at |-> 0, quota |-> NoQuota]

Init ==
    /\ now = 0
    /\ rules \in RuleSets
    /\ log = {}
    /\ pc = [r \in Requests |-> "new"]
    /\ ctx \in [Requests -> Contexts]
    /\ begun = [r \in Requests |-> 0]
    /\ clock = [r \in Requests |-> 0]
    /\ todo = [r \in Requests |-> {}]
    /\ quota = [r \in Requests |-> NoQuota]
    /\ model = [r \in Requests |-> None]
    /\ verdict = [r \in Requests |-> Unanswered]

-----------------------------------------------------------------------------
\* The key of a quota condition in specs: per is resolved with the model name
\* of the request.
SpecOf(cond, c) ==
    [measure |-> cond.field, window |-> cond.window,
     model |-> IF "model" \in cond.per THEN c.parameter["model"] ELSE None]

Specs(c) == {SpecOf(cond, c) : cond \in UNION {QuotaLeaves(rules[i]) : i \in DOMAIN rules}}

\* Where a spec is first met in the rules, as <<rule, member, member's member>>.
Places(s, c) ==
    UNION {{<<i, at[1], at[2]>> : at \in
                {at \in Leaves(rules[i].conditions) :
                    /\ LeafAt(rules[i].conditions, at).type = "quota"
                    /\ SpecOf(LeafAt(rules[i].conditions, at), c) = s}} : i \in DOMAIN rules}

Sooner(p, q) ==
    \/ p[1] < q[1]
    \/ p[1] = q[1] /\ p[2] < q[2]
    \/ p[1] = q[1] /\ p[2] = q[2] /\ p[3] < q[3]

\* The order in which the dictionary of specs is gone through.
MetBefore(s, t, c) == \E p \in Places(s, c) : \A q \in Places(t, c) : Sooner(p, q)

\* A slip of Contributing: streams the client has left do not count.
OnlySuccess(s, at) ==
    {row \in log : /\ row.status = 200
                   /\ row.at >= at - s.window * Second
                   /\ s.model # None => row.model = s.model}

\* get_window_aggregate: the rows a spec is about, asked with the clock at.
Contributing(s, at) ==
    {row \in log : /\ Billable(row)
                   /\ row.at >= at - s.window * Second
                   /\ s.model # None => row.model = s.model}

Value(s, rows) ==
    IF s.measure = "requests" THEN Cardinality(rows)
                              ELSE MapThenSumSet(LAMBDA row : row.used, rows)

Oldest(rows) == Min({row.at : row \in rows})

\* _next_free, in whole seconds.
NextFree(s, rows, at) ==
    IF rows = {} THEN 0
    ELSE LET ticks == Oldest(rows) + s.window * Second - at
         IN  IF ticks < 0 THEN 0 ELSE ticks \div Second

Bucket(s, at) ==
    LET rows == Contributing(s, at) IN
    [value |-> Value(s, rows), nextFree |-> NextFree(s, rows, at), spec |-> s,
     oldest |-> IF rows = {} THEN None ELSE Oldest(rows)]

-----------------------------------------------------------------------------
Steps(r, l) == pc' = [pc EXCEPT ![r] = l]

\* The handler has returned and its locals are gone; what a blocked request was
\* blocked with is remembered in its verdict.
Answered(r, answer, retry) ==
    /\ Steps(r, "done")
    /\ verdict' = [verdict EXCEPT ![r] =
           IF answer = "blocked"
           THEN [answer |-> answer, retry |-> retry, at |-> clock[r], quota |-> quota[r]]
           ELSE [Unanswered EXCEPT !.answer = answer]]
    /\ begun' = [begun EXCEPT ![r] = 0]
    /\ clock' = [clock EXCEPT ![r] = 0]
    /\ todo' = [todo EXCEPT ![r] = {}]
    /\ quota' = [quota EXCEPT ![r] = NoQuota]
    /\ model' = [model EXCEPT ![r] = None]

\* The request is authenticated: the transaction that lasts until its row is
\* committed begins.
Arrive(r) ==
    /\ pc[r] = "new" /\ Cardinality(InFlight) < Limit
    /\ Steps(r, "begun")
    /\ begun' = [begun EXCEPT ![r] = now]
    /\ UNCHANGED <<now, rules, log, ctx, clock, todo, quota, model, verdict>>

\* The active rules are at hand: populate_quota_metadata collects the specs and
\* reads the clock (without specs it does not, and nothing uses the reading).
CollectSpecs(r) ==
    /\ pc[r] = "begun"
    /\ Steps(r, IF Specs(ctx[r]) = {} THEN "figured" ELSE "asking")
    /\ clock' = [clock EXCEPT ![r] = now]
    /\ todo' = [todo EXCEPT ![r] = Specs(ctx[r])]
    /\ UNCHANGED <<now, rules, log, ctx, begun, quota, model, verdict>>

\* One aggregate query; its figures replace those of the same measure.
Query(r) ==
    /\ pc[r] = "asking"
    /\ \E s \in todo[r] :
         /\ \A t \in todo[r] \ {s} : MetBefore(s, t, ctx[r])
         /\ quota' = [quota EXCEPT ![r][s.measure] = Bucket(s, clock[r])]
         /\ todo' = [todo EXCEPT ![r] = @ \ {s}]
         /\ Steps(r, IF todo[r] = {s} THEN "figured" ELSE "asking")
    /\ UNCHANGED <<now, rules, log, ctx, begun, clock, model, verdict>>

\* What the rules are evaluated on.
RuleContext(c, figures) ==
    [header |-> c.header, parameter |-> c.parameter, content |-> c.content,
     function |-> c.function, quota |-> figures]

Applies(r, i) == Winner(rules, i, RuleContext(ctx[r], quota[r]))

\* evaluate_rules: the rule that applies blocks the request.
Blocked(r) ==
    /\ pc[r] = "figured"
    /\ \E i \in DOMAIN rules :
         /\ Applies(r, i) /\ rules[i].action.type = "block"
         /\ Answered(r, "blocked", RetryAfter(rules[i], quota[r]))
    /\ UNCHANGED <<now, rules, log, ctx>>

\* The name a request that is not blocked goes on with: that of the reroute, or
\* its own.  A rewrite changes texts that nobody looks at any more.
ResolvedBy(r) ==
    IF \E i \in DOMAIN rules : Applies(r, i) /\ rules[i].action.type = "reroute"
    THEN rules[CHOOSE i \in DOMAIN rules :
                   Applies(r, i) /\ rules[i].action.type = "reroute"].action.target
    ELSE ctx[r].parameter["model"]

\* No rule applies, or one that lets the request pass, and get_model_for_user
\* finds the exact name or the first pattern that matches it, or nothing.
Admitted(r) ==
    /\ pc[r] = "figured"
    /\ \A i \in DOMAIN rules : Applies(r, i) => rules[i].action.type # "block"
    /\ \/ /\ ModelFor[ResolvedBy(r)] = None
          /\ Answered(r, "forbidden", 0)
       \/ /\ ModelFor[ResolvedBy(r)] # None
          /\ Steps(r, "running")
          /\ model' = [model EXCEPT ![r] = ModelFor[ResolvedBy(r)]]
          /\ UNCHANGED <<begun, clock, todo, quota, verdict>>
    /\ UNCHANGED <<now, rules, log, ctx>>

-----------------------------------------------------------------------------
\* The provider has answered and _finalize has committed the row, stamped with
\* the beginning of the transaction.
Complete(r) ==
    /\ pc[r] = "running" /\ ~ctx[r].parameter["stream"]
    /\ \E u \in Usage : log' = log \cup {Row(r, 200, u, begun[r])}
    /\ Steps(r, "logged")
    /\ UNCHANGED <<now, rules, ctx, begun, clock, todo, quota, model, verdict>>

\* The row is reloaded and the response built.
Respond(r) ==
    /\ pc[r] = "logged"
    /\ Answered(r, "ok", 0)
    /\ UNCHANGED <<now, rules, log, ctx>>

\* A slip of RespondFails: the status of the second row is left at its default.
DefaultStatus(r) ==
    /\ pc[r] = "logged"
    /\ log' = log \cup {Row(r, 200, 0, now)}
    /\ Answered(r, "error", 0)
    /\ UNCHANGED <<now, rules, ctx>>

\* Something fails after the commit: the except branch writes a second row, in
\* a transaction of its own.
RespondFails(r) ==
    /\ pc[r] = "logged"
    /\ log' = log \cup {Row(r, 500, 0, now)}
    /\ Answered(r, "error", 0)
    /\ UNCHANGED <<now, rules, ctx>>

\* The translation, the provider or the commit of the row fails, and _log_error
\* writes the row of an error.
Fail(r) ==
    /\ pc[r] = "running"
    /\ log' = log \cup {Row(r, 500, 0, begun[r])}
    /\ Answered(r, "error", 0)
    /\ UNCHANGED <<now, rules, ctx>>

\* A streamed response has ended with a row (see StreamContract), written in the
\* transaction of the request or, where the session was closed before the stream
\* began, in one begun by the insert.
StreamEnds(r) ==
    /\ pc[r] = "running" /\ ctx[r].parameter["stream"]
    /\ \/ \E u \in Usage, s \in {200, 499}, at \in {begun[r], now} :
             log' = log \cup {Row(r, s, u, at)}
       \/ log' = log \cup {Row(r, 500, 0, now)}
    /\ Answered(r, "streamed", 0)
    /\ UNCHANGED <<now, rules, ctx>>

\* The worker is stopped, the stream's producer cancelled, the connection to the
\* database lost, or a secret of the model cannot be resolved: the request ends
\* without a row, or without another one.
Die(r) ==
    /\ r \in InFlight
    /\ Answered(r, "error", 0)
    /\ UNCHANGED <<now, rules, log, ctx>>

Tick ==
    /\ now < MaxTime
    /\ \A r \in Requests : pc[r] = "begun" => now < begun[r] + MaxDelay
    /\ now' = now + 1
    /\ UNCHANGED <<rules, log, pc, ctx, begun, clock, todo, quota, model, verdict>>

Next ==
    \/ Tick
    \/ \E r \in Requests :
         \/ Arrive(r) \/ CollectSpecs(r) \/ Query(r) \/ Blocked(r) \/ Admitted(r)
         \/ Complete(r) \/ Respond(r) \/ RespondFails(r) \/ Fail(r) \/ StreamEnds(r)
         \/ Die(r)

Spec == Init /\ [][Next]_vars

-----------------------------------------------------------------------------
Rows == [req : Requests, model : Models, status : {200, 499, 500}, used : Nat,
         at : 0..now]

\* Types, and what the stations of a request say of its variables: what is left
\* to ask is about the request, nothing is left where the figures are complete,
\* and a running request has a model the user may use.
TypeOK ==
    /\ now \in 0..MaxTime
    /\ rules \in RuleSets
    /\ log \subseteq Rows
    /\ pc \in [Requests -> Labels]
    /\ ctx \in [Requests -> Contexts]
    /\ begun \in [Requests -> 0..now]
    /\ clock \in [Requests -> 0..now]
    /\ DOMAIN todo = Requests /\ DOMAIN quota = Requests /\ DOMAIN model = Requests
    /\ \A r \in Requests :
         /\ todo[r] \subseteq Specs(ctx[r])
         /\ pc[r] \in {"figured", "running", "logged"} => todo[r] = {}
         /\ DOMAIN quota[r] = Measures
         /\ pc[r] \in {"running", "logged"} => model[r] \in Models
    /\ DOMAIN verdict = Requests
    /\ \A r \in Requests : verdict[r].answer \in Answers /\ verdict[r].at \in 0..now

\* A rule that caps how many requests a user makes in a window: it blocks, it
\* is about nothing else, it precedes the other rules, and no other rule counts
\* requests differently.
Cap(cond) == IF cond.op = "gte" THEN cond.value ELSE cond.value + 1

Caps(i, cond) ==
    /\ i \in DOMAIN rules /\ rules[i].enabled /\ rules[i].action.type = "block"
    /\ rules[i].conditions.conditions = <<cond>>
    /\ cond.type = "quota" /\ cond.field = "requests" /\ cond.negate = FALSE
    /\ cond.op \in {"gte", "gt"} /\ cond.value \in Nat /\ Cap(cond) > 0
    /\ cond.window \in Nat /\ cond.window * Second >= MaxDelay
    /\ \A j \in DOMAIN rules \ {i} : rules[j].weight < rules[i].weight
    /\ \A j \in DOMAIN rules : \A other \in QuotaLeaves(rules[j]) :
          other.field = "requests" => other = cond

\* The rows a cap is about from the time t on, for one length of its window less
\* the delay between the stamp of a row and the clock it is decided by.  A cap
\* per model is about the requests that name the model.
Charged(cond, m, t) ==
    {row \in log : /\ Billable(row)
                   /\ row.at >= t /\ row.at <= t + cond.window * Second - MaxDelay
                   /\ "model" \in cond.per =>
                         row.model = m /\ ctx[row.req].parameter["model"] = m}

\* Requests are checked before they run and recorded after: whatever the
\* interleaving, and although rows appear with stamps in the past, a cap of n
\* requests is exceeded in no window by more than the requests that may be in
\* flight (populate_quota_metadata, get_window_aggregate, log_request).
OvershootBounded ==
    \A i \in DOMAIN rules : \A cond \in QuotaLeaves(rules[i]) :
        Caps(i, cond) =>
            \A m \in Models, t \in 0..now :
                Cardinality(Charged(cond, m, t)) <= Cap(cond) - 1 + Limit

\* A request is billed at most once, also when something fails after its row
\* was committed and a second row is written; an answer is billed, a refusal is
\* not recorded (create_message, _handle_invoke, _finalize, _log_error).
BilledOnce ==
    /\ \A a, b \in log : a.req = b.req /\ Billable(a) /\ Billable(b) => a = b
    /\ \A r \in Requests :
         /\ verdict[r].answer = "ok" => \E row \in log : row.req = r /\ row.status = 200
         /\ verdict[r].answer \in {"none", "blocked", "forbidden"} /\ pc[r] # "logged" =>
               \A row \in log : row.req # r

\* Retry-After, in whole seconds, is neither too early nor too late.  A request
\* whose clock is one second past it no longer counts the oldest usage that any
\* of the rule's windows was blocked with; before it, one of them still does
\* (_retry_after_for_rule, _next_free).
RetryFits ==
    \A r \in Requests, i \in DOMAIN rules :
        LET v == verdict[r]
            used == {cond \in QuotaLeaves(rules[i]) : v.quota[cond.field].oldest # None}
        IN  v.answer = "blocked" /\ Winner(rules, i, RuleContext(ctx[r], v.quota)) =>
              /\ \A cond \in used, q \in Requests :
                    LET mine == v.quota[cond.field]
                        theirs == quota[q][cond.field]
                        later == clock[q] >= v.at + (v.retry + 1) * Second
                    IN  theirs.spec = mine.spec /\ theirs.oldest # None /\ later =>
                            theirs.oldest > mine.oldest
              /\ v.retry > 0 =>
                    \E cond \in used :
                        LET mine == v.quota[cond.field]
                        IN  mine.oldest >= v.at + (v.retry - mine.spec.window) * Second

\* docs/rules-engine.md on an hourly and a daily cap of one measure: "the two
\* windows are independent rolling aggregates", and "the daily cap keeps holding
\* even after the hourly window has cleared".  As long as requests come one after
\* the other, a quota condition holds if and only if the usage of its own window
\* meets it.
OwnWindow ==
    \A r \in Requests, i \in DOMAIN rules : \A cond \in QuotaLeaves(rules[i]) :
        LET own == [quota[r] EXCEPT ![cond.field] = Bucket(SpecOf(cond, ctx[r]), clock[r])]
        IN  Limit = 1 /\ pc[r] = "figured" =>
               (Holds(cond, RuleContext(ctx[r], quota[r])) <=>
                Holds(cond, RuleContext(ctx[r], own)))
=============================================================================
