----------------------------- MODULE RulesCache -----------------------------
(***************************************************************************)
(* The per-process cache of the rules engine (services/rules_service.py)   *)
(* as the worker processes of one deployment use it: requests that load    *)
(* it, refresh it under the asyncio lock and evaluate it, and rule writes  *)
(* that commit to the shared database and then invalidate the cache of the *)
(* worker that served them.                                                *)
(*                                                                         *)
(* The rules of the database are a version number, incremented by every    *)
(* committed write; no version is the empty rule set.  A worker's list     *)
(* _rules_cache holds the rules of a version, or Empty.  The list is one   *)
(* object: a request that took it sees what happens to it afterwards.      *)
(*                                                                         *)
(* Time is a clock of whole units.  MaxWait bounds how long one awaited    *)
(* database operation takes; MaxTime and MaxVersion bound the exploration. *)
(***************************************************************************)
EXTENDS Integers

CONSTANTS
    Workers,       \* the uvicorn worker processes
    Requests,      \* the tasks that serve /messages requests
    Writers,       \* the tasks that serve rule create, update and delete
    HomeOf,        \* the worker a task runs on
    TTL,           \* settings.engine.rules_cache_ttl_seconds
    MaxWait,       \* longest wait for the database
    QuotaVersions, \* rule sets with a quota condition
    MaxVersion, MaxTime

ASSUME TaskAssumption ==
    /\ Requests \cap Writers = {}
    /\ HomeOf \in [Requests \cup Writers -> Workers]
ASSUME TimeAssumption ==
    /\ TTL \in Nat \ {0} /\ MaxWait \in Nat
    /\ MaxTime \in Nat /\ MaxVersion \in Nat

Empty == -1
Never == -1
Nobody == "nobody"
ASSUME NobodyAssumption == Nobody \notin Requests

VARIABLES
    now,        \* time.monotonic(), the same for every worker
    version,    \* the committed rules of the database
    commitTime, \* when each version was committed
    cache,      \* _rules_cache of each worker
    loadedAt,   \* _cache_loaded_at of each worker
    lock,       \* holder of each worker's _cache_lock
    pc,         \* where each task is suspended
    since,      \* when it was suspended there
    snap,       \* the rows a refresh has read
    wrote,      \* the version each writer in flight committed
    acked,      \* newest version whose write has returned, on each worker
    ticket,     \* what a request in flight has loaded, and what it is owed
    decision    \* the last request decided on each worker

vars == <<now, version, commitTime, cache, loadedAt, lock, pc, since, snap,
          wrote, acked, ticket, decision>>

Tasks == Requests \cup Writers
Versions == 0..MaxVersion
Rules == Versions \cup {Empty}
Labels == {"idle", "locking", "query", "answered", "quota", "committed"}

\* taken: the rules in the list when get_active_rules returned it; owed: the
\* writes that had returned on this worker when the request arrived.
Tickets == [taken : Rules, owed : Versions]
NoTicket == [taken |-> Empty, owed |-> 0]

\* rules: those evaluated; age: how long they had been out of date by then;
\* before: the newest any earlier request of the worker was decided by.
Decisions == [rules : Rules, taken : Rules, owed : Versions, age : Int, before : Rules]
Undecided == [rules |-> Empty, taken |-> Empty, owed |-> 0, age |-> 0, before |-> Empty]

Init ==
    /\ now = 0 /\ version = 0
    /\ commitTime = [v \in Versions |-> IF v = 0 THEN 0 ELSE Never]
    /\ cache = [w \in Workers |-> Empty]
    /\ loadedAt = [w \in Workers |-> Never]
    /\ lock = [w \in Workers |-> Nobody]
    /\ pc = [t \in Tasks |-> "idle"]
    /\ since = [t \in Tasks |-> 0]
    /\ snap = [r \in Requests |-> Empty]
    /\ wrote = [t \in Writers |-> 0]
    /\ acked = [w \in Workers |-> 0]
    /\ ticket = [r \in Requests |-> NoTicket]
    /\ decision = [w \in Workers |-> Undecided]

-----------------------------------------------------------------------------
GoTo(t, l) ==
    /\ pc' = [pc EXCEPT ![t] = l]
    /\ since' = [since EXCEPT ![t] = IF l \in {"idle", "locking"} THEN 0 ELSE now]

\* A slip of Stale: the age is compared one unit too late.
LateStale(w) == loadedAt[w] = Never \/ now - loadedAt[w] > TTL

\* _cache_is_stale
Stale(w) == loadedAt[w] = Never \/ now - loadedAt[w] >= TTL

Newer(v, u) == IF v > u THEN v ELSE u

OutOfDate(v) == IF v \in 0..version - 1 THEN now - commitTime[v + 1] ELSE 0

\* evaluate_rules on the content of the list.
Decide(r, rules, taken, owed) ==
    LET w == HomeOf[r] IN
    /\ GoTo(r, "idle")
    /\ ticket' = [ticket EXCEPT ![r] = NoTicket]
    /\ decision' = [decision EXCEPT ![w] =
           [rules |-> rules, taken |-> taken, owed |-> owed, age |-> OutOfDate(rules),
            before |-> Newer(@.rules, @.before)]]

\* create_message with the list in hand: one with a quota condition waits for
\* populate_quota_metadata, any other is evaluated before the next suspension.
UseRules(r, rules, owed) ==
    IF rules \in QuotaVersions
    THEN /\ GoTo(r, "quota")
         /\ ticket' = [ticket EXCEPT ![r] = [taken |-> rules, owed |-> owed]]
         /\ UNCHANGED decision
    ELSE Decide(r, rules, rules, owed)

\* get_active_rules: a fresh list is used at once, a stale one is refreshed.
Arrive(r) ==
    LET w == HomeOf[r] IN
    /\ pc[r] = "idle"
    /\ IF Stale(w)
       THEN /\ GoTo(r, "locking")
            /\ ticket' = [ticket EXCEPT ![r].owed = acked[w]]
            /\ UNCHANGED decision
       ELSE UseRules(r, cache[w], acked[w])
    /\ UNCHANGED <<now, version, commitTime, cache, loadedAt, lock, snap, wrote, acked>>

\* A slip of Acquire: the query is sent without the lock.
UnlockedAcquire(r) ==
    LET w == HomeOf[r] IN
    /\ pc[r] = "locking"
    /\ IF Stale(w)
       THEN GoTo(r, "query") /\ UNCHANGED <<ticket, decision>>
       ELSE UseRules(r, cache[w], ticket[r].owed)
    /\ UNCHANGED <<now, version, commitTime, cache, loadedAt, lock, snap, wrote, acked>>

\* async with _cache_lock: staleness is tested again, and the query is sent or
\* the lock released.
Acquire(r) ==
    LET w == HomeOf[r] IN
    /\ pc[r] = "locking" /\ lock[w] = Nobody
    /\ IF Stale(w)
       THEN /\ lock' = [lock EXCEPT ![w] = r]
            /\ GoTo(r, "query")
            /\ UNCHANGED <<ticket, decision>>
       ELSE UseRules(r, cache[w], ticket[r].owed) /\ UNCHANGED lock
    /\ UNCHANGED <<now, version, commitTime, cache, loadedAt, snap, wrote, acked>>

\* The database answers with the rules committed by then.
QueryReads(r) ==
    /\ pc[r] = "query"
    /\ snap' = [snap EXCEPT ![r] = version]
    /\ pc' = [pc EXCEPT ![r] = "answered"]
    /\ UNCHANGED <<now, version, commitTime, cache, loadedAt, lock, since, wrote, acked,
                   ticket, decision>>

\* The answer arrives: clear, extend, stamp and release without a suspension.
Install(r) ==
    LET w == HomeOf[r] IN
    /\ pc[r] = "answered"
    /\ cache' = [cache EXCEPT ![w] = snap[r]]
    /\ loadedAt' = [loadedAt EXCEPT ![w] = now]
    /\ lock' = [lock EXCEPT ![w] = Nobody]
    /\ snap' = [snap EXCEPT ![r] = Empty]
    /\ UseRules(r, snap[r], ticket[r].owed)
    /\ UNCHANGED <<now, version, commitTime, wrote, acked>>

\* A slip of RequestFails: the lock is released on the way out only.
HoldingFails(r) ==
    /\ pc[r] \in {"query", "answered", "quota"}
    /\ GoTo(r, "idle")
    /\ ticket' = [ticket EXCEPT ![r] = NoTicket]
    /\ snap' = [snap EXCEPT ![r] = Empty]
    /\ UNCHANGED <<now, version, commitTime, cache, loadedAt, lock, wrote, acked, decision>>

\* The database fails: async with releases the lock and the request ends with an
\* error, undecided.
RequestFails(r) ==
    /\ pc[r] \in {"query", "answered", "quota"}
    /\ lock' = [lock EXCEPT ![HomeOf[r]] = IF @ = r THEN Nobody ELSE @]
    /\ GoTo(r, "idle")
    /\ ticket' = [ticket EXCEPT ![r] = NoTicket]
    /\ snap' = [snap EXCEPT ![r] = Empty]
    /\ UNCHANGED <<now, version, commitTime, cache, loadedAt, wrote, acked, decision>>

\* populate_quota_metadata returns and evaluate_rules reads the list, which is
\* still the shared one.
QuotaReturns(r) ==
    /\ pc[r] = "quota"
    /\ Decide(r, cache[HomeOf[r]], ticket[r].taken, ticket[r].owed)
    /\ UNCHANGED <<now, version, commitTime, cache, loadedAt, lock, snap, wrote, acked>>

\* create_rule, update_rule, delete_rule: the commit takes effect ...
Commit(t) ==
    /\ pc[t] = "idle" /\ version < MaxVersion
    /\ version' = version + 1
    /\ commitTime' = [commitTime EXCEPT ![version + 1] = now]
    /\ wrote' = [wrote EXCEPT ![t] = version + 1]
    /\ GoTo(t, "committed")
    /\ UNCHANGED <<now, cache, loadedAt, lock, snap, acked, ticket, decision>>

\* ... and once it and the reload of the row have returned, the worker's cache
\* is invalidated ...
Invalidate(t) ==
    LET w == HomeOf[t] IN
    /\ pc[t] = "committed"
    /\ cache' = [cache EXCEPT ![w] = Empty]
    /\ loadedAt' = [loadedAt EXCEPT ![w] = Never]
    /\ acked' = [acked EXCEPT ![w] = Newer(@, wrote[t])]
    /\ wrote' = [wrote EXCEPT ![t] = 0]
    /\ GoTo(t, "idle")
    /\ UNCHANGED <<now, version, commitTime, lock, snap, ticket, decision>>

\* ... unless the commit's answer is lost or the reload fails: the write stands,
\* the writer answers with an error and the cache is left as it is.
WriteFails(t) ==
    /\ pc[t] = "committed"
    /\ wrote' = [wrote EXCEPT ![t] = 0]
    /\ GoTo(t, "idle")
    /\ UNCHANGED <<now, version, commitTime, cache, loadedAt, lock, snap, acked, ticket,
                   decision>>

\* Time passes, but no database operation outlasts MaxWait.
Tick ==
    /\ now < MaxTime
    /\ \A t \in Tasks : pc[t] \notin {"idle", "locking"} => now - since[t] < MaxWait
    /\ now' = now + 1
    /\ UNCHANGED <<version, commitTime, cache, loadedAt, lock, pc, since, snap,
                   wrote, acked, ticket, decision>>

RequestStep(r) ==
    \/ Arrive(r) \/ Acquire(r) \/ QueryReads(r) \/ Install(r) \/ RequestFails(r)
    \/ QuotaReturns(r)

WriterStep(t) == Commit(t) \/ Invalidate(t) \/ WriteFails(t)

Next ==
    \/ \E r \in Requests : RequestStep(r)
    \/ \E t \in Writers : WriterStep(t)
    \/ Tick

Spec == Init /\ [][Next]_vars

\* The database answers or fails every query in the end, and asyncio.Lock wakes
\* its waiters in order, so that no request is passed over for ever.
RequestFairness(r) ==
    /\ SF_vars(Acquire(r))
    /\ WF_vars(QueryReads(r) \/ Install(r) \/ QuotaReturns(r) \/ RequestFails(r))

FairSpec == Spec /\ \A r \in Requests : RequestFairness(r)

-----------------------------------------------------------------------------
\* Every variable has its type.
TypeOK ==
    /\ now \in 0..MaxTime /\ version \in Versions
    /\ commitTime \in [Versions -> Int]
    /\ cache \in [Workers -> Rules]
    /\ loadedAt \in [Workers -> 0..MaxTime \cup {Never}]
    /\ lock \in [Workers -> Requests \cup {Nobody}]
    /\ pc \in [Tasks -> Labels]
    /\ since \in [Tasks -> 0..MaxTime]
    /\ snap \in [Requests -> Rules]
    /\ wrote \in [Writers -> Versions]
    /\ acked \in [Workers -> Versions]
    /\ ticket \in [Requests -> Tickets]
    /\ decision \in [Workers -> Decisions]

\* rules_cache_ttl_seconds: what a request is decided by was the database's
\* content less than TTL ago, give or take the wait for the query that read it
\* and the wait for the quota figures, whichever worker wrote it.
BoundedStaleness == \A w \in Workers : decision[w].age < TTL + 2 * MaxWait

\* refresh_rules_cache under _cache_lock: on one worker the rules never go back in
\* time, a request is not decided by rules older than those of a request decided
\* before it.
NeverBackwards ==
    \A w \in Workers : decision[w].rules = Empty \/ decision[w].rules >= decision[w].before

\* async with _cache_lock: a request that waits for the lock or for the database
\* gets an answer, whatever became of the requests before it.
EveryRequestEnds == \A r \in Requests : pc[r] # "idle" ~> pc[r] = "idle"

\* messages.py:119 (quota figures are computed in advance for the rules to
\* evaluate): a request is decided by the rules its quota figures were computed
\* for.  Not so: the list is shared and changes during the wait.
EvaluatesWhatItLoaded ==
    \A w \in Workers : decision[w].rules = decision[w].taken

\* README.md:185 (the worker that serves a write reloads immediately): a request
\* that reaches a worker after that worker's write returned is decided by it or
\* by a later one.  Not so: a refresh in flight installs the rows of before.
ReadYourWrites ==
    \A w \in Workers : decision[w].rules = Empty \/ decision[w].rules >= decision[w].owed
=============================================================================
