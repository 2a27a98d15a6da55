---------------------------- MODULE CacheProofs ----------------------------
(***************************************************************************)
(* The two caches of the gateway.                                          *)
(*                                                                         *)
(* RulesCache, for any workers, requests and writers, any time to live and *)
(* any number of changes: how old the rules a request is decided by can    *)
(* be, and that no worker goes back to older ones.                         *)
(*                                                                         *)
(* ProviderCache, for any number of workers, models, secrets and requests, *)
(* any capacity and any sequence of administrators' changes: whose client  *)
(* a request gets, which client is evicted, and what a change of a secret  *)
(* leaves behind.                                                          *)
(*                                                                         *)
(* They have no variable in common: neither specification says anything of *)
(* the other's.                                                            *)
(***************************************************************************)
EXTENDS RulesCache, ProviderCache, SequenceTheorems, TLAPS

\* What every step uses of the constants.
LEMMA Constants ==
    /\ Versions = 0..MaxVersion /\ Empty = -1 /\ Never = -1
    /\ MaxVersion \in Nat /\ MaxTime \in Nat /\ MaxWait \in Nat /\ TTL \in Nat /\ TTL > 0
    /\ Nobody \notin Requests
    /\ \A r \in Requests : r \in Tasks /\ HomeOf[r] \in Workers /\ r \notin Writers
    /\ \A t \in Writers : t \in Tasks /\ HomeOf[t] \in Workers /\ t \notin Requests
BY TaskAssumption, TimeAssumption, NobodyAssumption
   DEF Versions, Empty, Never, Tasks

-----------------------------------------------------------------------------
\* Where a task is suspended, and since when, keep their types.
LEMMA GoToTyped ==
    ASSUME TypeOK, NEW t \in Tasks, NEW l \in Labels, GoTo(t, l)
    PROVE  pc' \in [Tasks -> Labels] /\ since' \in [Tasks -> 0..MaxTime]
<1>1. now \in 0..MaxTime /\ 0 \in 0..MaxTime
  BY Constants DEF TypeOK
<1> DEFINE s == IF l \in {"idle", "locking"} THEN 0 ELSE now
<1>2. s \in 0..MaxTime
  BY <1>1
<1>3. since' = [since EXCEPT ![t] = s] /\ pc' = [pc EXCEPT ![t] = l]
  BY DEF GoTo
<1> HIDE DEF s
<1> QED BY <1>2, <1>3 DEF TypeOK

\* So do the ticket and the decision of a request that is decided.
LEMMA DecideTyped ==
    ASSUME TypeOK, NEW r \in Requests, NEW rules \in Rules, NEW taken \in Rules,
           NEW owed \in Versions, Decide(r, rules, taken, owed)
    PROVE  /\ pc' \in [Tasks -> Labels] /\ since' \in [Tasks -> 0..MaxTime]
           /\ ticket' \in [Requests -> Tickets]
           /\ decision' \in [Workers -> Decisions]
<1>1. pc' \in [Tasks -> Labels] /\ since' \in [Tasks -> 0..MaxTime]
  BY GoToTyped, Constants DEF Decide, Labels
<1>2. NoTicket \in Tickets
  BY Constants DEF NoTicket, Tickets, Rules
<1>3. ticket' \in [Requests -> Tickets]
  BY <1>2 DEF Decide, TypeOK
<1>4. OutOfDate(rules) \in Int
  <2>1. CASE rules \in 0..version - 1
    <3>1. rules + 1 \in Versions /\ now \in Int
      BY <2>1, Constants DEF TypeOK
    <3> QED BY <2>1, <3>1 DEF OutOfDate, TypeOK
  <2>2. CASE rules \notin 0..version - 1
    BY <2>2 DEF OutOfDate
  <2> QED BY <2>1, <2>2
<1> DEFINE d(w) == [rules |-> rules, taken |-> taken, owed |-> owed, age |-> OutOfDate(rules),
                    before |-> Newer(decision[w].rules, decision[w].before)]
<1>5. \A w \in Workers : d(w) \in Decisions
  <2> SUFFICES ASSUME NEW w \in Workers PROVE d(w) \in Decisions
    OBVIOUS
  <2>1. decision[w] \in Decisions
    BY DEF TypeOK
  <2>2. Newer(decision[w].rules, decision[w].before) \in Rules
    BY <2>1 DEF Newer, Decisions
  <2> QED BY <2>2, <1>4 DEF Decisions
<1>6. decision' = [decision EXCEPT ![HomeOf[r]] = d(HomeOf[r])]
  BY DEF Decide
<1> HIDE DEF d
<1> QED BY <1>1, <1>3, <1>5, <1>6, Constants DEF TypeOK

\* And those of a request that takes the list.
LEMMA UseRulesTyped ==
    ASSUME TypeOK, NEW r \in Requests, NEW rules \in Rules, NEW owed \in Versions,
           UseRules(r, rules, owed)
    PROVE  /\ pc' \in [Tasks -> Labels] /\ since' \in [Tasks -> 0..MaxTime]
           /\ ticket' \in [Requests -> Tickets]
           /\ decision' \in [Workers -> Decisions]
<1>1. CASE rules \in QuotaVersions
  <2>1. pc' \in [Tasks -> Labels] /\ since' \in [Tasks -> 0..MaxTime]
    BY <1>1, GoToTyped, Constants DEF UseRules, Labels
  <2>2. [taken |-> rules, owed |-> owed] \in Tickets
    BY DEF Tickets
  <2> QED BY <1>1, <2>1, <2>2 DEF UseRules, TypeOK
<1>2. CASE rules \notin QuotaVersions
  BY <1>2, DecideTyped DEF UseRules
<1> QED BY <1>1, <1>2

\* Every variable keeps its type.
THEOREM TypeCorrect == Spec => []TypeOK
<1> USE Constants
<1>1. Init => TypeOK
  BY DEF Init, TypeOK, NoTicket, Undecided, Labels, Tickets, Decisions, Rules
<1>2. TypeOK /\ [Next]_vars => TypeOK'
  <2> SUFFICES ASSUME TypeOK, [Next]_vars PROVE TypeOK'
    OBVIOUS
  <2>0. /\ {"idle", "locking", "query", "answered", "quota", "committed"} = Labels
        /\ Versions \subseteq Rules /\ Empty \in Rules
        /\ NoTicket \in Tickets
        /\ \A q \in Requests : /\ ticket[q] \in Tickets /\ ticket[q].owed \in Versions
                                /\ ticket[q].taken \in Rules
    BY DEF Labels, Rules, Tickets, NoTicket, TypeOK
  <2>1. ASSUME NEW r \in Requests, Arrive(r) PROVE TypeOK'
    <3>1. CASE Stale(HomeOf[r])
      <4>1. pc' \in [Tasks -> Labels] /\ since' \in [Tasks -> 0..MaxTime]
        BY <2>1, <3>1, <2>0, GoToTyped DEF Arrive
      <4>2. ticket' \in [Requests -> Tickets]
        <5>1. [ticket[r] EXCEPT !.owed = acked[HomeOf[r]]] \in Tickets
          BY <2>0 DEF Tickets, TypeOK
        <5> QED BY <2>1, <3>1, <5>1 DEF Arrive, TypeOK
      <4> QED BY <2>1, <3>1, <4>1, <4>2 DEF Arrive, TypeOK
    <3>2. CASE ~Stale(HomeOf[r])
      BY <2>1, <3>2, UseRulesTyped DEF Arrive, TypeOK
    <3> QED BY <3>1, <3>2
  <2>2. ASSUME NEW r \in Requests, Acquire(r) PROVE TypeOK'
    <3>1. CASE Stale(HomeOf[r])
      <4>1. pc' \in [Tasks -> Labels] /\ since' \in [Tasks -> 0..MaxTime]
        BY <2>2, <3>1, <2>0, GoToTyped DEF Acquire
      <4> QED BY <2>2, <3>1, <4>1 DEF Acquire, TypeOK
    <3>2. CASE ~Stale(HomeOf[r])
      BY <2>0, <2>2, <3>2, UseRulesTyped DEF Acquire, TypeOK
    <3> QED BY <3>1, <3>2
  <2>3. ASSUME NEW r \in Requests, QueryReads(r) PROVE TypeOK'
    BY <2>3, <2>0 DEF QueryReads, TypeOK
  <2>4. ASSUME NEW r \in Requests, Install(r) PROVE TypeOK'
    <3>1. snap[r] \in Rules
      BY DEF TypeOK
    <3>2. UseRules(r, snap[r], ticket[r].owed)
      BY <2>4 DEF Install
    <3>3. /\ pc' \in [Tasks -> Labels] /\ since' \in [Tasks -> 0..MaxTime]
          /\ ticket' \in [Requests -> Tickets]
          /\ decision' \in [Workers -> Decisions]
      BY <2>0, <3>1, <3>2, UseRulesTyped
    <3> QED BY <2>0, <2>4, <3>1, <3>3 DEF Install, TypeOK
  <2>5. ASSUME NEW r \in Requests, RequestFails(r) PROVE TypeOK'
    <3>1. pc' \in [Tasks -> Labels] /\ since' \in [Tasks -> 0..MaxTime]
      BY <2>5, <2>0, GoToTyped DEF RequestFails
    <3>2. lock' \in [Workers -> Requests \cup {Nobody}]
      BY <2>5 DEF RequestFails, TypeOK
    <3> QED BY <2>5, <2>0, <3>1, <3>2 DEF RequestFails, TypeOK
  <2>6. ASSUME NEW r \in Requests, QuotaReturns(r) PROVE TypeOK'
    <3>1. cache[HomeOf[r]] \in Rules
      BY DEF TypeOK
    <3> QED BY <2>6, <3>1, <2>0, DecideTyped DEF QuotaReturns, TypeOK
  <2>7. ASSUME NEW t \in Writers, Commit(t) PROVE TypeOK'
    <3>1. pc' \in [Tasks -> Labels] /\ since' \in [Tasks -> 0..MaxTime]
      BY <2>7, <2>0, GoToTyped DEF Commit
    <3>2. version + 1 \in Versions /\ now \in Int
      BY <2>7 DEF Commit, TypeOK
    <3> QED BY <2>7, <3>1, <3>2 DEF Commit, TypeOK
  <2>8. ASSUME NEW t \in Writers, Invalidate(t) PROVE TypeOK'
    <3>1. pc' \in [Tasks -> Labels] /\ since' \in [Tasks -> 0..MaxTime]
      BY <2>8, <2>0, GoToTyped DEF Invalidate
    <3>2. acked' \in [Workers -> Versions]
      BY <2>8 DEF Invalidate, Newer, TypeOK
    <3>3. wrote' \in [Writers -> Versions]
      BY <2>8 DEF Invalidate, TypeOK
    <3> QED BY <2>8, <2>0, <3>1, <3>2, <3>3 DEF Invalidate, TypeOK
  <2>9. ASSUME NEW t \in Writers, WriteFails(t) PROVE TypeOK'
    <3>1. pc' \in [Tasks -> Labels] /\ since' \in [Tasks -> 0..MaxTime]
      BY <2>9, <2>0, GoToTyped DEF WriteFails
    <3> QED BY <2>9, <3>1 DEF WriteFails, TypeOK
  <2>10. CASE Tick
    <3>1. now' \in 0..MaxTime
      BY <2>10 DEF Tick, TypeOK
    <3> QED BY <2>10, <3>1 DEF Tick, TypeOK
  <2>11. CASE UNCHANGED vars
    BY <2>11 DEF vars, TypeOK
  <2> QED BY <2>1, <2>2, <2>3, <2>4, <2>5, <2>6, <2>7, <2>8, <2>9, <2>10, <2>11
          DEF Next, RequestStep, WriterStep
<1> QED BY <1>1, <1>2, PTL DEF Spec

-----------------------------------------------------------------------------
(***************************************************************************)
(* The age of the rules.  A list is at most MaxWait older than its stamp   *)
(* (the query was sent no earlier), it is taken less than TTL after the    *)
(* stamp, and the request that took it waits at most MaxWait.              *)
(***************************************************************************)

Waiting(t) == pc[t] \in {"query", "answered", "quota", "committed"}

CommitsPast == \A v \in 1..version : commitTime[v] <= now

WaitsBounded == \A t \in Tasks : Waiting(t) => since[t] <= now /\ now - since[t] <= MaxWait

AnswersFresh ==
    \A r \in Requests : pc[r] = "answered" =>
        /\ snap[r] \in 0..version
        /\ snap[r] < version => since[r] <= commitTime[snap[r] + 1]

ListsFresh ==
    \A w \in Workers : cache[w] # Empty =>
        /\ cache[w] \in 0..version /\ loadedAt[w] \in 0..now
        /\ cache[w] < version => loadedAt[w] - commitTime[cache[w] + 1] <= MaxWait

QuotaTookFresh ==
    \A r \in Requests : pc[r] = "quota" /\ cache[HomeOf[r]] # Empty =>
        since[r] - loadedAt[HomeOf[r]] < TTL

AgeInv == CommitsPast /\ WaitsBounded /\ AnswersFresh /\ ListsFresh /\ QuotaTookFresh

\* What deciding a request changes: its own place, and its worker's decision.
LEMMA DecideEffect ==
    ASSUME TypeOK, NEW r \in Requests, NEW rules, NEW taken, NEW owed,
           Decide(r, rules, taken, owed)
    PROVE  /\ pc'[r] = "idle"
           /\ \A t \in Tasks : t # r => pc'[t] = pc[t] /\ since'[t] = since[t]
           /\ \A w \in Workers : w # HomeOf[r] => decision'[w] = decision[w]
           /\ decision'[HomeOf[r]].rules = rules
           /\ decision'[HomeOf[r]].age = OutOfDate(rules)
           /\ decision'[HomeOf[r]].before =
                  Newer(decision[HomeOf[r]].rules, decision[HomeOf[r]].before)
<1>1. pc' = [pc EXCEPT ![r] = "idle"]
      /\ \A t \in Tasks : t # r => since'[t] = since[t]
  BY DEF Decide, GoTo, TypeOK
<1>2. decision'[HomeOf[r]] =
          [rules |-> rules, taken |-> taken, owed |-> owed, age |-> OutOfDate(rules),
           before |-> Newer(decision[HomeOf[r]].rules, decision[HomeOf[r]].before)]
      /\ \A w \in Workers : w # HomeOf[r] => decision'[w] = decision[w]
  BY Constants DEF Decide, TypeOK
<1> QED BY <1>1, <1>2, Constants DEF TypeOK

\* What taking the list changes: the request waits for its quota figures from now
\* on, or is decided at once.
LEMMA UseRulesEffect ==
    ASSUME TypeOK, NEW r \in Requests, NEW rules, NEW owed, UseRules(r, rules, owed)
    PROVE  /\ pc'[r] = "idle" \/ (pc'[r] = "quota" /\ since'[r] = now)
           /\ \A t \in Tasks : t # r => pc'[t] = pc[t] /\ since'[t] = since[t]
           /\ \A w \in Workers :
                 \/ decision'[w] = decision[w]
                 \/ /\ w = HomeOf[r] /\ decision'[w].rules = rules
                    /\ decision'[w].age = OutOfDate(rules)
                    /\ decision'[w].before = Newer(decision[w].rules, decision[w].before)
<1>1. CASE rules \in QuotaVersions
  BY <1>1, Constants DEF UseRules, GoTo, TypeOK
<1>2. CASE rules \notin QuotaVersions
  <2>1. Decide(r, rules, rules, owed)
    BY <1>2 DEF UseRules
  <2>2. /\ pc'[r] = "idle"
        /\ \A t \in Tasks : t # r => pc'[t] = pc[t] /\ since'[t] = since[t]
    BY <2>1, DecideEffect
  <2>3. ASSUME NEW w \in Workers, w # HomeOf[r] PROVE decision'[w] = decision[w]
    BY <2>1, <2>3, DecideEffect
  <2>4. /\ decision'[HomeOf[r]].rules = rules
        /\ decision'[HomeOf[r]].age = OutOfDate(rules)
        /\ decision'[HomeOf[r]].before =
               Newer(decision[HomeOf[r]].rules, decision[HomeOf[r]].before)
    BY <2>1, DecideEffect
  <2>5. ASSUME NEW w \in Workers
        PROVE  \/ decision'[w] = decision[w]
               \/ /\ w = HomeOf[r] /\ decision'[w].rules = rules
                  /\ decision'[w].age = OutOfDate(rules)
                  /\ decision'[w].before = Newer(decision[w].rules, decision[w].before)
    <3>1. CASE w # HomeOf[r]
      BY <2>3, <3>1
    <3>2. CASE w = HomeOf[r]
      BY <2>4, <3>2
    <3> QED BY <3>1, <3>2
  <2> QED BY <2>2, <2>5
<1> QED BY <1>1, <1>2

\* What suspending anywhere changes.
LEMMA GoToEffect ==
    ASSUME TypeOK, NEW t \in Tasks, NEW l, GoTo(t, l)
    PROVE  /\ pc'[t] = l /\ (l \notin {"idle", "locking"} => since'[t] = now)
           /\ \A u \in Tasks : u # t => pc'[u] = pc[u] /\ since'[u] = since[u]
BY DEF GoTo, TypeOK

\* How long the rules of a list have been out of date, by its stamp.
LEMMA ListAge ==
    ASSUME TypeOK, AgeInv, NEW w \in Workers, NEW s \in 0..now,
           s - loadedAt[w] < TTL, now - s <= MaxWait
    PROVE  OutOfDate(cache[w]) < TTL + 2 * MaxWait
<1>1. CASE cache[w] \notin 0..version - 1
  BY <1>1, Constants DEF OutOfDate
<1>2. CASE cache[w] \in 0..version - 1
  <2>0. version \in Nat /\ version <= MaxVersion
    BY Constants DEF TypeOK
  <2>1. cache[w] # Empty /\ cache[w] < version /\ cache[w] + 1 \in Versions
    BY <1>2, <2>0, Constants
  <2>2. loadedAt[w] - commitTime[cache[w] + 1] <= MaxWait /\ loadedAt[w] \in 0..now
    BY <2>1 DEF AgeInv, ListsFresh
  <2>3. OutOfDate(cache[w]) = now - commitTime[cache[w] + 1] /\ commitTime[cache[w] + 1] \in Int
    BY <1>2, <2>1 DEF OutOfDate, TypeOK
  <2>4. now \in Int /\ loadedAt[w] \in Int /\ TTL \in Int /\ MaxWait \in Int
    BY <2>2, Constants DEF TypeOK
  <2> QED BY <2>2, <2>3, <2>4
<1> QED BY <1>1, <1>2

\* A list found fresh, an answer that arrives, and the list after the wait for the
\* quota figures are recent enough to decide by.
LEMMA FreshAge ==
    ASSUME TypeOK, AgeInv, NEW w \in Workers, ~Stale(w)
    PROVE  OutOfDate(cache[w]) < TTL + 2 * MaxWait
<1>1. now - loadedAt[w] < TTL
  <2>1. loadedAt[w] \in Int /\ now \in Int
    BY Constants DEF TypeOK
  <2> QED BY <2>1, Constants DEF Stale
<1>2. now \in 0..now /\ now - now <= MaxWait
  BY Constants DEF TypeOK
<1> QED BY <1>1, <1>2, ListAge

LEMMA AnswerAge ==
    ASSUME TypeOK, AgeInv, NEW r \in Requests, pc[r] = "answered"
    PROVE  /\ snap[r] \in 0..version
           /\ snap[r] < version => now - commitTime[snap[r] + 1] <= MaxWait
           /\ OutOfDate(snap[r]) < TTL + 2 * MaxWait
<1>1. snap[r] \in 0..version /\ (snap[r] < version => since[r] <= commitTime[snap[r] + 1])
  BY DEF AgeInv, AnswersFresh
<1>2. since[r] <= now /\ now - since[r] <= MaxWait /\ since[r] \in Int /\ now \in Int
  BY Constants DEF AgeInv, WaitsBounded, Waiting, TypeOK
<1>3. ASSUME snap[r] < version PROVE now - commitTime[snap[r] + 1] <= MaxWait
  <2>1. commitTime[snap[r] + 1] \in Int
    BY <1>1, <1>3, Constants DEF TypeOK
  <2> QED BY <1>1, <1>2, <1>3, <2>1, Constants
<1>4. OutOfDate(snap[r]) < TTL + 2 * MaxWait
  <2>1. CASE snap[r] < version
    <3>1. snap[r] \in 0..version - 1 /\ commitTime[snap[r] + 1] \in Int
      BY <1>1, <2>1, Constants DEF TypeOK
    <3> QED BY <1>2, <1>3, <2>1, <3>1, Constants DEF OutOfDate
  <2>2. CASE ~(snap[r] < version)
    BY <1>1, <2>2, Constants DEF OutOfDate, TypeOK
  <2> QED BY <2>1, <2>2
<1> QED BY <1>1, <1>3, <1>4

LEMMA QuotaAge ==
    ASSUME TypeOK, AgeInv, NEW r \in Requests, pc[r] = "quota"
    PROVE  OutOfDate(cache[HomeOf[r]]) < TTL + 2 * MaxWait
<1>1. CASE cache[HomeOf[r]] = Empty
  BY <1>1, Constants DEF OutOfDate
<1>2. CASE cache[HomeOf[r]] # Empty
  <2>1. since[r] - loadedAt[HomeOf[r]] < TTL
    BY <1>2 DEF AgeInv, QuotaTookFresh
  <2>2. since[r] <= now /\ now - since[r] <= MaxWait /\ since[r] \in 0..MaxTime
    BY Constants DEF AgeInv, WaitsBounded, Waiting, TypeOK
  <2>3. since[r] \in 0..now
    BY <2>2, Constants DEF TypeOK
  <2> QED BY <2>1, <2>2, <2>3, ListAge, Constants
<1> QED BY <1>1, <1>2

\* A step that leaves time, the database and the lists alone, and that suspends one
\* task: from now on, or where it is not waited for, or with a list just found fresh.
LEMMA AgeOfWaits ==
    ASSUME TypeOK, AgeInv, NEW r \in Tasks,
           UNCHANGED <<now, version, commitTime, cache, loadedAt>>,
           \A t \in Tasks : t # r => pc'[t] = pc[t] /\ since'[t] = since[t],
           \A q \in Requests : q # r => snap'[q] = snap[q],
           \/ pc'[r] \in {"idle", "locking"}
           \/ pc'[r] \in {"query", "committed"} /\ since'[r] = now
           \/ /\ pc'[r] = "quota" /\ since'[r] = now
              /\ now - loadedAt[HomeOf[r]] < TTL
    PROVE  AgeInv'
<1>1. CommitsPast'
  BY DEF AgeInv, CommitsPast
<1>2. WaitsBounded'
  <2> SUFFICES ASSUME NEW t \in Tasks, Waiting(t)'
               PROVE  since'[t] <= now /\ now - since'[t] <= MaxWait
    BY DEF WaitsBounded
  <2>1. CASE t = r
    BY <2>1, Constants DEF Waiting, TypeOK
  <2>2. CASE t # r
    BY <2>2 DEF Waiting, AgeInv, WaitsBounded
  <2> QED BY <2>1, <2>2
<1>3. AnswersFresh'
  <2> SUFFICES ASSUME NEW q \in Requests, pc'[q] = "answered"
               PROVE  /\ snap'[q] \in 0..version
                      /\ snap'[q] < version => since'[q] <= commitTime[snap'[q] + 1]
    BY DEF AnswersFresh
  <2>1. q # r /\ q \in Tasks
    BY Constants
  <2> QED BY <2>1 DEF AgeInv, AnswersFresh
<1>4. ListsFresh'
  BY DEF AgeInv, ListsFresh
<1>5. QuotaTookFresh'
  <2> SUFFICES ASSUME NEW q \in Requests, pc'[q] = "quota", cache[HomeOf[q]] # Empty
               PROVE  since'[q] - loadedAt[HomeOf[q]] < TTL
    BY DEF QuotaTookFresh
  <2>1. CASE q = r
    BY <2>1
  <2>2. CASE q # r
    BY <2>2, Constants DEF AgeInv, QuotaTookFresh
  <2> QED BY <2>1, <2>2
<1> QED BY <1>1, <1>2, <1>3, <1>4, <1>5 DEF AgeInv

\* A request that takes a list found fresh.
LEMMA AgeOfUse ==
    ASSUME TypeOK, AgeInv, NEW r \in Requests, NEW owed, ~Stale(HomeOf[r]),
           UseRules(r, cache[HomeOf[r]], owed),
           UNCHANGED <<now, version, commitTime, cache, loadedAt, snap>>
    PROVE  AgeInv'
<1>1. r \in Tasks
  BY Constants
<1>2. now - loadedAt[HomeOf[r]] < TTL
  <2>1. loadedAt[HomeOf[r]] \in Int /\ now \in Int
    BY Constants DEF TypeOK
  <2> QED BY <2>1, Constants DEF Stale
<1>3. pc'[r] = "idle" \/ (pc'[r] = "quota" /\ since'[r] = now)
  BY UseRulesEffect
<1>4. \A t \in Tasks : t # r => pc'[t] = pc[t] /\ since'[t] = since[t]
  BY UseRulesEffect
<1> QED BY <1>1, <1>2, <1>3, <1>4, AgeOfWaits

LEMMA AgeInductive == TypeOK /\ AgeInv /\ [Next]_vars => AgeInv'
<1> SUFFICES ASSUME TypeOK, AgeInv, [Next]_vars PROVE AgeInv'
  OBVIOUS
<1>1. ASSUME NEW r \in Requests, Arrive(r) PROVE AgeInv'
  <2>1. CASE Stale(HomeOf[r])
    <3>1. r \in Tasks /\ GoTo(r, "locking")
      BY <1>1, <2>1, Constants DEF Arrive
    <3>2. pc'[r] = "locking"
          /\ \A u \in Tasks : u # r => pc'[u] = pc[u] /\ since'[u] = since[u]
      BY <3>1, GoToEffect
    <3> QED BY <1>1, <3>1, <3>2, AgeOfWaits DEF Arrive
  <2>2. CASE ~Stale(HomeOf[r])
    BY <1>1, <2>2, AgeOfUse DEF Arrive
  <2> QED BY <2>1, <2>2
<1>2. ASSUME NEW r \in Requests, Acquire(r) PROVE AgeInv'
  <2>1. CASE Stale(HomeOf[r])
    <3>1. r \in Tasks /\ GoTo(r, "query")
      BY <1>2, <2>1, Constants DEF Acquire
    <3>2. /\ pc'[r] = "query" /\ since'[r] = now
          /\ \A u \in Tasks : u # r => pc'[u] = pc[u] /\ since'[u] = since[u]
      BY <3>1, GoToEffect
    <3> QED BY <1>2, <3>1, <3>2, AgeOfWaits DEF Acquire
  <2>2. CASE ~Stale(HomeOf[r])
    BY <1>2, <2>2, AgeOfUse DEF Acquire
  <2> QED BY <2>1, <2>2
<1>3. ASSUME NEW r \in Requests, QueryReads(r) PROVE AgeInv'
  <2>1. r \in Tasks /\ version \in Nat
    BY Constants DEF TypeOK
  <2>2. /\ pc' = [pc EXCEPT ![r] = "answered"] /\ pc[r] = "query"
        /\ snap' = [snap EXCEPT ![r] = version]
        /\ UNCHANGED <<now, version, commitTime, cache, loadedAt, since>>
    BY <1>3 DEF QueryReads
  <2>3. CommitsPast' /\ ListsFresh'
    BY <2>2 DEF AgeInv, CommitsPast, ListsFresh
  <2>4. WaitsBounded'
    BY <2>1, <2>2 DEF AgeInv, WaitsBounded, Waiting, TypeOK
  <2>5. AnswersFresh'
    BY <2>1, <2>2 DEF AgeInv, AnswersFresh, TypeOK
  <2>6. QuotaTookFresh'
    BY <2>1, <2>2, Constants DEF AgeInv, QuotaTookFresh, TypeOK
  <2> QED BY <2>3, <2>4, <2>5, <2>6 DEF AgeInv
<1>4. ASSUME NEW r \in Requests, Install(r) PROVE AgeInv'
  <2>1. r \in Tasks /\ HomeOf[r] \in Workers /\ now \in Nat
    BY Constants DEF TypeOK
  <2>2. /\ pc'[r] = "idle" \/ (pc'[r] = "quota" /\ since'[r] = now)
        /\ \A t \in Tasks : t # r => pc'[t] = pc[t] /\ since'[t] = since[t]
    BY <1>4, UseRulesEffect DEF Install
  <2>3. /\ cache' = [cache EXCEPT ![HomeOf[r]] = snap[r]]
        /\ loadedAt' = [loadedAt EXCEPT ![HomeOf[r]] = now]
        /\ \A q \in Requests : q # r => snap'[q] = snap[q]
        /\ UNCHANGED <<now, version, commitTime>> /\ pc[r] = "answered"
    BY <1>4 DEF Install, TypeOK
  <2>4. CommitsPast'
    BY <2>3 DEF AgeInv, CommitsPast
  <2>5. WaitsBounded'
    <3> SUFFICES ASSUME NEW t \in Tasks, Waiting(t)'
                 PROVE  since'[t] <= now /\ now - since'[t] <= MaxWait
      BY <2>3 DEF WaitsBounded
    <3>1. CASE t = r
      BY <2>1, <2>2, <3>1, Constants DEF Waiting
    <3>2. CASE t # r
      BY <2>2, <3>2 DEF Waiting, AgeInv, WaitsBounded
    <3> QED BY <3>1, <3>2
  <2>6. AnswersFresh'
    <3> SUFFICES ASSUME NEW q \in Requests, pc'[q] = "answered"
                 PROVE  /\ snap'[q] \in 0..version
                        /\ snap'[q] < version => since'[q] <= commitTime[snap'[q] + 1]
      BY <2>3 DEF AnswersFresh
    <3>1. q # r /\ q \in Tasks
      BY <2>2, Constants
    <3> QED BY <2>2, <2>3, <3>1 DEF AgeInv, AnswersFresh
  <2>7. ListsFresh'
    <3> SUFFICES ASSUME NEW w \in Workers, cache'[w] # Empty
                 PROVE  /\ cache'[w] \in 0..version /\ loadedAt'[w] \in 0..now
                        /\ cache'[w] < version =>
                               loadedAt'[w] - commitTime[cache'[w] + 1] <= MaxWait
      BY <2>3 DEF ListsFresh
    <3>1. CASE w = HomeOf[r]
      <4>1. cache'[w] = snap[r] /\ loadedAt'[w] = now
        BY <2>1, <2>3, <3>1 DEF TypeOK
      <4> QED BY <2>1, <2>3, <4>1, AnswerAge
    <3>2. CASE w # HomeOf[r]
      <4>1. cache'[w] = cache[w] /\ loadedAt'[w] = loadedAt[w]
        BY <2>3, <3>2 DEF TypeOK
      <4> QED BY <4>1 DEF AgeInv, ListsFresh
    <3> QED BY <3>1, <3>2
  <2>8. QuotaTookFresh'
    <3> SUFFICES ASSUME NEW q \in Requests, pc'[q] = "quota", cache'[HomeOf[q]] # Empty
                 PROVE  since'[q] - loadedAt'[HomeOf[q]] < TTL
      BY DEF QuotaTookFresh
    <3>0. q \in Tasks /\ HomeOf[q] \in Workers
      BY Constants
    <3>1. CASE HomeOf[q] = HomeOf[r]
      <4>1. loadedAt'[HomeOf[q]] = now
        BY <2>1, <2>3, <3>1 DEF TypeOK
      <4>2. since'[q] <= now /\ since'[q] \in Int
        <5>1. CASE q = r
          BY <2>1, <2>2, <5>1
        <5>2. CASE q # r
          BY <2>2, <3>0, <5>2, Constants DEF AgeInv, WaitsBounded, Waiting, TypeOK
        <5> QED BY <5>1, <5>2
      <4> QED BY <2>1, <4>1, <4>2, Constants
    <3>2. CASE HomeOf[q] # HomeOf[r]
      <4>1. q # r /\ cache'[HomeOf[q]] = cache[HomeOf[q]]
            /\ loadedAt'[HomeOf[q]] = loadedAt[HomeOf[q]]
        BY <2>3, <3>0, <3>2 DEF TypeOK
      <4> QED BY <2>2, <3>0, <4>1 DEF AgeInv, QuotaTookFresh
    <3> QED BY <3>1, <3>2
  <2> QED BY <2>4, <2>5, <2>6, <2>7, <2>8 DEF AgeInv
<1>5. ASSUME NEW r \in Requests, RequestFails(r) PROVE AgeInv'
  <2>1. r \in Tasks /\ GoTo(r, "idle")
    BY <1>5, Constants DEF RequestFails
  <2>2. /\ pc'[r] = "idle"
        /\ \A u \in Tasks : u # r => pc'[u] = pc[u] /\ since'[u] = since[u]
    BY <2>1, GoToEffect
  <2>3. \A q \in Requests : q # r => snap'[q] = snap[q]
    BY <1>5 DEF RequestFails, TypeOK
  <2> QED BY <1>5, <2>1, <2>2, <2>3, AgeOfWaits DEF RequestFails
<1>6. ASSUME NEW r \in Requests, QuotaReturns(r) PROVE AgeInv'
  <2>1. r \in Tasks /\ Decide(r, cache[HomeOf[r]], ticket[r].taken, ticket[r].owed)
    BY <1>6, Constants DEF QuotaReturns
  <2>2. /\ pc'[r] = "idle"
        /\ \A u \in Tasks : u # r => pc'[u] = pc[u] /\ since'[u] = since[u]
    BY <2>1, DecideEffect
  <2> QED BY <1>6, <2>1, <2>2, AgeOfWaits DEF QuotaReturns
<1>7. ASSUME NEW t \in Writers, Commit(t) PROVE AgeInv'
  <2>1. t \in Tasks /\ version \in Nat /\ version + 1 \in Versions /\ now \in Nat
    BY <1>7, Constants DEF Commit, TypeOK
  <2>2. GoTo(t, "committed") /\ t \notin Requests
    BY <1>7, Constants DEF Commit
  <2>3. /\ pc'[t] = "committed" /\ since'[t] = now
        /\ \A u \in Tasks : u # t => pc'[u] = pc[u] /\ since'[u] = since[u]
    BY <2>1, <2>2, GoToEffect
  <2>4. /\ version' = version + 1 /\ commitTime'[version + 1] = now
        /\ \A v \in Versions : v # version + 1 => commitTime'[v] = commitTime[v]
        /\ UNCHANGED <<now, cache, loadedAt, snap>>
    BY <1>7, <2>1 DEF Commit, TypeOK
  <2>5. CommitsPast'
    <3> SUFFICES ASSUME NEW v \in 1..version + 1 PROVE commitTime'[v] <= now
      BY <2>4 DEF CommitsPast
    <3>1. CASE v = version + 1
      BY <2>1, <2>4, <3>1
    <3>2. CASE v # version + 1
      <4>1. v \in 1..version /\ v \in Versions
        BY <2>1, <3>2, Constants
      <4> QED BY <2>4, <3>2, <4>1 DEF AgeInv, CommitsPast
    <3> QED BY <3>1, <3>2
  <2>6. WaitsBounded'
    <3> SUFFICES ASSUME NEW u \in Tasks, Waiting(u)'
                 PROVE  since'[u] <= now /\ now - since'[u] <= MaxWait
      BY <2>4 DEF WaitsBounded
    <3>1. CASE u = t
      BY <2>1, <2>3, <3>1, Constants
    <3>2. CASE u # t
      BY <2>3, <3>2 DEF Waiting, AgeInv, WaitsBounded
    <3> QED BY <3>1, <3>2
  <2>7. AnswersFresh'
    <3> SUFFICES ASSUME NEW q \in Requests, pc'[q] = "answered"
                 PROVE  /\ snap[q] \in 0..version + 1
                        /\ snap[q] < version + 1 => since'[q] <= commitTime'[snap[q] + 1]
      BY <2>4 DEF AnswersFresh
    <3>1. q # t /\ q \in Tasks /\ pc[q] = "answered" /\ since'[q] = since[q]
      BY <2>2, <2>3, Constants
    <3>2. /\ snap[q] \in 0..version
          /\ snap[q] < version => since[q] <= commitTime[snap[q] + 1]
      BY <3>1 DEF AgeInv, AnswersFresh
    <3>3. CASE snap[q] = version
      <4>1. since[q] <= now
        BY <3>1 DEF AgeInv, WaitsBounded, Waiting
      <4> QED BY <2>1, <2>4, <3>1, <3>3, <4>1
    <3>4. CASE snap[q] # version
      <4>1. snap[q] + 1 \in Versions /\ snap[q] + 1 # version + 1 /\ snap[q] < version
        BY <2>1, <3>2, <3>4, Constants
      <4> QED BY <2>1, <2>4, <3>1, <3>2, <4>1
    <3> QED BY <3>3, <3>4
  <2>8. ListsFresh'
    <3> SUFFICES ASSUME NEW w \in Workers, cache[w] # Empty
                 PROVE  /\ cache[w] \in 0..version + 1 /\ loadedAt[w] \in 0..now
                        /\ cache[w] < version + 1 =>
                               loadedAt[w] - commitTime'[cache[w] + 1] <= MaxWait
      BY <2>4 DEF ListsFresh
    <3>1. /\ cache[w] \in 0..version /\ loadedAt[w] \in 0..now
          /\ cache[w] < version => loadedAt[w] - commitTime[cache[w] + 1] <= MaxWait
      BY DEF AgeInv, ListsFresh
    <3>2. CASE cache[w] = version
      BY <2>1, <2>4, <3>1, <3>2, Constants
    <3>3. CASE cache[w] # version
      <4>1. cache[w] + 1 \in Versions /\ cache[w] + 1 # version + 1 /\ cache[w] < version
        BY <2>1, <3>1, <3>3, Constants
      <4> QED BY <2>1, <2>4, <3>1, <4>1
    <3> QED BY <3>2, <3>3
  <2>9. QuotaTookFresh'
    <3> SUFFICES ASSUME NEW q \in Requests, pc'[q] = "quota", cache[HomeOf[q]] # Empty
                 PROVE  since'[q] - loadedAt[HomeOf[q]] < TTL
      BY <2>4 DEF QuotaTookFresh
    <3>1. q # t /\ q \in Tasks
      BY <2>2, Constants
    <3> QED BY <2>3, <3>1 DEF AgeInv, QuotaTookFresh
  <2> QED BY <2>5, <2>6, <2>7, <2>8, <2>9 DEF AgeInv
<1>8. ASSUME NEW t \in Writers, Invalidate(t) PROVE AgeInv'
  <2>1. t \in Tasks /\ GoTo(t, "idle") /\ t \notin Requests /\ HomeOf[t] \in Workers
    BY <1>8, Constants DEF Invalidate
  <2>2. /\ pc'[t] = "idle"
        /\ \A u \in Tasks : u # t => pc'[u] = pc[u] /\ since'[u] = since[u]
    BY <2>1, GoToEffect
  <2>3. /\ \A w \in Workers : cache'[w] # Empty =>
               cache'[w] = cache[w] /\ loadedAt'[w] = loadedAt[w]
        /\ UNCHANGED <<now, version, commitTime, snap>>
    BY <1>8, <2>1 DEF Invalidate, TypeOK
  <2>4. \A q \in Requests : /\ q \in Tasks /\ q # t /\ HomeOf[q] \in Workers
                            /\ pc'[q] = pc[q] /\ since'[q] = since[q]
    BY <2>1, <2>2, Constants
  <2>5. CommitsPast'
    BY <2>3 DEF AgeInv, CommitsPast
  <2>6. WaitsBounded'
    <3> SUFFICES ASSUME NEW u \in Tasks, Waiting(u)'
                 PROVE  since'[u] <= now /\ now - since'[u] <= MaxWait
      BY <2>3 DEF WaitsBounded
    <3>1. u # t
      BY <2>2 DEF Waiting
    <3> QED BY <2>2, <3>1 DEF Waiting, AgeInv, WaitsBounded
  <2>7. AnswersFresh'
    BY <2>3, <2>4 DEF AgeInv, AnswersFresh
  <2>8. ListsFresh'
    BY <2>3 DEF AgeInv, ListsFresh
  <2>9. QuotaTookFresh'
    BY <2>3, <2>4 DEF AgeInv, QuotaTookFresh
  <2> QED BY <2>5, <2>6, <2>7, <2>8, <2>9 DEF AgeInv
<1>9. ASSUME NEW t \in Writers, WriteFails(t) PROVE AgeInv'
  <2>1. t \in Tasks /\ GoTo(t, "idle")
    BY <1>9, Constants DEF WriteFails
  <2>2. /\ pc'[t] = "idle"
        /\ \A u \in Tasks : u # t => pc'[u] = pc[u] /\ since'[u] = since[u]
    BY <2>1, GoToEffect
  <2> QED BY <1>9, <2>1, <2>2, AgeOfWaits DEF WriteFails
<1>10. CASE Tick
  <2>0. \A t \in Tasks : Waiting(t) => now - since[t] < MaxWait
    BY <1>10 DEF Tick, Waiting
  <2>1. /\ now' = now + 1 /\ now \in Nat
        /\ UNCHANGED <<version, commitTime, cache, loadedAt, pc, since, snap>>
    BY <1>10, Constants DEF Tick, TypeOK
  <2>2. CommitsPast'
    <3> SUFFICES ASSUME NEW v \in 1..version PROVE commitTime[v] <= now + 1
      BY <2>1 DEF CommitsPast
    <3>1. commitTime[v] <= now
      BY DEF AgeInv, CommitsPast
    <3>2. version \in Versions
      BY DEF TypeOK
    <3>3. v \in Versions
      BY <3>2, Constants
    <3>4. commitTime[v] \in Int
      BY <3>3 DEF TypeOK
    <3> QED BY <2>1, <3>1, <3>4
  <2>3. WaitsBounded'
    <3> SUFFICES ASSUME NEW t \in Tasks, Waiting(t)
                 PROVE  since[t] <= now' /\ now' - since[t] <= MaxWait
      BY <2>1 DEF WaitsBounded, Waiting
    <3>1. since[t] <= now /\ since[t] \in Int
      BY Constants DEF AgeInv, WaitsBounded, TypeOK
    <3> QED BY <2>0, <2>1, <3>1, Constants
  <2>4. AnswersFresh'
    BY <2>1 DEF AgeInv, AnswersFresh
  <2>5. ListsFresh'
    <3> SUFFICES ASSUME NEW w \in Workers, cache[w] # Empty
                 PROVE  /\ cache[w] \in 0..version /\ loadedAt[w] \in 0..now + 1
                        /\ cache[w] < version =>
                               loadedAt[w] - commitTime[cache[w] + 1] <= MaxWait
      BY <2>1 DEF ListsFresh
    <3> QED BY <2>1 DEF AgeInv, ListsFresh
  <2>6. QuotaTookFresh'
    BY <2>1 DEF AgeInv, QuotaTookFresh
  <2> QED BY <2>2, <2>3, <2>4, <2>5, <2>6 DEF AgeInv
<1>11. CASE UNCHANGED vars
  BY <1>11 DEF vars, AgeInv, CommitsPast, WaitsBounded, Waiting, AnswersFresh, ListsFresh,
               QuotaTookFresh
<1> QED BY <1>1, <1>2, <1>3, <1>4, <1>5, <1>6, <1>7, <1>8, <1>9, <1>10, <1>11
        DEF Next, RequestStep, WriterStep

LEMMA AgeInvariant == Spec => []AgeInv
<1>1. Init => AgeInv
  BY Constants DEF Init, AgeInv, CommitsPast, WaitsBounded, Waiting, AnswersFresh, ListsFresh,
                   QuotaTookFresh
<1> QED BY <1>1, AgeInductive, TypeCorrect, PTL DEF Spec

\* rules_cache_ttl_seconds bounds how long a rule write stays without effect: what a
\* request is decided by was in force less than TTL + 2 * MaxWait ago, on any worker.
THEOREM StalenessIsBounded == Spec => []BoundedStaleness
<1>1. Init => BoundedStaleness
  <2> SUFFICES ASSUME Init, NEW w \in Workers PROVE decision[w].age < TTL + 2 * MaxWait
    BY DEF BoundedStaleness
  <2>1. decision[w].age = 0
    BY DEF Init, Undecided
  <2> QED BY <2>1, Constants
<1>2. TypeOK /\ AgeInv /\ BoundedStaleness /\ [Next]_vars => BoundedStaleness'
  <2> SUFFICES ASSUME TypeOK, AgeInv, BoundedStaleness, [Next]_vars PROVE BoundedStaleness'
    OBVIOUS
  <2>1. ASSUME NEW r \in Requests, NEW rules, NEW owed, UseRules(r, rules, owed),
               OutOfDate(rules) < TTL + 2 * MaxWait
        PROVE  BoundedStaleness'
    <3>1. \A w \in Workers : \/ decision'[w] = decision[w]
                            \/ decision'[w].age = OutOfDate(rules)
      BY <2>1, UseRulesEffect
    <3> QED BY <2>1, <3>1 DEF BoundedStaleness
  <2>2. ASSUME UNCHANGED decision PROVE BoundedStaleness'
    BY <2>2 DEF BoundedStaleness
  <2>3. ASSUME NEW r \in Requests, Arrive(r) \/ Acquire(r) PROVE BoundedStaleness'
    <3>1. CASE Stale(HomeOf[r])
      BY <2>2, <2>3, <3>1 DEF Arrive, Acquire
    <3>2. CASE ~Stale(HomeOf[r])
      BY <2>1, <2>3, <3>2, FreshAge, Constants DEF Arrive, Acquire
    <3> QED BY <3>1, <3>2
  <2>4. ASSUME NEW r \in Requests, Install(r) PROVE BoundedStaleness'
    BY <2>1, <2>4, AnswerAge DEF Install
  <2>5. ASSUME NEW r \in Requests, QuotaReturns(r) PROVE BoundedStaleness'
    <3>1. Decide(r, cache[HomeOf[r]], ticket[r].taken, ticket[r].owed) /\ pc[r] = "quota"
      BY <2>5 DEF QuotaReturns
    <3>2. OutOfDate(cache[HomeOf[r]]) < TTL + 2 * MaxWait
      BY <3>1, QuotaAge
    <3>3. ASSUME NEW w \in Workers PROVE decision'[w].age < TTL + 2 * MaxWait
      <4>1. CASE w = HomeOf[r]
        BY <3>1, <3>2, <4>1, DecideEffect
      <4>2. CASE w # HomeOf[r]
        BY <3>1, <4>2, DecideEffect DEF BoundedStaleness
      <4> QED BY <4>1, <4>2
    <3> QED BY <3>3 DEF BoundedStaleness
  <2>6. ASSUME NEW r \in Requests, QueryReads(r) \/ RequestFails(r) PROVE BoundedStaleness'
    BY <2>2, <2>6 DEF QueryReads, RequestFails
  <2>7. ASSUME NEW t \in Writers, WriterStep(t) PROVE BoundedStaleness'
    BY <2>2, <2>7 DEF WriterStep, Commit, Invalidate, WriteFails
  <2>8. CASE Tick \/ UNCHANGED vars
    BY <2>2, <2>8 DEF Tick, vars
  <2> QED BY <2>3, <2>4, <2>5, <2>6, <2>7, <2>8 DEF Next, RequestStep
<1> QED BY <1>1, <1>2, AgeInvariant, TypeCorrect, PTL DEF Spec

-----------------------------------------------------------------------------
(***************************************************************************)
(* The order of the rules.  The lock makes the refreshes of a worker take  *)
(* turns, so an answer that arrives is at least as new as the list it      *)
(* replaces and as everything that was decided by it.                      *)
(***************************************************************************)

LockHeld ==
    \A r \in Requests : pc[r] \in {"query", "answered"} => lock[HomeOf[r]] = r

\* The rules v are as new as any a request of worker w was decided by.
Newest(v, w) == v \in 0..version /\ decision[w].rules <= v /\ decision[w].before <= v

DatabaseNewest == \A w \in Workers : Newest(version, w)
ListsNewest == \A w \in Workers : cache[w] # Empty => Newest(cache[w], w)
AnswersNewest ==
    \A r \in Requests : pc[r] = "answered" =>
        Newest(snap[r], HomeOf[r]) /\ cache[HomeOf[r]] <= snap[r]

OrderInv ==
    LockHeld /\ DatabaseNewest /\ ListsNewest /\ AnswersNewest /\ NeverBackwards

\* The types of what is compared.
LEMMA OrderTypes ==
    TypeOK => /\ version \in Nat /\ version \in Versions /\ Rules \subseteq Int
              /\ \A v \in Rules : v = Empty \/ v >= 0
              /\ \A w \in Workers : /\ cache[w] \in Rules /\ decision[w].rules \in Rules
                                    /\ decision[w].before \in Rules
              /\ \A r \in Requests : snap[r] \in Rules /\ HomeOf[r] \in Workers /\ r \in Tasks
<1>1. TypeOK => \A w \in Workers : decision[w] \in Decisions
  BY DEF TypeOK
<1>2. TypeOK => \A w \in Workers : decision[w].rules \in Rules /\ decision[w].before \in Rules
  BY <1>1 DEF Decisions
<1>3. Rules \subseteq Int /\ \A v \in Rules : v = Empty \/ v >= 0
  BY Constants DEF Rules
<1>4. TypeOK => /\ version \in Nat /\ version \in Versions
                /\ \A w \in Workers : cache[w] \in Rules
                /\ \A r \in Requests : snap[r] \in Rules
  BY Constants DEF TypeOK
<1>5. \A r \in Requests : HomeOf[r] \in Workers /\ r \in Tasks
  BY Constants
<1> QED BY <1>2, <1>3, <1>4, <1>5

\* What a decision leaves as the newest rules of a worker.
DecidedBy(r, rules) ==
    \A w \in Workers :
        \/ decision'[w] = decision[w]
        \/ /\ w = HomeOf[r] /\ decision'[w].rules = rules
           /\ decision'[w].before = Newer(decision[w].rules, decision[w].before)

LEMMA DecisionBounded ==
    ASSUME TypeOK, NEW r \in Requests, NEW rules \in Rules, DecidedBy(r, rules),
           NEW w \in Workers, NEW v, Newest(v, w), w = HomeOf[r] => rules <= v
    PROVE  v \in 0..version /\ decision'[w].rules <= v /\ decision'[w].before <= v
BY DEF DecidedBy, Newest, Newer

\* A step that takes or decides by rules as new as any on the worker, and that leaves
\* them as its list, keeps the order.
LEMMA OrderOfDecision ==
    ASSUME TypeOK, OrderInv, NEW r \in Requests, NEW rules \in Rules, DecidedBy(r, rules),
           rules = Empty \/ Newest(rules, HomeOf[r]),
           version' = version, cache'[HomeOf[r]] = rules,
           \A w \in Workers : w # HomeOf[r] => cache'[w] = cache[w],
           \A q \in Requests : pc'[q] = "answered" =>
               /\ pc[q] = "answered" /\ snap'[q] = snap[q]
               /\ HomeOf[q] = HomeOf[r] => rules <= snap[q],
           LockHeld'
    PROVE  OrderInv'
<1>0. /\ version \in Nat /\ rules \in Int /\ (rules # Empty => rules <= version)
      /\ (rules = Empty => rules <= version)
  BY OrderTypes, Constants DEF Newest
<1>1. DatabaseNewest'
  <2> SUFFICES ASSUME NEW w \in Workers
               PROVE  decision'[w].rules <= version /\ decision'[w].before <= version
                      /\ version \in 0..version
    BY DEF DatabaseNewest, Newest
  <2>1. Newest(version, w)
    BY DEF OrderInv, DatabaseNewest
  <2> QED BY <1>0, <2>1, DecisionBounded
<1>2. ListsNewest'
  <2> SUFFICES ASSUME NEW w \in Workers, cache'[w] # Empty
               PROVE  /\ cache'[w] \in 0..version
                      /\ decision'[w].rules <= cache'[w] /\ decision'[w].before <= cache'[w]
    BY DEF ListsNewest, Newest
  <2>1. CASE w = HomeOf[r]
    <3>1. Newest(rules, w) /\ cache'[w] = rules /\ rules <= rules
      BY <1>0, <2>1
    <3> QED BY <3>1, DecisionBounded
  <2>2. CASE w # HomeOf[r]
    <3>1. Newest(cache[w], w) /\ cache'[w] = cache[w]
      BY <2>2 DEF OrderInv, ListsNewest
    <3> QED BY <2>2, <3>1, DecisionBounded
  <2> QED BY <2>1, <2>2
<1>3. AnswersNewest'
  <2> SUFFICES ASSUME NEW q \in Requests, pc'[q] = "answered"
               PROVE  /\ snap'[q] \in 0..version
                      /\ decision'[HomeOf[q]].rules <= snap'[q]
                      /\ decision'[HomeOf[q]].before <= snap'[q]
                      /\ cache'[HomeOf[q]] <= snap'[q]
    BY DEF AnswersNewest, Newest
  <2>1. /\ pc[q] = "answered" /\ snap'[q] = snap[q] /\ HomeOf[q] \in Workers
        /\ HomeOf[q] = HomeOf[r] => rules <= snap[q]
    BY Constants
  <2>2. Newest(snap[q], HomeOf[q]) /\ cache[HomeOf[q]] <= snap[q]
    BY <2>1 DEF OrderInv, AnswersNewest
  <2>3. /\ snap[q] \in 0..version /\ decision'[HomeOf[q]].rules <= snap[q]
        /\ decision'[HomeOf[q]].before <= snap[q]
    BY <2>1, <2>2, DecisionBounded
  <2>4. cache'[HomeOf[q]] <= snap[q]
    BY <2>1, <2>2
  <2> QED BY <2>1, <2>3, <2>4
<1>4. NeverBackwards'
  <2> SUFFICES ASSUME NEW w \in Workers
               PROVE  decision'[w].rules = Empty \/ decision'[w].rules >= decision'[w].before
    BY DEF NeverBackwards
  <2>1. CASE decision'[w] = decision[w]
    BY <2>1 DEF OrderInv, NeverBackwards
  <2>2. CASE decision'[w] # decision[w] /\ rules # Empty
    <3>1. /\ w = HomeOf[r] /\ decision'[w].rules = rules
          /\ decision'[w].before = Newer(decision[w].rules, decision[w].before)
      BY <2>2 DEF DecidedBy
    <3>2. decision[w].rules <= rules /\ decision[w].before <= rules
      BY <2>2, <3>1 DEF Newest
    <3>3. Newer(decision[w].rules, decision[w].before) <= rules
      BY <3>2 DEF Newer
    <3>4. decision[w].rules \in Int /\ decision[w].before \in Int
      BY OrderTypes
    <3> QED BY <1>0, <3>1, <3>3, <3>4 DEF Newer
  <2>3. CASE decision'[w] # decision[w] /\ rules = Empty
    BY <2>3 DEF DecidedBy
  <2> QED BY <2>1, <2>2, <2>3
<1> QED BY <1>1, <1>2, <1>3, <1>4 DEF OrderInv

\* A step that decides nothing and at most empties lists keeps it as well.
LEMMA OrderOfWait ==
    ASSUME TypeOK, OrderInv, UNCHANGED decision,
           version' = version \/ version' = version + 1,
           \A w \in Workers : cache'[w] = cache[w] \/ cache'[w] = Empty,
           \A q \in Requests :
               pc'[q] = "answered" => pc[q] = "answered" /\ snap'[q] = snap[q],
           LockHeld'
    PROVE  OrderInv'
<1>1. version \in Nat /\ \A v \in Int : v \in 0..version => v \in 0..version'
  BY OrderTypes
<1>2. DatabaseNewest'
  <2> SUFFICES ASSUME NEW w \in Workers
               PROVE  /\ version' \in 0..version'
                      /\ decision[w].rules <= version' /\ decision[w].before <= version'
    BY DEF DatabaseNewest, Newest
  <2>1. Newest(version, w) /\ decision[w].rules \in Int /\ decision[w].before \in Int
    BY OrderTypes DEF OrderInv, DatabaseNewest
  <2> QED BY <1>1, <2>1 DEF Newest
<1>3. ListsNewest'
  <2> SUFFICES ASSUME NEW w \in Workers, cache'[w] # Empty
               PROVE  /\ cache[w] \in 0..version'
                      /\ decision[w].rules <= cache[w] /\ decision[w].before <= cache[w]
                      /\ cache'[w] = cache[w]
    BY DEF ListsNewest, Newest
  <2>1. cache'[w] = cache[w] /\ Newest(cache[w], w)
    BY DEF OrderInv, ListsNewest
  <2> QED BY <1>1, <2>1 DEF Newest
<1>4. AnswersNewest'
  <2> SUFFICES ASSUME NEW q \in Requests, pc'[q] = "answered"
               PROVE  /\ snap'[q] \in 0..version'
                      /\ decision[HomeOf[q]].rules <= snap'[q]
                      /\ decision[HomeOf[q]].before <= snap'[q]
                      /\ cache'[HomeOf[q]] <= snap'[q]
    BY DEF AnswersNewest, Newest
  <2>1. /\ snap'[q] = snap[q] /\ HomeOf[q] \in Workers
        /\ Newest(snap[q], HomeOf[q]) /\ cache[HomeOf[q]] <= snap[q]
    BY Constants DEF OrderInv, AnswersNewest
  <2>2. cache'[HomeOf[q]] <= snap[q]
    <3>1. cache'[HomeOf[q]] = cache[HomeOf[q]] \/ cache'[HomeOf[q]] = Empty
      BY <2>1
    <3> QED BY <1>1, <2>1, <3>1, Constants DEF Newest
  <2> QED BY <1>1, <2>1, <2>2 DEF Newest
<1>5. NeverBackwards'
  BY DEF OrderInv, NeverBackwards
<1> QED BY <1>2, <1>3, <1>4, <1>5 DEF OrderInv

\* Only the request that holds the lock reads the database.
LEMMA OneReader ==
    ASSUME OrderInv, NEW q \in Requests, NEW r \in Requests, q # r,
           pc[q] \in {"query", "answered"}, pc[r] \in {"query", "answered"}
    PROVE  HomeOf[q] # HomeOf[r]
BY DEF OrderInv, LockHeld

\* A task that stops reading, or never was, leaves the others the lock.
LEMMA LockKept ==
    ASSUME TypeOK, OrderInv, NEW r \in Tasks, pc'[r] \notin {"query", "answered"},
           \A t \in Tasks : t # r => pc'[t] = pc[t],
           \A q \in Requests : q # r /\ lock[HomeOf[q]] = q => lock'[HomeOf[q]] = q
    PROVE  LockHeld'
BY Constants DEF OrderInv, LockHeld

\* A request that takes or decides by its worker's list.
LEMMA OrderOfUse ==
    ASSUME TypeOK, OrderInv, NEW r \in Requests, DecidedBy(r, cache[HomeOf[r]]),
           pc'[r] \in {"idle", "quota"}, \A t \in Tasks : t # r => pc'[t] = pc[t],
           UNCHANGED <<version, cache, lock, snap>>
    PROVE  OrderInv'
<1>1. r \in Tasks /\ HomeOf[r] \in Workers /\ cache[HomeOf[r]] \in Rules
  BY OrderTypes, Constants
<1>2. LockHeld'
  BY <1>1, LockKept
<1>3. cache[HomeOf[r]] = Empty \/ Newest(cache[HomeOf[r]], HomeOf[r])
  BY <1>1 DEF OrderInv, ListsNewest
<1>4. ASSUME NEW q \in Requests, pc'[q] = "answered"
      PROVE  /\ pc[q] = "answered" /\ snap'[q] = snap[q]
             /\ HomeOf[q] = HomeOf[r] => cache[HomeOf[r]] <= snap[q]
  BY <1>4, Constants DEF OrderInv, AnswersNewest
<1> QED BY <1>1, <1>2, <1>3, <1>4, OrderOfDecision

LEMMA OrderInductive == TypeOK /\ OrderInv /\ [Next]_vars => OrderInv'
<1> SUFFICES ASSUME TypeOK, OrderInv, [Next]_vars PROVE OrderInv'
  OBVIOUS
<1>1. ASSUME NEW r \in Requests, NEW owed, UseRules(r, cache[HomeOf[r]], owed),
             UNCHANGED <<version, cache, lock, snap>>
      PROVE  OrderInv'
  <2>1. /\ pc'[r] \in {"idle", "quota"}
        /\ \A t \in Tasks : t # r => pc'[t] = pc[t]
    BY <1>1, UseRulesEffect
  <2>2. DecidedBy(r, cache[HomeOf[r]])
    BY <1>1, UseRulesEffect DEF DecidedBy
  <2> QED BY <1>1, <2>1, <2>2, OrderOfUse
<1>2. ASSUME NEW r \in Requests, Arrive(r) PROVE OrderInv'
  <2>1. CASE Stale(HomeOf[r])
    <3>1. r \in Tasks /\ GoTo(r, "locking")
      BY <1>2, <2>1, Constants DEF Arrive
    <3>2. pc'[r] = "locking" /\ \A t \in Tasks : t # r => pc'[t] = pc[t]
      BY <3>1, GoToEffect
    <3>3. UNCHANGED <<version, cache, lock, snap, decision>>
      BY <1>2, <2>1 DEF Arrive
    <3>4. LockHeld'
      BY <3>1, <3>2, <3>3, LockKept
    <3> QED BY <3>1, <3>2, <3>3, <3>4, OrderOfWait, Constants
  <2>2. CASE ~Stale(HomeOf[r])
    BY <1>1, <1>2, <2>2 DEF Arrive
  <2> QED BY <2>1, <2>2
<1>3. ASSUME NEW r \in Requests, Acquire(r) PROVE OrderInv'
  <2>1. CASE Stale(HomeOf[r])
    <3>1. r \in Tasks /\ GoTo(r, "query") /\ HomeOf[r] \in Workers
      BY <1>3, <2>1, Constants DEF Acquire
    <3>2. pc'[r] = "query" /\ \A t \in Tasks : t # r => pc'[t] = pc[t]
      BY <3>1, GoToEffect
    <3>3. /\ UNCHANGED <<version, cache, snap, decision>> /\ lock[HomeOf[r]] = Nobody
          /\ lock' = [lock EXCEPT ![HomeOf[r]] = r]
      BY <1>3, <2>1 DEF Acquire
    <3>4. LockHeld'
      <4> SUFFICES ASSUME NEW q \in Requests, pc'[q] \in {"query", "answered"}
                   PROVE  lock'[HomeOf[q]] = q
        BY DEF LockHeld
      <4>1. CASE q = r
        BY <3>1, <3>3, <4>1 DEF TypeOK
      <4>2. CASE q # r
        <5>1. lock[HomeOf[q]] = q /\ HomeOf[q] \in Workers
          BY <3>2, <4>2, Constants DEF OrderInv, LockHeld
        <5>2. HomeOf[q] # HomeOf[r]
          BY <3>3, <5>1, Constants
        <5> QED BY <3>3, <5>1, <5>2 DEF TypeOK
      <4> QED BY <4>1, <4>2
    <3> QED BY <3>1, <3>2, <3>3, <3>4, OrderOfWait, Constants
  <2>2. CASE ~Stale(HomeOf[r])
    BY <1>1, <1>3, <2>2 DEF Acquire
  <2> QED BY <2>1, <2>2
<1>4. ASSUME NEW r \in Requests, QueryReads(r) PROVE OrderInv'
  <2>1. /\ pc[r] = "query" /\ r \in Tasks /\ HomeOf[r] \in Workers
        /\ pc' = [pc EXCEPT ![r] = "answered"] /\ snap' = [snap EXCEPT ![r] = version]
        /\ UNCHANGED <<version, cache, lock, decision>>
    BY <1>4, Constants DEF QueryReads
  <2>2. LockHeld'
    BY <2>1 DEF OrderInv, LockHeld, TypeOK
  <2>3. DatabaseNewest' /\ ListsNewest' /\ NeverBackwards'
    BY <2>1 DEF OrderInv, DatabaseNewest, ListsNewest, NeverBackwards, Newest
  <2>4. AnswersNewest'
    <3> SUFFICES ASSUME NEW q \in Requests, pc'[q] = "answered"
                 PROVE  /\ snap'[q] \in 0..version
                        /\ decision[HomeOf[q]].rules <= snap'[q]
                        /\ decision[HomeOf[q]].before <= snap'[q]
                        /\ cache[HomeOf[q]] <= snap'[q]
      BY <2>1 DEF AnswersNewest, Newest
    <3>1. CASE q = r
      <4>1. snap'[q] = version
        BY <2>1, <3>1 DEF TypeOK
      <4>2. Newest(version, HomeOf[r])
        BY <2>1 DEF OrderInv, DatabaseNewest
      <4>3. cache[HomeOf[r]] <= version
        <5>1. version \in Nat /\ cache[HomeOf[r]] \in Int
          BY <2>1, OrderTypes
        <5>2. cache[HomeOf[r]] # Empty => cache[HomeOf[r]] \in 0..version
          BY <2>1 DEF OrderInv, ListsNewest, Newest
        <5> QED BY <5>1, <5>2, Constants
      <4> QED BY <3>1, <4>1, <4>2, <4>3 DEF Newest
    <3>2. CASE q # r
      <4>1. pc[q] = "answered" /\ snap'[q] = snap[q]
        BY <2>1, <3>2, Constants DEF TypeOK
      <4> QED BY <4>1 DEF OrderInv, AnswersNewest, Newest
    <3> QED BY <3>1, <3>2
  <2> QED BY <2>2, <2>3, <2>4 DEF OrderInv
<1>5. ASSUME NEW r \in Requests, Install(r) PROVE OrderInv'
  <2>1. /\ pc[r] = "answered" /\ r \in Tasks /\ HomeOf[r] \in Workers /\ snap[r] \in Rules
        /\ cache' = [cache EXCEPT ![HomeOf[r]] = snap[r]]
        /\ lock' = [lock EXCEPT ![HomeOf[r]] = Nobody]
        /\ snap' = [snap EXCEPT ![r] = Empty]
        /\ UseRules(r, snap[r], ticket[r].owed) /\ version' = version
    BY <1>5, OrderTypes DEF Install
  <2>2. /\ pc'[r] \in {"idle", "quota"}
        /\ \A t \in Tasks : t # r => pc'[t] = pc[t]
    BY <2>1, UseRulesEffect
  <2>3. DecidedBy(r, snap[r])
    BY <2>1, UseRulesEffect DEF DecidedBy
  <2>4. Newest(snap[r], HomeOf[r]) /\ lock[HomeOf[r]] = r
    BY <2>1 DEF OrderInv, AnswersNewest, LockHeld
  <2>5. LockHeld'
    <3>1. ASSUME NEW q \in Requests, q # r, lock[HomeOf[q]] = q PROVE lock'[HomeOf[q]] = q
      BY <2>1, <2>4, <3>1, Constants DEF TypeOK
    <3> QED BY <2>1, <2>2, <3>1, LockKept
  <2>6. ASSUME NEW q \in Requests, pc'[q] = "answered"
        PROVE  /\ pc[q] = "answered" /\ snap'[q] = snap[q]
               /\ HomeOf[q] = HomeOf[r] => snap[r] <= snap[q]
    <3>1. q # r /\ pc[q] = "answered"
      BY <2>2, <2>6, Constants
    <3> QED BY <2>1, <3>1, OneReader DEF TypeOK
  <2>7. /\ cache'[HomeOf[r]] = snap[r]
        /\ \A w \in Workers : w # HomeOf[r] => cache'[w] = cache[w]
    BY <2>1 DEF TypeOK
  <2> QED BY <2>1, <2>3, <2>4, <2>5, <2>6, <2>7, OrderOfDecision
<1>6. ASSUME NEW r \in Requests, RequestFails(r) PROVE OrderInv'
  <2>1. r \in Tasks /\ GoTo(r, "idle")
        /\ lock' = [lock EXCEPT ![HomeOf[r]] = IF @ = r THEN Nobody ELSE @]
        /\ snap' = [snap EXCEPT ![r] = Empty] /\ UNCHANGED <<version, cache, decision>>
    BY <1>6, Constants DEF RequestFails
  <2>2. pc'[r] = "idle" /\ \A t \in Tasks : t # r => pc'[t] = pc[t]
    BY <2>1, GoToEffect
  <2>3. ASSUME NEW q \in Requests, q # r, lock[HomeOf[q]] = q PROVE lock'[HomeOf[q]] = q
    BY <2>1, <2>3, Constants DEF TypeOK
  <2>4. LockHeld'
    BY <2>1, <2>2, <2>3, LockKept
  <2>5. \A q \in Requests : q # r => snap'[q] = snap[q] /\ q \in Tasks
    BY <2>1, Constants DEF TypeOK
  <2> QED BY <2>1, <2>2, <2>4, <2>5, OrderOfWait
<1>7. ASSUME NEW r \in Requests, QuotaReturns(r) PROVE OrderInv'
  <2>1. Decide(r, cache[HomeOf[r]], ticket[r].taken, ticket[r].owed)
        /\ UNCHANGED <<version, cache, lock, snap>>
    BY <1>7 DEF QuotaReturns
  <2>2. pc'[r] \in {"idle", "quota"} /\ \A t \in Tasks : t # r => pc'[t] = pc[t]
    BY <2>1, DecideEffect
  <2>3. ASSUME NEW w \in Workers
        PROVE  \/ decision'[w] = decision[w]
               \/ /\ w = HomeOf[r] /\ decision'[w].rules = cache[HomeOf[r]]
                  /\ decision'[w].before = Newer(decision[w].rules, decision[w].before)
    <3>1. CASE w = HomeOf[r]
      BY <2>1, <3>1, DecideEffect
    <3>2. CASE w # HomeOf[r]
      BY <2>1, <3>2, DecideEffect
    <3> QED BY <3>1, <3>2
  <2> QED BY <2>1, <2>2, <2>3, OrderOfUse DEF DecidedBy
<1>8. ASSUME NEW t \in Writers, WriterStep(t) PROVE OrderInv'
  <2>1. PICK l \in {"idle", "committed"} : GoTo(t, l)
    BY <1>8 DEF WriterStep, Commit, Invalidate, WriteFails
  <2>2. /\ UNCHANGED <<lock, snap, decision>> /\ (version' = version \/ version' = version + 1)
        /\ \A w \in Workers : cache'[w] = cache[w] \/ cache'[w] = Empty
    BY <1>8, Constants DEF WriterStep, Commit, Invalidate, WriteFails, TypeOK
  <2>3. t \in Tasks /\ pc'[t] \notin {"query", "answered"}
        /\ \A u \in Tasks : u # t => pc'[u] = pc[u]
    BY <2>1, GoToEffect, Constants
  <2>4. LockHeld'
    BY <2>2, <2>3, LockKept
  <2> QED BY <2>2, <2>3, <2>4, OrderOfWait, Constants
<1>9. CASE Tick \/ UNCHANGED vars
  <2>1. UNCHANGED <<version, cache, lock, pc, snap, decision>>
    BY <1>9 DEF Tick, vars
  <2>2. LockHeld'
    BY <2>1 DEF OrderInv, LockHeld
  <2> QED BY <2>1, <2>2, OrderOfWait
<1> QED BY <1>2, <1>3, <1>4, <1>5, <1>6, <1>7, <1>8, <1>9 DEF Next, RequestStep

\* refresh_rules_cache under _cache_lock: no request is decided by rules older than
\* those of a request its worker decided before.
THEOREM RulesNeverGoBackwards == Spec => []NeverBackwards
<1>1. Init => OrderInv
  <2> SUFFICES ASSUME Init PROVE OrderInv
    OBVIOUS
  <2>1. \A w \in Workers : decision[w].rules = -1 /\ decision[w].before = -1 /\ cache[w] = -1
    BY Constants DEF Init, Undecided
  <2>2. version = 0 /\ \A r \in Requests : pc[r] = "idle"
    BY Constants DEF Init
  <2> QED BY <2>1, <2>2, Constants
          DEF OrderInv, LockHeld, DatabaseNewest, ListsNewest, AnswersNewest, NeverBackwards,
              Newest
<1>2. OrderInv => NeverBackwards
  BY DEF OrderInv
<1> QED BY <1>1, <1>2, OrderInductive, TypeCorrect, PTL DEF Spec

-----------------------------------------------------------------------------
(* The caches of provider clients. *)

\* A cached client is filed under its own key, in the cache of its provider, and a
\* LangChain client has an address that was let through, or none of its own.
EntriesFit ==
    \A w \in Processes, p \in Providers : \A i \in DOMAIN clients[w][p] :
        /\ clients[w][p][i].client.key = <<p, clients[w][p][i].key>>
        /\ p = "openai" => clients[w][p][i].client.address \in Allowed \cup {None}

\* A request that has arrived has its worker, its model and its configuration; one that
\* is done has a client that fits.
RequestsFit ==
    \A r \in ClientRequests :
        /\ req[r].pc # "new" => /\ req[r].worker \in Processes /\ req[r].model \in Models
                                /\ req[r].params \in Params /\ req[r].config \in Configs
        /\ Done(r) => /\ req[r].client.key = ClientOf(r).key
                      /\ req[r].config.provider = "openai" => req[r].client.address \in Allowed \cup {None}

WritersFit ==
    \A a \in Administrators : writer[a].pc = "clear" =>
        writer[a].worker \in Processes /\ writer[a].secret \in Secrets

\* What a request has read of a secret is no older than the last quiet clear, and the
\* clear no younger than the secret.
FreshInv ==
    /\ \A w \in Processes, s \in Secrets : clean[w][s] <= secret[s].version
    /\ \A r \in ClientRequests :
          req[r].pc = "resolved" /\ req[r].version > 0 /\ req[r].config.secret # None =>
              req[r].version >= clean[req[r].worker][req[r].config.secret]

FitsIn == \A w \in Processes, p \in Providers : Len(clients[w][p]) <= Capacity

Inv == ClientTypeOK /\ EntriesFit /\ RequestsFit /\ WritersFit /\ FitsIn

-----------------------------------------------------------------------------
(* Requests and what is asked of the cache. *)

ConfigType == [provider : {"bedrock", "openai"}, upstream : Upstreams, address : Addresses \cup {None},
               account : Accounts, secret : Secrets \cup {None}]

\* The key and the client of a request have their types, and the client its key.
LEMMA ClientFacts ==
    ASSUME Inv, NEW r \in ClientRequests, req[r].pc # "new"
    PROVE  /\ req[r].worker \in Processes /\ req[r].config \in Configs
           /\ req[r].config \in ConfigType /\ req[r].config.provider \in Providers
           /\ req[r].version \in Nat
           /\ KeyOf(r) \in Keys /\ ClientOf(r) \in ClientType
           /\ ClientOf(r).key = <<req[r].config.provider, KeyOf(r)>>
           /\ ClientOf(r).address = req[r].config.address
           /\ ClientOf(r).secret = req[r].config.secret
           /\ ClientOf(r).version = req[r].version
<1>1. /\ req[r].worker \in Processes /\ req[r].model \in Models /\ req[r].params \in Params
      /\ req[r].config \in Configs /\ req[r].version \in Nat
  BY DEF Inv, RequestsFit, ClientTypeOK, RequestType
<1>2. req[r].config \in ConfigType /\ req[r].config.provider \in Providers
  BY <1>1, CacheAssumption DEF ConfigType, Providers
<1>3. KeyOf(r) \in Keys
  BY <1>1, <1>2 DEF KeyOf, Keys, ConfigType
<1> DEFINE c == req[r].config
           k == <<c.provider, KeyOf(r)>>
           u == IF c.provider = "bedrock" THEN None ELSE c.upstream
<1>4. ClientOf(r) = [key |-> k, upstream |-> u, address |-> c.address, secret |-> c.secret,
                     version |-> req[r].version]
  BY DEF ClientOf, KeyOf
<1>5. k \in Providers \X Keys
  BY <1>2, <1>3
<1>6. u \in Upstreams \cup {None} /\ c.address \in Addresses \cup {None} /\ c.secret \in Secrets \cup {None}
  BY <1>2 DEF ConfigType
<1> HIDE DEF k, u, c
<1>7. ClientOf(r) \in ClientType
  BY <1>1, <1>4, <1>5, <1>6 DEF ClientType, c
<1>8. /\ ClientOf(r).key = k /\ ClientOf(r).address = c.address
      /\ ClientOf(r).secret = c.secret /\ ClientOf(r).version = req[r].version
  BY <1>4
<1> QED
  BY <1>1, <1>2, <1>3, <1>7, <1>8 DEF k, c

\* The three outcomes of asking the cache.
Hit(r, i) ==
    LET w == req[r].worker
        p == req[r].config.provider
        C == clients[w][p] IN
    /\ i \in DOMAIN C /\ C[i].key = KeyOf(r)
    /\ req' = [req EXCEPT ![r].pc = "done", ![r].client = C[i].client]
    /\ clients' = [clients EXCEPT ![w][p] = Touched(C, i)]
    /\ served' = [served EXCEPT ![w][p] = Append(@, KeyOf(r))]
Miss(r) ==
    LET w == req[r].worker
        p == req[r].config.provider
        C == clients[w][p]
        e == [key |-> KeyOf(r), client |-> ClientOf(r)] IN
    /\ ~Cached(C, KeyOf(r)) /\ ~Refused(r)
    /\ req' = [req EXCEPT ![r].pc = "done", ![r].client = ClientOf(r)]
    /\ clients' = [clients EXCEPT ![w][p] = Inserted(C, e)]
    /\ served' = [served EXCEPT ![w][p] = Append(@, KeyOf(r))]
Refusal(r) ==
    /\ Refused(r)
    /\ req' = [req EXCEPT ![r].pc = "refused"]
    /\ UNCHANGED <<clients, served>>

Gets(r) == (\E i : Hit(r, i)) \/ Miss(r)
OwnEntry(r) == [key |-> KeyOf(r), client |-> ClientOf(r)]

LEMMA GetClientCases ==
    ASSUME NEW r \in ClientRequests, GetClient(r)
    PROVE  /\ req[r].pc = "resolved"
           /\ UNCHANGED <<config, secret, writer, changes, arrivals, clean>>
           /\ Gets(r) \/ Refusal(r)
<1> DEFINE C == clients[req[r].worker][req[r].config.provider]
           i == PlaceOf(C, KeyOf(r))
<1>1. CASE Cached(C, KeyOf(r))
  <2>1. i \in DOMAIN C /\ C[i].key = KeyOf(r)
    BY <1>1 DEF Cached, PlaceOf
  <2>2. Hit(r, i)
    BY <1>1, <2>1 DEF GetClient, Hit
  <2> QED
    BY <2>2 DEF GetClient, Gets
<1>2. CASE ~Cached(C, KeyOf(r))
  BY <1>2 DEF GetClient, Miss, Refusal, Gets
<1> QED
  BY <1>1, <1>2

-----------------------------------------------------------------------------
(* The cache as a sequence. *)

\* Moving an entry to the end keeps the others in their order.
LEMMA TouchedFacts ==
    ASSUME NEW E, NEW C \in Seq(E), NEW i \in DOMAIN C
    PROVE  /\ Touched(C, i) \in Seq(E) /\ Len(Touched(C, i)) = Len(C)
           /\ \A j \in 1..Len(C) : Touched(C, i)[j] =
                 IF j < i THEN C[j] ELSE IF j < Len(C) THEN C[j + 1] ELSE C[i]
<1> DEFINE n == Len(C)
           A == SubSeq(C, 1, i - 1)
           B == SubSeq(C, i + 1, n)
           R == A \o B
<1>1. n \in Nat /\ i \in 1..n /\ C[i] \in E
  OBVIOUS
<1>2. /\ A \in Seq(E) /\ Len(A) = i - 1
      /\ \A j \in 1..(i - 1) : A[j] = C[j]
  BY <1>1
<1>3. /\ B \in Seq(E) /\ Len(B) = n - i
      /\ \A j \in 1..(n - i) : B[j] = C[i + j]
  BY <1>1
<1> HIDE DEF A, B
<1>4. /\ R \in Seq(E) /\ Len(R) = n - 1
      /\ \A j \in 1..(n - 1) : R[j] = IF j < i THEN C[j] ELSE C[j + 1]
  <2>1. R \in Seq(E) /\ Len(R) = n - 1
    BY <1>1, <1>2, <1>3, ConcatProperties
  <2>2. \A j \in 1..(n - 1) : R[j] = IF j <= i - 1 THEN A[j] ELSE B[j - (i - 1)]
    BY <1>1, <1>2, <1>3, ConcatProperties
  <2>3. \A j \in 1..(n - 1) : /\ j < i => j \in 1..(i - 1) /\ j <= i - 1
                              /\ ~(j < i) => /\ j - (i - 1) \in 1..(n - i) /\ ~(j <= i - 1)
                                             /\ i + (j - (i - 1)) = j + 1
    BY <1>1
  <2> QED
    BY <1>2, <1>3, <2>1, <2>2, <2>3
<1>5. Touched(C, i) = Append(R, C[i])
  BY DEF Touched, RemoveAt, A, B
<1> HIDE DEF R
<1>6. /\ Append(R, C[i]) \in Seq(E) /\ Len(Append(R, C[i])) = n
      /\ \A j \in 1..n : Append(R, C[i])[j] = IF j < n THEN R[j] ELSE C[i]
  BY <1>1, <1>4
<1>7. \A j \in 1..n : j < n => j \in 1..(n - 1)
  BY <1>1
<1> QED
  BY <1>1, <1>4, <1>5, <1>6, <1>7

\* A new entry goes to the end, in the place of the first one if the cache is full.
Grown(D, C, e) ==
    /\ Len(D) \in Nat \ {0} /\ D[Len(D)] = e
    /\ \/ /\ Len(C) < Capacity /\ Len(D) = Len(C) + 1
          /\ \A j \in 1..Len(C) : D[j] = C[j]
       \/ /\ Len(C) = Capacity /\ Len(D) = Capacity
          /\ \A j \in 1..(Capacity - 1) : D[j] = C[j + 1]

LEMMA InsertedFacts ==
    ASSUME NEW E, NEW C \in Seq(E), NEW e \in E, Len(C) <= Capacity
    PROVE  Inserted(C, e) \in Seq(E) /\ Grown(Inserted(C, e), C, e)
<1> USE DEF Grown
<1>1. Capacity \in Nat \ {0} /\ Len(C) \in Nat
  BY CacheAssumption
<1>2. CASE Len(C) < Capacity
  <2>1. Inserted(C, e) = Append(C, e)
    BY <1>1, <1>2 DEF Inserted
  <2> QED
    BY <1>1, <1>2, <2>1
<1>3. CASE Len(C) = Capacity
  <2> DEFINE T == Tail(C)
  <2>1. Inserted(C, e) = Append(T, e)
    BY <1>1, <1>3 DEF Inserted
  <2>2. /\ T \in Seq(E) /\ Len(T) = Capacity - 1
        /\ \A j \in 1..(Capacity - 1) : T[j] = C[j + 1]
    BY <1>1, <1>3
  <2> HIDE DEF T
  <2> QED
    BY <1>1, <1>3, <2>1, <2>2
<1> QED
  BY <1>1, <1>2, <1>3

\* A request that gets a client changes one cache: what is there afterwards was there
\* before or is the request's own entry, and its client is one of them.
FoundOrOwn(x, C, r) ==
    \/ x = OwnEntry(r) /\ ~Refused(r)
    \/ \E i \in DOMAIN C : x = C[i]

Asked(r, w, p) ==
    /\ w \in Processes /\ p \in Providers /\ OwnEntry(r) \in EntryType
    /\ clients' \in [Processes -> [Providers -> Seq(EntryType)]]
    /\ served' \in [Processes -> [Providers -> Seq(Keys)]]
    /\ \A v \in Processes, q \in Providers : v # w \/ q # p =>
          clients'[v][q] = clients[v][q] /\ served'[v][q] = served[v][q]
    /\ served'[w][p] = Append(served[w][p], KeyOf(r))
    /\ Len(clients'[w][p]) <= Capacity
    /\ \A j \in DOMAIN clients'[w][p] : FoundOrOwn(clients'[w][p][j], clients[w][p], r)
    /\ \E x \in EntryType :
          /\ req' = [req EXCEPT ![r].pc = "done", ![r].client = x.client]
          /\ x.key = KeyOf(r) /\ FoundOrOwn(x, clients[w][p], r)

LEMMA AskedFacts ==
    ASSUME Inv, NEW r \in ClientRequests, req[r].pc = "resolved", Gets(r),
           NEW w, w = req[r].worker, NEW p, p = req[r].config.provider
    PROVE  Asked(r, w, p)
<1> USE DEF Gets, FoundOrOwn, Asked
<1> DEFINE C == clients[w][p]
           e == OwnEntry(r)
<1>1. /\ w \in Processes /\ p \in Providers /\ e \in EntryType /\ KeyOf(r) \in Keys
      /\ C \in Seq(EntryType) /\ Len(C) <= Capacity
      /\ clients \in [Processes -> [Providers -> Seq(EntryType)]]
      /\ served \in [Processes -> [Providers -> Seq(Keys)]]
  <2>1. w \in Processes /\ p \in Providers /\ KeyOf(r) \in Keys /\ ClientOf(r) \in ClientType
    BY ClientFacts
  <2>2. /\ clients \in [Processes -> [Providers -> Seq(EntryType)]]
        /\ served \in [Processes -> [Providers -> Seq(Keys)]]
    BY DEF Inv, ClientTypeOK, EntryType
  <2>3. e \in EntryType
    BY <2>1 DEF EntryType, OwnEntry
  <2>4. C \in Seq(EntryType)
    BY <2>1, <2>2
  <2>5. Len(C) <= Capacity
    BY <2>1 DEF Inv, FitsIn
  <2> QED
    BY <2>1, <2>2, <2>3, <2>4, <2>5
<1>2. ASSUME NEW D \in Seq(EntryType), clients' = [clients EXCEPT ![w][p] = D]
      PROVE  /\ clients' \in [Processes -> [Providers -> Seq(EntryType)]]
             /\ clients'[w][p] = D
             /\ \A v \in Processes, q \in Providers : v # w \/ q # p => clients'[v][q] = clients[v][q]
  BY <1>1, <1>2
<1>3. /\ served' \in [Processes -> [Providers -> Seq(Keys)]]
      /\ served'[w][p] = Append(served[w][p], KeyOf(r))
      /\ \A v \in Processes, q \in Providers : v # w \/ q # p => served'[v][q] = served[v][q]
  <2>1. served' = [served EXCEPT ![w][p] = Append(@, KeyOf(r))]
    BY DEF Hit, Miss
  <2>2. Append(served[w][p], KeyOf(r)) \in Seq(Keys)
    BY <1>1
  <2> QED
    BY <1>1, <2>1, <2>2
<1>4. ASSUME NEW i, Hit(r, i)
      PROVE  /\ clients' \in [Processes -> [Providers -> Seq(EntryType)]]
             /\ \A v \in Processes, q \in Providers : v # w \/ q # p => clients'[v][q] = clients[v][q]
             /\ Len(clients'[w][p]) <= Capacity
             /\ \A j \in DOMAIN clients'[w][p] : \E k \in DOMAIN C : clients'[w][p][j] = C[k]
             /\ i \in DOMAIN C /\ C[i] \in EntryType /\ C[i].key = KeyOf(r)
             /\ req' = [req EXCEPT ![r].pc = "done", ![r].client = C[i].client]
  <2> DEFINE D == Touched(C, i)
  <2>1. /\ i \in DOMAIN C /\ C[i].key = KeyOf(r) /\ clients' = [clients EXCEPT ![w][p] = D]
        /\ req' = [req EXCEPT ![r].pc = "done", ![r].client = C[i].client]
    BY <1>4 DEF Hit
  <2> HIDE DEF C
  <2>2. /\ D \in Seq(EntryType) /\ Len(D) = Len(C)
        /\ \A j \in 1..Len(C) : D[j] =
              IF j < i THEN C[j] ELSE IF j < Len(C) THEN C[j + 1] ELSE C[i]
    BY <1>1, <2>1, TouchedFacts
  <2> HIDE DEF D
  <2>3. \A j \in DOMAIN D : \E k \in DOMAIN C : D[j] = C[k]
    <3> SUFFICES ASSUME NEW j \in DOMAIN D
                 PROVE  \E k \in DOMAIN C : D[j] = C[k]
      OBVIOUS
    <3>1. j \in 1..Len(C) /\ DOMAIN C = 1..Len(C) /\ Len(C) \in Nat
      BY <1>1, <2>2
    <3>2. j < Len(C) => j + 1 \in 1..Len(C)
      BY <3>1
    <3> QED
      BY <2>1, <2>2, <3>1, <3>2
  <2>4. C[i] \in EntryType
    BY <1>1, <2>1
  <2> QED
    BY <1>1, <1>2, <2>1, <2>2, <2>3, <2>4
<1>5. ASSUME Miss(r)
      PROVE  /\ clients' \in [Processes -> [Providers -> Seq(EntryType)]]
             /\ \A v \in Processes, q \in Providers : v # w \/ q # p => clients'[v][q] = clients[v][q]
             /\ Len(clients'[w][p]) <= Capacity
             /\ \A j \in DOMAIN clients'[w][p] :
                   clients'[w][p][j] = e \/ \E k \in DOMAIN C : clients'[w][p][j] = C[k]
             /\ ~Refused(r) /\ e.key = KeyOf(r)
             /\ req' = [req EXCEPT ![r].pc = "done", ![r].client = e.client]
  <2> DEFINE D == Inserted(C, e)
  <2>1. /\ clients' = [clients EXCEPT ![w][p] = D] /\ ~Refused(r) /\ e.key = KeyOf(r)
        /\ req' = [req EXCEPT ![r].pc = "done", ![r].client = e.client]
    BY <1>5 DEF Miss, OwnEntry
  <2> HIDE DEF C, e
  <2>2. /\ D \in Seq(EntryType) /\ Len(D) \in Nat \ {0} /\ D[Len(D)] = e
        /\ \/ /\ Len(C) < Capacity /\ Len(D) = Len(C) + 1
              /\ \A j \in 1..Len(C) : D[j] = C[j]
           \/ /\ Len(C) = Capacity /\ Len(D) = Capacity
              /\ \A j \in 1..(Capacity - 1) : D[j] = C[j + 1]
    <3>1. C \in Seq(EntryType) /\ e \in EntryType /\ Len(C) <= Capacity
      BY <1>1
    <3>2. D \in Seq(EntryType) /\ Grown(D, C, e)
      BY <3>1, InsertedFacts
    <3> QED
      BY <3>2 DEF Grown
  <2> HIDE DEF D
  <2>3. \A j \in DOMAIN D : D[j] = e \/ \E k \in DOMAIN C : D[j] = C[k]
    <3> SUFFICES ASSUME NEW j \in DOMAIN D, j # Len(D)
                 PROVE  \E k \in DOMAIN C : D[j] = C[k]
      BY <2>2
    <3>1. j \in 1..(Len(D) - 1) /\ DOMAIN C = 1..Len(C) /\ Len(C) \in Nat
      BY <1>1, <2>2
    <3>2. CASE Len(D) = Len(C) + 1 /\ \A k \in 1..Len(C) : D[k] = C[k]
      BY <3>1, <3>2
    <3>3. CASE Len(C) = Len(D) /\ \A k \in 1..(Len(D) - 1) : D[k] = C[k + 1]
      <4>1. j + 1 \in DOMAIN C
        BY <3>1, <3>3
      <4> QED
        BY <3>1, <3>3, <4>1
    <3> QED
      BY <2>2, <3>2, <3>3
  <2>4. Len(D) <= Capacity
    BY <1>1, <2>2, CacheAssumption
  <2>5. /\ clients' \in [Processes -> [Providers -> Seq(EntryType)]] /\ clients'[w][p] = D
        /\ \A v \in Processes, q \in Providers : v # w \/ q # p => clients'[v][q] = clients[v][q]
    BY <1>2, <2>1, <2>2
  <2> QED
    BY <2>1, <2>3, <2>4, <2>5
<1>6. CASE \E i : Hit(r, i)
  <2>1. PICK i : Hit(r, i)
    BY <1>6
  <2>2. /\ i \in DOMAIN C /\ C[i] \in EntryType /\ C[i].key = KeyOf(r)
        /\ req' = [req EXCEPT ![r].pc = "done", ![r].client = C[i].client]
    BY <1>4, <2>1
  <2>3. \E x \in EntryType :
           /\ req' = [req EXCEPT ![r].pc = "done", ![r].client = x.client]
           /\ x.key = KeyOf(r) /\ \E k \in DOMAIN C : x = C[k]
    BY <2>2
  <2>4. \A j \in DOMAIN clients'[w][p] : \E k \in DOMAIN C : clients'[w][p][j] = C[k]
    BY <1>4, <2>1
  <2>5. /\ clients' \in [Processes -> [Providers -> Seq(EntryType)]] /\ Len(clients'[w][p]) <= Capacity
        /\ \A v \in Processes, q \in Providers : v # w \/ q # p => clients'[v][q] = clients[v][q]
    BY <1>4, <2>1
  <2> QED
    BY <1>1, <1>3, <2>3, <2>4, <2>5
<1>7. CASE Miss(r)
  BY <1>1, <1>3, <1>5, <1>7
<1> QED
  BY <1>6, <1>7

-----------------------------------------------------------------------------
(* The invariant. *)

LEMMA InitInv == ClientInit => Inv
<1> SUFFICES ASSUME ClientInit
             PROVE  Inv
  OBVIOUS
<1> USE DEF ClientInit, Unused
<1>1. ClientTypeOK
  <2>1. NoClient \in ClientType
    BY DEF NoClient, ClientType
  <2>2. <<>> \in Seq(EntryType) /\ <<>> \in Seq(Keys)
    OBVIOUS
  <2>3. Unused \in RequestType
    BY <2>1 DEF RequestType
  <2>4. [pc |-> "idle", worker |-> None, secret |-> None] \in WriterType
    BY DEF WriterType
  <2> QED
    BY <2>2, <2>3, <2>4 DEF ClientTypeOK
<1>2. EntriesFit /\ FitsIn
  BY CacheAssumption DEF EntriesFit, FitsIn
<1>3. RequestsFit /\ WritersFit
  BY DEF RequestsFit, WritersFit, Done
<1> QED
  BY <1>1, <1>2, <1>3 DEF Inv

\* A step of one request, which leaves it in the state x.
LEMMA RequestMoves ==
    ASSUME Inv, NEW r \in ClientRequests, NEW x \in RequestType, req' = [req EXCEPT ![r] = x],
           x.pc # "new", x.worker \in Processes, x.model \in Models, x.params \in Params,
           x.config \in Configs,
           x.pc = "done" => /\ x.client.key = ClientOf(r)'.key
                            /\ x.config.provider = "openai" => x.client.address \in Allowed \cup {None}
    PROVE  req' \in [ClientRequests -> RequestType] /\ RequestsFit'
<1>1. req \in [ClientRequests -> RequestType]
  BY DEF Inv, ClientTypeOK
<1>2. /\ req' \in [ClientRequests -> RequestType] /\ req'[r] = x
      /\ \A q \in ClientRequests \ {r} : req'[q] = req[q]
  BY <1>1
<1>3. \A q \in ClientRequests \ {r} : ClientOf(q)'.key = ClientOf(q).key
  BY <1>2 DEF ClientOf
<1> QED
  BY <1>2, <1>3 DEF Inv, RequestsFit, Done

LEMMA FindModelInv ==
    ASSUME Inv, NEW r \in ClientRequests, NEW w \in Processes, NEW m \in Models, NEW p \in Params,
           FindModel(r, w, m, p)
    PROVE  Inv'
<1> DEFINE new == [Unused EXCEPT !.pc = "model", !.worker = w, !.model = m, !.params = p,
                                 !.config = config[m]]
<1>1. /\ UNCHANGED <<config, secret, clients, writer, changes, served, clean>>
      /\ req' = [req EXCEPT ![r] = new] /\ arrivals' = arrivals + 1
  BY DEF FindModel
<1>2. /\ new.pc = "model" /\ new.worker = w /\ new.model = m /\ new.params = p
      /\ new.config \in Configs /\ new \in RequestType
  <2>1. NoClient \in ClientType
    BY DEF NoClient, ClientType
  <2>2. config[m] \in Configs
    BY DEF Inv, ClientTypeOK
  <2> QED
    BY <2>1, <2>2 DEF Unused, RequestType
<1> HIDE DEF new
<1>3. req' \in [ClientRequests -> RequestType] /\ RequestsFit'
  BY <1>1, <1>2, RequestMoves
<1>4. ClientTypeOK' /\ EntriesFit' /\ WritersFit' /\ FitsIn'
  BY <1>1, <1>3 DEF Inv, ClientTypeOK, EntriesFit, WritersFit, FitsIn
<1> QED
  BY <1>3, <1>4 DEF Inv

LEMMA ResolveSecretsInv ==
    ASSUME Inv, NEW r \in ClientRequests, ResolveSecrets(r)
    PROVE  Inv'
<1> DEFINE v == VersionOf(req[r].config.secret)
           x == [req[r] EXCEPT !.pc = "resolved", !.version = v]
<1>1. /\ UNCHANGED <<config, secret, clients, writer, changes, arrivals, served, clean>>
      /\ req[r].pc = "model" /\ req[r] \in RequestType
      /\ req' = [req EXCEPT ![r] = x]
  BY DEF ResolveSecrets, Inv, ClientTypeOK
<1>2. v \in Nat
  <2>1. req[r].config.secret \in Secrets \cup {None}
    BY <1>1, ClientFacts DEF ConfigType
  <2> QED
    BY <2>1 DEF VersionOf, Inv, ClientTypeOK
<1> HIDE DEF v
<1>3. /\ x \in RequestType /\ x.pc = "resolved" /\ x.worker = req[r].worker
      /\ x.model = req[r].model /\ x.params = req[r].params /\ x.config = req[r].config
  BY <1>1, <1>2 DEF RequestType
<1>4. x.worker \in Processes /\ x.model \in Models /\ x.params \in Params /\ x.config \in Configs
  BY <1>1, <1>3 DEF Inv, RequestsFit
<1> HIDE DEF x
<1>5. req' \in [ClientRequests -> RequestType] /\ RequestsFit'
  BY <1>1, <1>3, <1>4, RequestMoves
<1>6. ClientTypeOK' /\ EntriesFit' /\ WritersFit' /\ FitsIn'
  BY <1>1, <1>5 DEF Inv, ClientTypeOK, EntriesFit, WritersFit, FitsIn
<1> QED
  BY <1>5, <1>6 DEF Inv

LEMMA GetClientInv ==
    ASSUME Inv, NEW r \in ClientRequests, GetClient(r)
    PROVE  Inv'
<1>1. /\ req[r].pc = "resolved" /\ req[r] \in RequestType
      /\ UNCHANGED <<config, secret, writer, changes, arrivals, clean>>
      /\ Gets(r) \/ Refusal(r)
  BY GetClientCases DEF Inv, ClientTypeOK
<1>2. WritersFit'
  BY <1>1 DEF Inv, WritersFit
<1>3. /\ req[r].worker \in Processes /\ req[r].model \in Models
      /\ req[r].params \in Params /\ req[r].config \in Configs
  BY <1>1 DEF Inv, RequestsFit
<1>4. CASE Refusal(r)
  <2> DEFINE x == [req[r] EXCEPT !.pc = "refused"]
  <2>1. req' = [req EXCEPT ![r] = x] /\ UNCHANGED <<clients, served>>
    BY <1>4 DEF Refusal, Inv, ClientTypeOK
  <2>2. /\ x \in RequestType /\ x.pc = "refused" /\ x.worker = req[r].worker
        /\ x.model = req[r].model /\ x.params = req[r].params /\ x.config = req[r].config
    BY <1>1 DEF RequestType
  <2> HIDE DEF x
  <2>3. req' \in [ClientRequests -> RequestType] /\ RequestsFit'
    BY <1>3, <2>1, <2>2, RequestMoves
  <2>4. ClientTypeOK' /\ EntriesFit' /\ FitsIn'
    BY <1>1, <2>1, <2>3 DEF Inv, ClientTypeOK, EntriesFit, FitsIn
  <2> QED
    BY <1>2, <2>3, <2>4 DEF Inv
<1>5. CASE Gets(r)
  <2> PICK w, p : w = req[r].worker /\ p = req[r].config.provider
    OBVIOUS
  <2>1. /\ w \in Processes /\ p \in Providers /\ OwnEntry(r) \in EntryType
        /\ clients' \in [Processes -> [Providers -> Seq(EntryType)]]
        /\ served' \in [Processes -> [Providers -> Seq(Keys)]]
        /\ \A u \in Processes, q \in Providers : u # w \/ q # p =>
              clients'[u][q] = clients[u][q] /\ served'[u][q] = served[u][q]
        /\ Len(clients'[w][p]) <= Capacity
        /\ \A j \in DOMAIN clients'[w][p] : FoundOrOwn(clients'[w][p][j], clients[w][p], r)
        /\ \E y \in EntryType :
              /\ req' = [req EXCEPT ![r].pc = "done", ![r].client = y.client]
              /\ y.key = KeyOf(r) /\ FoundOrOwn(y, clients[w][p], r)
    <3>1. Asked(r, w, p)
      BY <1>1, <1>5, AskedFacts
    <3> QED
      BY <3>1 DEF Asked
  <2>2. PICK y \in EntryType :
           /\ req' = [req EXCEPT ![r].pc = "done", ![r].client = y.client]
           /\ y.key = KeyOf(r) /\ FoundOrOwn(y, clients[w][p], r)
    BY <2>1
  <2>3. /\ req[r].config.provider = p /\ ClientOf(r).key = <<p, KeyOf(r)>>
        /\ ClientOf(r).address = req[r].config.address
    BY <1>1, ClientFacts
  <2>4. ASSUME NEW e, FoundOrOwn(e, clients[w][p], r)
        PROVE  /\ e.client.key = <<p, e.key>>
               /\ p = "openai" => e.client.address \in Allowed \cup {None}
    <3>1. CASE e = OwnEntry(r) /\ ~Refused(r)
      BY <2>3, <3>1 DEF OwnEntry, Refused
    <3>2. CASE \E i \in DOMAIN clients[w][p] : e = clients[w][p][i]
      <4>1. PICK i \in DOMAIN clients[w][p] : e = clients[w][p][i]
        BY <3>2
      <4>2. /\ clients[w][p][i].client.key = <<p, clients[w][p][i].key>>
            /\ p = "openai" => clients[w][p][i].client.address \in Allowed \cup {None}
        BY <2>1 DEF Inv, EntriesFit
      <4> QED
        BY <4>1, <4>2
    <3> QED
      BY <2>4, <3>1, <3>2 DEF FoundOrOwn
  <2>5. EntriesFit'
    <3> SUFFICES ASSUME NEW u \in Processes, NEW q \in Providers, NEW i \in DOMAIN clients'[u][q]
                 PROVE  /\ clients'[u][q][i].client.key = <<q, clients'[u][q][i].key>>
                        /\ q = "openai" => clients'[u][q][i].client.address \in Allowed \cup {None}
      BY DEF EntriesFit
    <3>1. CASE u = w /\ q = p
      BY <2>1, <2>4, <3>1
    <3>2. CASE u # w \/ q # p
      <4>1. clients'[u][q] = clients[u][q]
        BY <2>1, <3>2
      <4> QED
        BY <4>1 DEF Inv, EntriesFit
    <3> QED
      BY <3>1, <3>2
  <2>6. FitsIn'
    BY <2>1 DEF Inv, FitsIn
  <2> DEFINE x == [req[r] EXCEPT !.pc = "done", !.client = y.client]
  <2>7. req' = [req EXCEPT ![r] = x] /\ y.client \in ClientType
    BY <2>2 DEF Inv, ClientTypeOK, EntryType
  <2>8. /\ x \in RequestType /\ x.pc = "done" /\ x.client = y.client /\ x.worker = req[r].worker
        /\ x.model = req[r].model /\ x.params = req[r].params /\ x.config = req[r].config
    BY <1>1, <2>7 DEF RequestType
  <2> HIDE DEF x
  <2>9. x.client.key = ClientOf(r)'.key
    <3>1. req'[r] = x
      BY <2>7 DEF Inv, ClientTypeOK
    <3>2. ClientOf(r)'.key = ClientOf(r).key
      BY <2>8, <3>1 DEF ClientOf
    <3> QED
      BY <2>2, <2>3, <2>4, <2>8, <3>2
  <2>10. x.config.provider = "openai" => x.client.address \in Allowed \cup {None}
    BY <2>2, <2>3, <2>4, <2>8
  <2>11. req' \in [ClientRequests -> RequestType] /\ RequestsFit'
    BY <1>3, <2>7, <2>8, <2>9, <2>10, RequestMoves
  <2>12. ClientTypeOK'
    BY <1>1, <2>1, <2>11 DEF Inv, ClientTypeOK
  <2> QED
    BY <1>2, <2>5, <2>6, <2>11, <2>12 DEF Inv
<1> QED
  BY <1>1, <1>4, <1>5

LEMMA ChangeSecretInv ==
    ASSUME Inv, NEW a \in Administrators, NEW w \in Processes, NEW s \in Secrets, NEW there \in BOOLEAN,
           ChangeSecret(a, w, s, there)
    PROVE  Inv'
<1> DEFINE x == [pc |-> "clear", worker |-> w, secret |-> s]
<1>1. /\ secret' = [secret EXCEPT ![s] = [version |-> @.version + 1, there |-> there]]
      /\ writer' = [writer EXCEPT ![a] = x]
      /\ changes' = changes + 1
      /\ UNCHANGED <<config, clients, req, arrivals, served, clean>>
  BY DEF ChangeSecret
<1>2. x \in WriterType /\ x.worker = w /\ x.secret = s
  BY DEF WriterType
<1> HIDE DEF x
<1>3. writer' \in [Administrators -> WriterType] /\ WritersFit'
  BY <1>1, <1>2 DEF Inv, WritersFit, ClientTypeOK
<1>4. ClientTypeOK'
  <2>1. secret' \in [Secrets -> [version : Nat, there : BOOLEAN]]
    BY <1>1 DEF Inv, ClientTypeOK
  <2> QED
    BY <1>1, <1>3, <2>1 DEF Inv, ClientTypeOK
<1>5. RequestsFit' /\ EntriesFit' /\ FitsIn'
  BY <1>1 DEF Inv, RequestsFit, EntriesFit, FitsIn, Done, ClientOf
<1> QED
  BY <1>3, <1>4, <1>5 DEF Inv

LEMMA ClearCacheFacts ==
    ASSUME Inv, NEW a \in Administrators, ClearCache(a),
           NEW w, w = writer[a].worker, NEW s, s = writer[a].secret
    PROVE  /\ w \in Processes /\ s \in Secrets
           /\ \A v \in Processes, p \in Providers :
                 /\ clients'[v][p] = IF v = w /\ p = "openai" THEN <<>> ELSE clients[v][p]
                 /\ served'[v][p] = IF v = w /\ p = "openai" THEN <<>> ELSE served[v][p]
           /\ \A v \in Processes : v # w => clean'[v] = clean[v]
           /\ \A v \in Processes, z \in Secrets :
                 \/ clean'[v][z] = clean[v][z]
                 \/ v = w /\ z = s /\ Quiet(w, s) /\ clean'[v][z] = secret[s].version
           /\ ClientTypeOK' /\ WritersFit' /\ UNCHANGED <<config, secret, req, changes, arrivals>>
<1>1. /\ writer[a].pc = "clear" /\ writer' = [writer EXCEPT ![a].pc = "idle"]
      /\ clients' = [clients EXCEPT ![w]["openai"] = <<>>]
      /\ served' = [served EXCEPT ![w]["openai"] = <<>>]
      /\ clean' = [clean EXCEPT ![w][s] = IF Quiet(w, s) THEN secret[s].version ELSE @]
      /\ UNCHANGED <<config, secret, req, changes, arrivals>>
  BY DEF ClearCache
<1>2. w \in Processes /\ s \in Secrets /\ "openai" \in Providers
  BY <1>1 DEF Inv, WritersFit, Providers
<1>3. \A v \in Processes, p \in Providers :
         /\ clients'[v][p] = IF v = w /\ p = "openai" THEN <<>> ELSE clients[v][p]
         /\ served'[v][p] = IF v = w /\ p = "openai" THEN <<>> ELSE served[v][p]
  BY <1>1, <1>2 DEF Inv, ClientTypeOK
<1>4. /\ clean' \in [Processes -> [Secrets -> Nat]]
      /\ \A v \in Processes : v # w => clean'[v] = clean[v]
      /\ \A v \in Processes, z \in Secrets :
            \/ clean'[v][z] = clean[v][z]
            \/ v = w /\ z = s /\ Quiet(w, s) /\ clean'[v][z] = secret[s].version
  BY <1>1, <1>2 DEF Inv, ClientTypeOK
<1>5. /\ clients' \in [Processes -> [Providers -> Seq(EntryType)]]
      /\ served' \in [Processes -> [Providers -> Seq(Keys)]]
  <2>1. <<>> \in Seq(EntryType) /\ <<>> \in Seq(Keys)
    OBVIOUS
  <2> QED
    BY <1>1, <1>2, <2>1 DEF Inv, ClientTypeOK
<1>6. writer' \in [Administrators -> WriterType] /\ WritersFit'
  <2> DEFINE x == [writer[a] EXCEPT !.pc = "idle"]
  <2>1. writer' = [writer EXCEPT ![a] = x] /\ writer[a] \in WriterType
    BY <1>1 DEF Inv, ClientTypeOK
  <2>2. x \in WriterType /\ x.pc = "idle"
    BY <2>1 DEF WriterType
  <2> HIDE DEF x
  <2> QED
    BY <2>1, <2>2 DEF Inv, ClientTypeOK, WritersFit
<1>7. ClientTypeOK'
  BY <1>1, <1>4, <1>5, <1>6 DEF Inv, ClientTypeOK
<1> QED
  BY <1>1, <1>2, <1>3, <1>4, <1>6, <1>7

LEMMA ClearCacheInv ==
    ASSUME Inv, NEW a \in Administrators, ClearCache(a)
    PROVE  Inv'
<1> PICK w, s : w = writer[a].worker /\ s = writer[a].secret
  OBVIOUS
<1>1. /\ ClientTypeOK' /\ WritersFit' /\ req' = req
      /\ \A v \in Processes, p \in Providers :
            clients'[v][p] = IF v = w /\ p = "openai" THEN <<>> ELSE clients[v][p]
  BY ClearCacheFacts
<1>2. EntriesFit' /\ FitsIn'
  BY <1>1, CacheAssumption DEF Inv, EntriesFit, FitsIn
<1>3. RequestsFit'
  BY <1>1 DEF Inv, RequestsFit, Done, ClientOf
<1> QED
  BY <1>1, <1>2, <1>3 DEF Inv

\* What of the invariant the caches and the requests settle.
LEMMA RestStays ==
    ASSUME Inv, UNCHANGED <<clients, req, writer>>, ClientTypeOK'
    PROVE  Inv'
<1>1. EntriesFit' /\ WritersFit' /\ FitsIn'
  BY DEF Inv, EntriesFit, WritersFit, FitsIn
<1>2. RequestsFit'
  BY DEF Inv, RequestsFit, Done, ClientOf
<1> QED
  BY <1>1, <1>2 DEF Inv

LEMMA ChangeModelInv ==
    ASSUME Inv, NEW m \in Models, NEW c \in Configs, ChangeModel(m, c)
    PROVE  Inv'
<1>1. /\ config' = [config EXCEPT ![m] = c] /\ changes' = changes + 1
      /\ UNCHANGED <<secret, clients, req, writer, arrivals, served, clean>>
  BY DEF ChangeModel
<1>2. ClientTypeOK'
  BY <1>1 DEF Inv, ClientTypeOK
<1> QED
  BY <1>1, <1>2, RestStays

LEMMA NextInv == Inv /\ [ClientNext]_clientVars => Inv'
<1> SUFFICES ASSUME Inv, [ClientNext]_clientVars
             PROVE  Inv'
  OBVIOUS
<1>1. CASE UNCHANGED clientVars
  <2>1. ClientTypeOK'
    BY <1>1 DEF clientVars, Inv, ClientTypeOK
  <2> QED
    BY <1>1, <2>1, RestStays DEF clientVars
<1>2. CASE \E r \in ClientRequests : ClientStep(r)
  BY <1>2, FindModelInv, ResolveSecretsInv, GetClientInv DEF ClientStep
<1>3. CASE \E a \in Administrators : SecretStep(a)
  BY <1>3, ChangeSecretInv, ClearCacheInv DEF SecretStep
<1>4. CASE \E m \in Models, c \in Configs : ChangeModel(m, c)
  BY <1>4, ChangeModelInv
<1> QED
  BY <1>1, <1>2, <1>3, <1>4 DEF ClientNext

LEMMA InvHolds == ClientSpec => []Inv
  BY InitInv, NextInv, PTL DEF ClientSpec

\* Every variable keeps its type.
THEOREM ClientTypeCorrect == ClientSpec => []ClientTypeOK
<1>1. Inv => ClientTypeOK
  BY DEF Inv
<1> QED
  BY <1>1, InvHolds, PTL

\* Whatever was cached before it, a request is handed a client of its own model and
\* parameters, or of its own account and address.
THEOREM RequestsGetTheirClient == ClientSpec => []ClientFits
<1>1. Inv => ClientFits
  BY DEF Inv, RequestsFit, ClientFits
<1> QED
  BY <1>1, InvHolds, PTL

\* No LangChain client with an address of its own calls one that the allowlist refuses,
\* however old it is.
THEOREM OnlyAllowedAddresses == ClientSpec => []AddressAllowed
<1>1. Inv => AddressAllowed
  BY DEF Inv, RequestsFit, AddressAllowed
<1> QED
  BY <1>1, InvHolds, PTL

-----------------------------------------------------------------------------
(* Secrets and the clients that hold them. *)

\* A step that changes no clean mark, no request and no client, and that only adds to the
\* changes of the secrets.
LEMMA FreshStays ==
    ASSUME FreshInv, QuietClearIsClean, UNCHANGED <<clean, req, clients>>,
           \A w \in Processes, s \in Secrets : clean[w][s] <= secret'[s].version
    PROVE  FreshInv' /\ QuietClearIsClean'
  BY DEF FreshInv, QuietClearIsClean

\* A request reads a secret as it is, which is no older than the last clear.
LEMMA ResolveSecretsFresh ==
    ASSUME Inv, FreshInv, NEW r \in ClientRequests, ResolveSecrets(r)
    PROVE  FreshInv'
<1> DEFINE c == req[r].config
<1>1. /\ UNCHANGED <<secret, clean>> /\ req[r].pc = "model"
      /\ req' = [req EXCEPT ![r].pc = "resolved", ![r].version = VersionOf(c.secret)]
  BY DEF ResolveSecrets
<1>2. req[r].worker \in Processes /\ c.secret \in Secrets \cup {None}
  BY <1>1, ClientFacts DEF ConfigType
<1>3. /\ \A q \in ClientRequests \ {r} : req'[q] = req[q]
      /\ req'[r].config = c /\ req'[r].worker = req[r].worker
      /\ req'[r].version = VersionOf(c.secret)
  BY <1>1 DEF Inv, ClientTypeOK, RequestType
<1>4. ASSUME VersionOf(c.secret) > 0, c.secret # None
      PROVE  VersionOf(c.secret) >= clean[req[r].worker][c.secret]
  <2>1. c.secret \in Secrets /\ VersionOf(c.secret) = secret[c.secret].version
    BY <1>2, <1>4 DEF VersionOf
  <2>2. clean[req[r].worker][c.secret] <= secret[c.secret].version
    BY <1>2, <2>1 DEF FreshInv
  <2> QED
    BY <1>2, <2>1, <2>2 DEF Inv, ClientTypeOK
<1> QED
  BY <1>1, <1>3, <1>4 DEF FreshInv

\* A new client has the version of the request that made it.
LEMMA GetClientFresh ==
    ASSUME Inv, FreshInv, QuietClearIsClean, NEW r \in ClientRequests, GetClient(r)
    PROVE  FreshInv' /\ QuietClearIsClean'
<1>1. /\ req[r].pc = "resolved" /\ UNCHANGED <<secret, clean>>
      /\ Gets(r) \/ Refusal(r)
  BY GetClientCases
<1>2. ASSUME NEW x, NEW c, req' = [req EXCEPT ![r].pc = x, ![r].client = c], x # "resolved"
      PROVE  FreshInv'
  <2>1. req'[r].pc # "resolved" /\ \A q \in ClientRequests \ {r} : req'[q] = req[q]
    BY <1>2 DEF Inv, ClientTypeOK, RequestType
  <2> QED
    BY <1>1, <2>1 DEF FreshInv
<1>3. CASE Refusal(r)
  <2>1. /\ req'[r].pc = "refused" /\ \A q \in ClientRequests \ {r} : req'[q] = req[q]
        /\ clients' = clients
    BY <1>3 DEF Refusal, Inv, ClientTypeOK, RequestType
  <2> QED
    BY <1>1, <2>1 DEF FreshInv, QuietClearIsClean
<1>4. CASE Gets(r)
  <2> PICK w, p : w = req[r].worker /\ p = req[r].config.provider
    OBVIOUS
  <2>1. Asked(r, w, p)
    BY <1>1, <1>4, AskedFacts
  <2>2. FreshInv'
    BY <1>2, <2>1 DEF Asked
  <2>3. /\ OwnEntry(r).client.secret = req[r].config.secret
        /\ OwnEntry(r).client.version = req[r].version
    BY <1>1, ClientFacts DEF OwnEntry
  <2>4. ASSUME NEW e, FoundOrOwn(e, clients[w]["openai"], r), p = "openai",
               e.client.secret # None, e.client.version > 0
        PROVE  e.client.version >= clean[w][e.client.secret]
    <3>1. CASE e = OwnEntry(r)
      BY <1>1, <2>3, <2>4, <3>1 DEF FreshInv
    <3>2. CASE \E i \in DOMAIN clients[w]["openai"] : e = clients[w]["openai"][i]
      <4>1. PICK i \in DOMAIN clients[w]["openai"] : e = clients[w]["openai"][i]
        BY <3>2
      <4>2. w \in Processes
        BY <2>1 DEF Asked
      <4> QED
        BY <2>4, <4>1, <4>2 DEF QuietClearIsClean
    <3> QED
      BY <2>4, <3>1, <3>2 DEF FoundOrOwn
  <2>5. QuietClearIsClean'
    <3> SUFFICES ASSUME NEW v \in Processes, NEW i \in DOMAIN clients'[v]["openai"],
                        NEW e, e = clients'[v]["openai"][i],
                        e.client.secret # None, e.client.version > 0
                 PROVE  e.client.version >= clean[v][e.client.secret]
      BY <1>1 DEF QuietClearIsClean
    <3>1. CASE v = w /\ p = "openai"
      <4>1. FoundOrOwn(e, clients[w]["openai"], r)
        BY <2>1, <3>1 DEF Asked
      <4> QED
        BY <2>4, <3>1, <4>1
    <3>2. CASE v # w \/ p # "openai"
      <4>1. clients'[v]["openai"] = clients[v]["openai"]
        BY <2>1, <3>2 DEF Asked, Providers
      <4> QED
        BY <4>1 DEF QuietClearIsClean
    <3> QED
      BY <3>1, <3>2
  <2> QED
    BY <2>2, <2>5
<1> QED
  BY <1>1, <1>3, <1>4

\* A clear while no request is between a secret and its client leaves no older one.
LEMMA ClearCacheFresh ==
    ASSUME Inv, FreshInv, QuietClearIsClean, NEW a \in Administrators, ClearCache(a)
    PROVE  FreshInv' /\ QuietClearIsClean'
<1> PICK w, s : w = writer[a].worker /\ s = writer[a].secret
  OBVIOUS
<1>1. /\ w \in Processes /\ s \in Secrets
      /\ \A v \in Processes, p \in Providers :
            clients'[v][p] = IF v = w /\ p = "openai" THEN <<>> ELSE clients[v][p]
      /\ \A v \in Processes : v # w => clean'[v] = clean[v]
      /\ UNCHANGED <<secret, req>>
  BY ClearCacheFacts
<1>2. \A v \in Processes, z \in Secrets :
         \/ clean'[v][z] = clean[v][z]
         \/ v = w /\ z = s /\ Quiet(w, s) /\ clean'[v][z] = secret[s].version
  BY ClearCacheFacts
<1>3. FreshInv'
  <2>1. \A v \in Processes, z \in Secrets : clean'[v][z] <= secret'[z].version
    <3>1. \A z \in Secrets : secret[z].version \in Nat
      BY DEF Inv, ClientTypeOK
    <3>2. \A v \in Processes, z \in Secrets : clean[v][z] <= secret[z].version
      BY DEF FreshInv
    <3> QED
      BY <1>1, <1>2, <3>1, <3>2
  <2>2. ASSUME NEW r \in ClientRequests, req[r].pc = "resolved", req[r].version > 0,
               req[r].config.secret # None
        PROVE  req[r].version >= clean'[req[r].worker][req[r].config.secret]
    <3>1. req[r].worker \in Processes /\ req[r].config.secret \in Secrets
      BY <2>2, ClientFacts DEF ConfigType
    <3>2. req[r].version >= clean[req[r].worker][req[r].config.secret]
      BY <2>2 DEF FreshInv
    <3>3. ~(req[r].worker = w /\ req[r].config.secret = s /\ Quiet(w, s))
      BY <2>2 DEF Quiet
    <3> QED
      BY <1>2, <3>1, <3>2, <3>3
  <2> QED
    BY <1>1, <2>1, <2>2 DEF FreshInv
<1>4. QuietClearIsClean'
  <2> SUFFICES ASSUME NEW v \in Processes, NEW i \in DOMAIN clients'[v]["openai"],
                      clients'[v]["openai"][i].client.secret # None,
                      clients'[v]["openai"][i].client.version > 0
               PROVE  clients'[v]["openai"][i].client.version
                         >= clean'[v][clients'[v]["openai"][i].client.secret]
    BY DEF QuietClearIsClean
  <2>1. v # w /\ clients'[v]["openai"] = clients[v]["openai"]
    BY <1>1 DEF Providers
  <2>2. clean'[v] = clean[v]
    BY <1>1, <2>1
  <2> QED
    BY <2>1, <2>2 DEF QuietClearIsClean
<1> QED
  BY <1>3, <1>4

LEMMA FreshNext == Inv /\ FreshInv /\ QuietClearIsClean /\ [ClientNext]_clientVars
                      => FreshInv' /\ QuietClearIsClean'
<1> SUFFICES ASSUME Inv, FreshInv, QuietClearIsClean, [ClientNext]_clientVars
             PROVE  FreshInv' /\ QuietClearIsClean'
  OBVIOUS
<1>1. \A w \in Processes, s \in Secrets : clean[w][s] <= secret[s].version
  BY DEF FreshInv
<1>2. CASE UNCHANGED clientVars
  BY <1>1, <1>2, FreshStays DEF clientVars
<1>3. ASSUME NEW r \in ClientRequests, NEW w \in Processes, NEW m \in Models, NEW p \in Params,
             FindModel(r, w, m, p)
      PROVE  FreshInv' /\ QuietClearIsClean'
  <2>1. /\ UNCHANGED <<clients, clean, secret>>
        /\ req' = [req EXCEPT ![r] = [Unused EXCEPT !.pc = "model", !.worker = w, !.model = m,
                                                    !.params = p, !.config = config[m]]]
    BY <1>3 DEF FindModel
  <2>2. req'[r].pc = "model" /\ \A q \in ClientRequests \ {r} : req'[q] = req[q]
    BY <2>1 DEF Inv, ClientTypeOK, Unused
  <2> QED
    BY <2>1, <2>2 DEF FreshInv, QuietClearIsClean
<1>4. ASSUME NEW r \in ClientRequests, ResolveSecrets(r)
      PROVE  FreshInv' /\ QuietClearIsClean'
  <2>1. UNCHANGED <<clients, clean>>
    BY <1>4 DEF ResolveSecrets
  <2> QED
    BY <1>4, <2>1, ResolveSecretsFresh DEF QuietClearIsClean
<1>5. CASE \E r \in ClientRequests : ClientStep(r)
  BY <1>3, <1>4, <1>5, GetClientFresh DEF ClientStep
<1>6. ASSUME NEW a \in Administrators, NEW w \in Processes, NEW s \in Secrets, NEW there \in BOOLEAN,
             ChangeSecret(a, w, s, there)
      PROVE  FreshInv' /\ QuietClearIsClean'
  <2>1. /\ secret' = [secret EXCEPT ![s] = [version |-> @.version + 1, there |-> there]]
        /\ UNCHANGED <<clients, req, clean>>
    BY <1>6 DEF ChangeSecret
  <2>2. \A z \in Secrets : secret'[z].version \in {secret[z].version, secret[z].version + 1}
    BY <2>1 DEF Inv, ClientTypeOK
  <2>3. \A v \in Processes, z \in Secrets : clean[v][z] \in Nat /\ secret[z].version \in Nat
    BY DEF Inv, ClientTypeOK
  <2>4. \A v \in Processes, z \in Secrets : clean[v][z] <= secret'[z].version
    BY <1>1, <2>2, <2>3
  <2> QED
    BY <2>1, <2>4, FreshStays
<1>7. CASE \E a \in Administrators : SecretStep(a)
  BY <1>6, <1>7, ClearCacheFresh DEF SecretStep
<1>8. CASE \E m \in Models, c \in Configs : ChangeModel(m, c)
  <2>1. UNCHANGED <<secret, clients, req, clean>>
    BY <1>8 DEF ChangeModel
  <2> QED
    BY <1>1, <2>1, FreshStays
<1> QED
  BY <1>2, <1>5, <1>7, <1>8 DEF ClientNext

\* Once a change of a secret has cleared a worker's cache, with no request of it between
\* its secret and its client, the worker holds no LangChain client of an earlier value.
THEOREM QuietClearLeavesNoOldSecret == ClientSpec => []QuietClearIsClean
<1>1. ClientInit => FreshInv /\ QuietClearIsClean
  BY DEF ClientInit, Unused, FreshInv, QuietClearIsClean, Providers
<1> QED
  BY <1>1, FreshNext, InvHolds, PTL DEF ClientSpec

-----------------------------------------------------------------------------
(* Eviction. *)

\* The cache C holds what the requests S asked for last.
InOrder(C, S) == \A i, j \in DOMAIN C : i < j => Later(S, C[j].key, C[i].key)
EvictedBefore(C, S) ==
    \A n \in DOMAIN S : ~Cached(C, S[n]) =>
        Len(C) = Capacity /\ \A i \in DOMAIN C : Later(S, C[i].key, S[n])
Recent(C, S) == Len(C) <= Capacity /\ InOrder(C, S) /\ EvictedBefore(C, S)

\* The last key asked for comes after every other, and the order of those stays.
LEMMA LaterGrows ==
    ASSUME NEW K, NEW S \in Seq(K), NEW k \in K, NEW a, NEW b, b # k, a = k \/ Later(S, a, b)
    PROVE  Later(Append(S, k), a, b)
<1> DEFINE R == Append(S, k)
<1>1. /\ DOMAIN S = 1..Len(S) /\ Len(S) \in Nat
      /\ DOMAIN R = 1..(Len(S) + 1) /\ R[Len(S) + 1] = k
      /\ \A n \in 1..Len(S) : R[n] = S[n]
  OBVIOUS
<1> HIDE DEF R
<1>2. CASE a = k
  <2>1. /\ Len(S) + 1 \in DOMAIN R
        /\ \A m \in DOMAIN R : m >= Len(S) + 1 => m = Len(S) + 1
    BY <1>1
  <2> QED
    BY <1>1, <1>2, <2>1 DEF Later, R
<1>3. CASE Later(S, a, b)
  <2>1. PICK n \in DOMAIN S : S[n] = a /\ \A m \in DOMAIN S : m >= n => S[m] # b
    BY <1>3 DEF Later
  <2>2. n \in DOMAIN R /\ R[n] = a
    BY <1>1, <2>1
  <2>3. \A m \in DOMAIN R : m >= n => R[m] # b
    BY <1>1, <2>1
  <2> QED
    BY <2>2, <2>3 DEF Later, R
<1> QED
  BY <1>2, <1>3

LEMMA LaterDiffers ==
    ASSUME NEW S, DOMAIN S \subseteq Int, NEW a, NEW b, Later(S, a, b)
    PROVE  a # b
  BY DEF Later

\* An entry that is used again goes to the end.
LEMMA HitRecent ==
    ASSUME NEW C \in Seq(EntryType), NEW S \in Seq(Keys), NEW k \in Keys, Recent(C, S),
           NEW i \in DOMAIN C, C[i].key = k
    PROVE  Recent(Touched(C, i), Append(S, k))
<1> DEFINE D == Touched(C, i)
           R == Append(S, k)
           n == Len(C)
<1>1. /\ D \in Seq(EntryType) /\ Len(D) = n
      /\ \A j \in 1..n : D[j] = IF j < i THEN C[j] ELSE IF j < n THEN C[j + 1] ELSE C[i]
  BY TouchedFacts
<1>2. /\ n \in Nat /\ DOMAIN C = 1..n /\ DOMAIN D = 1..n /\ i \in 1..n
      /\ DOMAIN S = 1..Len(S) /\ DOMAIN S \subseteq Int /\ n <= Capacity
      /\ DOMAIN R = 1..(Len(S) + 1) /\ Len(S) \in Nat /\ R[Len(S) + 1] = k
      /\ \A m \in DOMAIN S : R[m] = S[m]
  BY <1>1 DEF Recent
<1> HIDE DEF D, R, n
<1>3. \A j \in 1..n : j # i => C[j].key # k
  <2> SUFFICES ASSUME NEW j \in 1..n, j # i
               PROVE  C[j].key # k
    OBVIOUS
  <2>1. Later(S, C[i].key, C[j].key) \/ Later(S, C[j].key, C[i].key)
    BY <1>2 DEF Recent, InOrder
  <2> QED
    BY <1>2, <2>1, LaterDiffers
<1>4. \A j \in 1..n : j # n => \E m \in 1..n : D[j] = C[m] /\ m # i /\ m = (IF j < i THEN j ELSE j + 1)
  BY <1>1, <1>2
<1>5. D[n] = C[i] /\ n \in 1..n
  BY <1>1, <1>2
<1>6. InOrder(D, R)
  <2> SUFFICES ASSUME NEW a \in 1..n, NEW b \in 1..n, a < b
               PROVE  Later(R, D[b].key, D[a].key)
    BY <1>2 DEF InOrder
  <2>1. a # n
    BY <1>2
  <2>2. PICK c \in 1..n : D[a] = C[c] /\ c # i /\ c = (IF a < i THEN a ELSE a + 1)
    BY <1>4, <2>1
  <2>3. C[c].key # k
    BY <1>3, <2>2
  <2>4. CASE b = n
    BY <1>5, <2>2, <2>3, <2>4, LaterGrows DEF R
  <2>5. CASE b # n
    <3>1. PICK d \in 1..n : D[b] = C[d] /\ d # i /\ d = (IF b < i THEN b ELSE b + 1)
      BY <1>4, <2>5
    <3>2. c < d
      BY <1>2, <2>2, <3>1
    <3>3. Later(S, C[d].key, C[c].key)
      BY <1>2, <3>2 DEF Recent, InOrder
    <3> QED
      BY <2>2, <2>3, <3>1, <3>3, LaterGrows DEF R
  <2> QED
    BY <2>4, <2>5
<1>7. \A x : Cached(C, x) => Cached(D, x)
  <2> SUFFICES ASSUME NEW m \in 1..n
               PROVE  \E j \in 1..n : D[j].key = C[m].key
    BY <1>2 DEF Cached
  <2>1. CASE m = i
    BY <1>5, <2>1
  <2>2. CASE m < i
    BY <1>1, <2>2
  <2>3. CASE m > i
    <3>1. m - 1 \in 1..n /\ ~(m - 1 < i) /\ m - 1 < n /\ (m - 1) + 1 = m
      BY <1>2, <2>3
    <3> QED
      BY <1>1, <3>1
  <2> QED
    BY <1>2, <2>1, <2>2, <2>3
<1>8. EvictedBefore(D, R)
  <2> SUFFICES ASSUME NEW m \in DOMAIN R, ~Cached(D, R[m])
               PROVE  Len(D) = Capacity /\ \A j \in 1..n : Later(R, D[j].key, R[m])
    BY <1>2 DEF EvictedBefore
  <2>1. R[m] # k /\ ~Cached(C, R[m])
    <3>1. Cached(C, k)
      BY DEF Cached
    <3> QED
      BY <1>7, <3>1
  <2>2. m \in DOMAIN S /\ R[m] = S[m]
    BY <1>2, <2>1
  <2>3. n = Capacity /\ \A j \in 1..n : Later(S, C[j].key, R[m])
    BY <1>2, <2>1, <2>2 DEF Recent, EvictedBefore, n
  <2>4. ASSUME NEW j \in 1..n
        PROVE  Later(R, D[j].key, R[m])
    <3>1. \E c \in 1..n : D[j] = C[c]
      BY <1>2, <1>4, <1>5
    <3>2. Later(S, D[j].key, R[m])
      BY <2>3, <3>1
    <3> QED
      BY <2>1, <3>2, LaterGrows DEF R
  <2> QED
    BY <1>1, <2>3, <2>4
<1> QED
  BY <1>1, <1>2, <1>6, <1>8 DEF Recent, D, R

\* A new entry goes to the end and, if the cache is full, the one goes that was not asked
\* for longest.
LEMMA MissRecent ==
    ASSUME NEW C \in Seq(EntryType), NEW S \in Seq(Keys), NEW e \in EntryType, Recent(C, S),
           ~Cached(C, e.key)
    PROVE  Recent(Inserted(C, e), Append(S, e.key))
<1> DEFINE D == Inserted(C, e)
           k == e.key
           R == Append(S, k)
           n == Len(C)
<1>1. D \in Seq(EntryType) /\ Grown(D, C, e) /\ k \in Keys
  BY InsertedFacts DEF Recent, EntryType
<1>2. /\ n \in Nat /\ DOMAIN C = 1..n /\ DOMAIN D = 1..Len(D) /\ Len(D) \in Nat
      /\ DOMAIN S = 1..Len(S) /\ DOMAIN S \subseteq Int /\ n <= Capacity
      /\ DOMAIN R = 1..(Len(S) + 1) /\ Len(S) \in Nat /\ R[Len(S) + 1] = k
      /\ \A m \in DOMAIN S : R[m] = S[m]
  BY <1>1 DEF Recent
<1> HIDE DEF D, R, k
<1>3. \A j \in 1..n : C[j].key # k
  BY <1>2 DEF Cached, k
<1>9. PICK o \in {0, 1} : o = IF n < Capacity THEN 0 ELSE 1
  OBVIOUS
<1>10. Capacity \in Nat \ {0}
  BY CacheAssumption
<1>11. /\ Len(D) = n + 1 - o /\ D[Len(D)].key = k
       /\ \A j \in 1..Len(D) : j # Len(D) => D[j] = C[j + o]
  <2> HIDE DEF n
  <2>1. /\ Len(D) \in Nat \ {0} /\ D[Len(D)] = e
        /\ \/ n < Capacity /\ Len(D) = n + 1 /\ \A j \in 1..n : D[j] = C[j]
           \/ /\ n = Capacity /\ Len(D) = Capacity
              /\ \A j \in 1..(Capacity - 1) : D[j] = C[j + 1]
    BY <1>1 DEF Grown, n
  <2>2. D[Len(D)].key = k
    BY <2>1 DEF k
  <2>3. n \in Nat /\ n <= Capacity /\ Len(D) \in Nat
    BY <1>2
  <2>4. CASE n < Capacity
    <3>1. o = 0
      BY <1>9, <2>4
    <3>2. Len(D) = n + 1 /\ \A j \in 1..n : D[j] = C[j]
      BY <1>10, <2>1, <2>3, <2>4
    <3>3. ASSUME NEW j \in 1..Len(D), j # Len(D)
          PROVE  D[j] = C[j + o]
      BY <2>3, <3>1, <3>2, <3>3
    <3> QED
      BY <2>2, <2>3, <3>1, <3>2, <3>3
  <2>5. CASE n = Capacity
    <3>1. o = 1
      BY <1>9, <1>10, <2>5
    <3>2. Len(D) = Capacity /\ \A j \in 1..(Capacity - 1) : D[j] = C[j + 1]
      BY <1>10, <2>1, <2>3, <2>5
    <3>3. ASSUME NEW j \in 1..Len(D), j # Len(D)
          PROVE  D[j] = C[j + o]
      BY <1>10, <2>3, <3>1, <3>2, <3>3
    <3> QED
      BY <1>10, <2>2, <2>3, <2>5, <3>1, <3>2, <3>3
  <2> QED
    BY <1>10, <2>3, <2>4, <2>5
<1>4. /\ Len(D) = n + 1 - o /\ D[Len(D)].key = k /\ Len(D) <= Capacity
      /\ o = 1 => n = Capacity /\ n > 0
      /\ \A j \in 1..Len(D) : j # Len(D) => j + o \in 1..n /\ D[j] = C[j + o]
  <2> HIDE DEF n
  <2>1. n \in Nat /\ n <= Capacity /\ Len(D) \in Nat
    BY <1>2
  <2>2. (o = 0 /\ n < Capacity) \/ (o = 1 /\ n = Capacity)
    BY <1>9, <1>10, <2>1
  <2> QED
    BY <1>10, <1>11, <2>1, <2>2
<1> HIDE DEF n
<1>5. InOrder(D, R)
  <2> SUFFICES ASSUME NEW a \in 1..Len(D), NEW b \in 1..Len(D), a < b
               PROVE  Later(R, D[b].key, D[a].key)
    BY <1>2 DEF InOrder
  <2>1. a + o \in 1..n /\ D[a] = C[a + o] /\ C[a + o].key # k
    <3>1. a # Len(D)
      <4>1. Len(D) \in Nat /\ a < b /\ b <= Len(D)
        BY <1>2
      <4> QED
        BY <4>1
    <3> QED
      BY <1>3, <1>4, <3>1
  <2>2. CASE b = Len(D)
    BY <1>1, <1>4, <2>1, <2>2, LaterGrows DEF R
  <2>3. CASE b # Len(D)
    <3>1. b + o \in 1..n /\ D[b] = C[b + o] /\ a + o < b + o
      <4>1. b + o \in 1..n /\ D[b] = C[b + o]
        BY <1>4, <2>3
      <4>2. a \in Nat /\ b \in Nat /\ o \in {0, 1} /\ a < b
        BY <1>9
      <4>3. a + o < b + o
        BY <4>2
      <4> QED
        BY <4>1, <4>3
    <3>2. Later(S, C[b + o].key, C[a + o].key)
      BY <1>2, <2>1, <3>1 DEF Recent, InOrder
    <3> QED
      BY <1>1, <2>1, <3>1, <3>2, LaterGrows DEF R
  <2> QED
    BY <2>2, <2>3
<1>6. EvictedBefore(D, R)
  <2> SUFFICES ASSUME NEW m \in DOMAIN R, ~Cached(D, R[m])
               PROVE  Len(D) = Capacity /\ \A j \in 1..Len(D) : Later(R, D[j].key, R[m])
    BY <1>2 DEF EvictedBefore
  <2>1. Cached(D, k)
    BY <1>1, <1>2, <1>4 DEF Cached, Grown
  <2>2. R[m] # k /\ m \in DOMAIN S /\ R[m] = S[m]
    BY <1>2, <2>1
  <2>3. n = Capacity /\ \A j \in 1..Len(D) : j # Len(D) => Later(S, D[j].key, R[m])
    <3>1. CASE ~Cached(C, R[m])
      <4>1. n = Capacity /\ \A j \in 1..n : Later(S, C[j].key, R[m])
        BY <1>2, <2>2, <3>1 DEF Recent, EvictedBefore, n
      <4> QED
        BY <1>4, <4>1
    <3>2. CASE Cached(C, R[m])
      <4>1. PICK c \in 1..n : C[c].key = R[m]
        BY <1>2, <3>2 DEF Cached
      <4>2. c = 1 /\ o = 1
        <5> SUFFICES ASSUME ~(c = 1 /\ o = 1)
                     PROVE  FALSE
          OBVIOUS
        <5>1. c - o \in 1..Len(D) /\ c - o # Len(D) /\ (c - o) + o = c
          BY <1>2, <1>4
        <5>2. D[c - o] = C[c]
          BY <1>4, <5>1
        <5> QED
          BY <1>2, <2>2, <4>1, <5>1, <5>2 DEF Cached
      <4>3. \A j \in 1..Len(D) : j # Len(D) => Later(S, D[j].key, R[m])
        <5> SUFFICES ASSUME NEW j \in 1..Len(D), j # Len(D)
                     PROVE  Later(S, D[j].key, R[m])
          OBVIOUS
        <5>1. D[j] = C[j + 1] /\ j + 1 \in 1..n /\ 1 < j + 1 /\ 1 \in 1..n
          BY <1>2, <1>4, <4>2
        <5> QED
          BY <1>2, <4>1, <4>2, <5>1 DEF Recent, InOrder
      <4> QED
        BY <1>4, <4>2, <4>3
    <3> QED
      BY <3>1, <3>2
  <2>4. ASSUME NEW j \in 1..Len(D)
        PROVE  Later(R, D[j].key, R[m])
    <3>1. D[j].key = k \/ Later(S, D[j].key, R[m])
      BY <1>4, <2>3
    <3> QED
      BY <1>1, <2>2, <3>1, LaterGrows DEF R
  <2>5. Len(D) = Capacity
    <3>1. Capacity \in Nat \ {0}
      BY CacheAssumption
    <3> QED
      BY <1>2, <1>4, <2>3, <3>1
  <2> QED
    BY <2>4, <2>5
<1> QED
  BY <1>4, <1>5, <1>6 DEF Recent, D, R, k

LEMMA RecentNext == Inv /\ LeastRecentlyUsedGoes /\ [ClientNext]_clientVars => LeastRecentlyUsedGoes'
<1> SUFFICES ASSUME Inv, LeastRecentlyUsedGoes, [ClientNext]_clientVars
             PROVE  LeastRecentlyUsedGoes'
  OBVIOUS
<1> DEFINE All == \A w \in Processes, p \in Providers : Recent(clients[w][p], served[w][p])
<1>1. (LeastRecentlyUsedGoes <=> All) /\ (LeastRecentlyUsedGoes' <=> All')
  BY DEF LeastRecentlyUsedGoes, Recent, InOrder, EvictedBefore
<1>2. clients' = clients /\ served' = served => All'
  BY <1>1
<1> HIDE DEF All
<1>3. CASE UNCHANGED clientVars
  BY <1>1, <1>2, <1>3 DEF clientVars
<1>4. ASSUME NEW r \in ClientRequests, GetClient(r)
      PROVE  All'
  <2>1. req[r].pc = "resolved" /\ (Gets(r) \/ Refusal(r))
    BY <1>4, GetClientCases
  <2>2. CASE Refusal(r)
    BY <1>2, <2>2 DEF Refusal
  <2>3. CASE Gets(r)
    <3> PICK w, p : w = req[r].worker /\ p = req[r].config.provider
      OBVIOUS
    <3>1. Asked(r, w, p)
      BY <2>1, <2>3, AskedFacts
    <3>5. /\ w \in Processes /\ p \in Providers /\ OwnEntry(r) \in EntryType
          /\ served'[w][p] = Append(served[w][p], KeyOf(r))
      BY <3>1 DEF Asked
    <3>6. /\ clients \in [Processes -> [Providers -> Seq(EntryType)]]
          /\ served \in [Processes -> [Providers -> Seq(Keys)]]
      BY DEF Inv, ClientTypeOK
    <3>7. KeyOf(r) \in Keys
      BY <2>1, ClientFacts
    <3>8. clients[w][p] \in Seq(EntryType) /\ served[w][p] \in Seq(Keys)
      BY <3>5, <3>6
    <3>9. Recent(clients[w][p], served[w][p])
      BY <1>1, <3>5 DEF All
    <3>2. /\ w \in Processes /\ p \in Providers /\ OwnEntry(r) \in EntryType
          /\ clients \in [Processes -> [Providers -> Seq(EntryType)]] /\ KeyOf(r) \in Keys
          /\ clients[w][p] \in Seq(EntryType) /\ served[w][p] \in Seq(Keys)
          /\ served'[w][p] = Append(served[w][p], KeyOf(r)) /\ Recent(clients[w][p], served[w][p])
      BY <3>5, <3>6, <3>7, <3>8, <3>9
    <3>3. Recent(clients'[w][p], served'[w][p])
      <4>1. ASSUME NEW i, Hit(r, i)
            PROVE  Recent(clients'[w][p], served'[w][p])
        <5>1. /\ i \in DOMAIN clients[w][p] /\ clients[w][p][i].key = KeyOf(r)
              /\ clients' = [clients EXCEPT ![w][p] = Touched(clients[w][p], i)]
          BY <4>1 DEF Hit
        <5>2. clients'[w][p] = Touched(clients[w][p], i)
          BY <3>2, <5>1
        <5> QED
          BY <3>2, <5>1, <5>2, HitRecent
      <4>2. CASE Miss(r)
        <5>1. /\ ~Cached(clients[w][p], OwnEntry(r).key) /\ OwnEntry(r).key = KeyOf(r)
              /\ clients' = [clients EXCEPT ![w][p] = Inserted(clients[w][p], OwnEntry(r))]
          BY <4>2 DEF Miss, OwnEntry
        <5>2. clients'[w][p] = Inserted(clients[w][p], OwnEntry(r))
          BY <3>2, <5>1
        <5> QED
          BY <3>2, <5>1, <5>2, MissRecent
      <4> QED
        BY <2>3, <4>1, <4>2 DEF Gets
    <3> SUFFICES ASSUME NEW v \in Processes, NEW q \in Providers
                 PROVE  Recent(clients'[v][q], served'[v][q])
      BY DEF All
    <3>4. CASE v # w \/ q # p
      <4>1. clients'[v][q] = clients[v][q] /\ served'[v][q] = served[v][q]
        BY <3>1, <3>4 DEF Asked
      <4>2. Recent(clients[v][q], served[v][q])
        BY <1>1 DEF All
      <4> QED
        BY <4>1, <4>2
    <3> QED
      BY <3>3, <3>4
  <2> QED
    BY <2>1, <2>2, <2>3
<1>5. CASE \E r \in ClientRequests : ClientStep(r)
  <2>1. PICK r \in ClientRequests : ClientStep(r)
    BY <1>5
  <2> QED
    BY <1>1, <1>2, <1>4, <2>1 DEF ClientStep, FindModel, ResolveSecrets
<1>6. ASSUME NEW a \in Administrators, ClearCache(a)
      PROVE  All'
  <2>1. \A v \in Processes, p \in Providers :
           \/ clients'[v][p] = clients[v][p] /\ served'[v][p] = served[v][p]
           \/ clients'[v][p] = <<>> /\ served'[v][p] = <<>>
    <3> PICK w, s : w = writer[a].worker /\ s = writer[a].secret
      OBVIOUS
    <3>1. \A v \in Processes, p \in Providers :
             /\ clients'[v][p] = IF v = w /\ p = "openai" THEN <<>> ELSE clients[v][p]
             /\ served'[v][p] = IF v = w /\ p = "openai" THEN <<>> ELSE served[v][p]
      BY <1>6, ClearCacheFacts
    <3> QED
      BY <3>1
  <2>2. Recent(<<>>, <<>>)
    BY CacheAssumption DEF Recent, InOrder, EvictedBefore
  <2> SUFFICES ASSUME NEW v \in Processes, NEW q \in Providers
               PROVE  Recent(clients'[v][q], served'[v][q])
    BY DEF All
  <2>3. Recent(clients[v][q], served[v][q])
    BY <1>1 DEF All
  <2> QED
    BY <2>1, <2>2, <2>3
<1>7. CASE \E a \in Administrators : SecretStep(a)
  BY <1>1, <1>2, <1>6, <1>7 DEF SecretStep, ChangeSecret
<1>8. CASE \E m \in Models, c \in Configs : ChangeModel(m, c)
  BY <1>1, <1>2, <1>8 DEF ChangeModel
<1> QED
  BY <1>1, <1>3, <1>5, <1>7, <1>8 DEF ClientNext

\* A cache keeps what was asked for last, as much as there is room for and each once: what
\* is evicted is the least recently used.
THEOREM LeastRecentlyUsedIsEvicted == ClientSpec => []LeastRecentlyUsedGoes
<1>1. ClientInit => LeastRecentlyUsedGoes
  BY CacheAssumption DEF ClientInit, LeastRecentlyUsedGoes
<1> QED
  BY <1>1, RecentNext, InvHolds, PTL DEF ClientSpec
=============================================================================
