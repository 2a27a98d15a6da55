------------------------- MODULE StreamRelayProofs -------------------------
(***************************************************************************)
(* Proofs about StreamRelay, for every queue size, stream length, number   *)
(* of cancellations and set of cancellation points.                        *)
(***************************************************************************)
EXTENDS StreamRelay, TLAPS

\* Where the audit row stands, given where the producer is.
AuditInv ==
    /\ Len(rows) <= 1
    /\ prod \in {"unborn", "new", "pull", "put", "putexc", "finalize"} => rows = <<>>
    /\ prod = "refresh" => rows # <<>>
    /\ outcome = "ok" => rows # <<>>
    /\ gen = "new" => prod = "unborn"
    /\ Over => prod \in {"unborn", "done"}

\* The generator still pulls the queue, so nobody has gone.
Pulling == gen \in {"new", "get", "send"}

\* What the queue holds, given where the producer is, while it is pulled.
QueueInv ==
    /\ Pulling => ~disconnected /\ orphan = 0
    /\ Pulling => \A i \in DOMAIN queue :
                      queue[i] = EndMark \/ queue[i] = Len(relayed) + i
    /\ Pulling /\ prod \in {"put", "putexc"} =>
           emitted = Len(relayed) + Len(queue) + 1
    /\ Pulling /\ prod \notin {"put", "putexc", "done"} =>
           emitted = Len(relayed) + Len(queue)

\* Event n was relayed or waits in the queue.
Held(n) ==
    \/ \E i \in DOMAIN relayed : relayed[i] = n
    \/ \E i \in DOMAIN queue : queue[i] = n

\* A row is the one _finalize was called with, and one with status 200 is only
\* prepared when every event is held.
OkInv ==
    /\ rows # <<>> => rows[1] = fin
    /\ fin.status = "ok" => prod \in {"finalize", "refresh", "sentinel", "done"}
    /\ fin.status = "ok" => \A n \in 1..emitted : Held(n)
    /\ ~disconnected /\ prod \in {"unborn", "new", "pull"} =>
           \A n \in 1..emitted : Held(n)
    /\ ~disconnected /\ prod \in {"put", "putexc"} =>
           \A n \in 1..(emitted - 1) : Held(n)

\* Billable rows are prepared with the token counts: a provider that has not
\* filled them in has reported an error.
UsageInv ==
    /\ fin.status \in {"ok", "gone"} => fin.usage
    /\ provider = "errored" => stateError

\* The sentinel is the last item of the queue and comes after every event; a
\* response that ended cleanly has taken it.
EndInv ==
    /\ Pulling /\ prod # "done" => \A i \in DOMAIN queue : queue[i] # EndMark
    /\ Pulling /\ prod = "done" =>
           /\ emitted = Len(relayed) + Len(queue) - 1
           /\ \A i \in 1 .. Len(queue) - 1 : queue[i] # EndMark
    /\ gen = "ended" => emitted = Len(relayed)
    /\ errorEvent <= emitted
    /\ Pulling /\ prod \in {"put", "putexc"} => emitted # 0

RelayInv == TypeOK /\ AuditInv /\ QueueInv /\ RelayInOrder /\ OkInv

-----------------------------------------------------------------------------
\* Type correctness: every variable of the relay keeps its type, and the queue
\* never holds more than maxsize items, detached put_tasks included.
THEOREM TypeCorrect == Spec => []TypeOK
<1>1. Init => TypeOK
  <2> SUFFICES ASSUME Init PROVE TypeOK
    OBVIOUS
  <2> USE QueueSizeAssumption, BoundsAssumption DEF Init
  <2>1. queue \in Seq(0..MaxEvents) /\ Len(queue) <= QueueSize
    OBVIOUS
  <2>2. relayed \in Seq(1..MaxEvents)
    OBVIOUS
  <2>3. rows \in Seq(Row)
    OBVIOUS
  <2>4. fin \in Row \cup {NoRow} /\ prod # "finalize"
    OBVIOUS
  <2>5. /\ emitted \in 0..MaxEvents /\ errorEvent \in 0..MaxEvents
        /\ orphan \in 0..MaxEvents /\ cancels \in 0..MaxCancels
    OBVIOUS
  <2> QED
    BY <2>1, <2>2, <2>3, <2>4, <2>5 DEF TypeOK
<1>2. TypeOK /\ [Next]_vars => TypeOK'
  <2> SUFFICES ASSUME TypeOK, [Next]_vars PROVE TypeOK'
    OBVIOUS
  <2> USE QueueSizeAssumption, BoundsAssumption DEF TypeOK, Row, NoRow, EndMark, providerVars, producerVars, clientVars
  <2>1. CASE ProducerStart
    BY <2>1 DEF ProducerStart
  <2>2. CASE EmitEvent
    BY <2>2 DEF EmitEvent, QueueOrSkip
  <2>3. CASE EmitErrorFrame
    BY <2>3 DEF EmitErrorFrame, QueueOrSkip
  <2>4. CASE StreamRaises
    BY <2>4 DEF StreamRaises, BeginFinalize
  <2>5. CASE StreamEnds
    BY <2>5 DEF StreamEnds, BeginFinalize
  <2>6. CASE EnqueueEvent
    BY <2>6 DEF EnqueueEvent, AfterQueueEvent, BeginFinalize
  <2>7. CASE DropEvent
    BY <2>7 DEF DropEvent, AfterQueueEvent, BeginFinalize
  <2>8. CASE FinalizeCommits
    BY <2>8 DEF FinalizeCommits
  <2>9. CASE FinalizeFails
    BY <2>9 DEF FinalizeFails, EnterFinally
  <2>10. CASE RefreshReturns
    BY <2>10 DEF RefreshReturns, EnterFinally
  <2>11. CASE PutSentinel
    BY <2>11 DEF PutSentinel
  <2>12. CASE StartBody
    BY <2>12 DEF StartBody
  <2>13. CASE GetEvent
    BY <2>13 DEF GetEvent
  <2>14. CASE GetSentinel
    BY <2>14 DEF GetSentinel
  <2>15. CASE SendReturns
    BY <2>15 DEF SendReturns
  <2>16. CASE ShieldReturns
    BY <2>16 DEF ShieldReturns
  <2>17. CASE CloseDropped
    BY <2>17 DEF CloseDropped, CancelProducer, EnterFinally
  <2>18. CASE ReapReturns
    BY <2>18 DEF ReapReturns
  <2>19. CASE CancelNew
    BY <2>19 DEF CancelNew, Cancels
  <2>20. CASE CancelAtGet
    BY <2>20 DEF CancelAtGet, Cancels
  <2>21. CASE CancelAtShield
    BY <2>21 DEF CancelAtShield, Cancels, CancelProducer, EnterFinally
  <2>22. CASE CancelAtSend
    BY <2>22 DEF CancelAtSend, Cancels
  <2>23. CASE OrphanPuts
    BY <2>23 DEF OrphanPuts
  <2>24. CASE ProviderCloses
    BY <2>24 DEF ProviderCloses
  <2>25. CASE UNCHANGED vars
    BY <2>25 DEF vars
  <2> QED
    BY <2>1, <2>2, <2>3, <2>4, <2>5, <2>6, <2>7, <2>8, <2>9, <2>10, <2>11, <2>12, <2>13, <2>14, <2>15, <2>16, <2>17, <2>18, <2>19, <2>20, <2>21, <2>22, <2>23, <2>24, <2>25
       DEF Next, ProducerStep, GeneratorStep, ServerCancels
<1> QED
  BY <1>1, <1>2, PTL DEF Spec

\* The audit row is written at most once, before the producer is done, and a
\* producer that ended normally has written it.
LEMMA AuditInvariant == Spec => []AuditInv
<1>1. Init => AuditInv
  BY DEF Init, AuditInv, Over
<1>2. TypeOK /\ AuditInv /\ [Next]_vars => AuditInv'
  <2> SUFFICES ASSUME TypeOK /\ AuditInv, [Next]_vars PROVE AuditInv'
    OBVIOUS
  <2> USE QueueSizeAssumption, BoundsAssumption DEF TypeOK, AuditInv, Over, providerVars, producerVars, clientVars
  <2>1. CASE ProducerStart
    BY <2>1 DEF ProducerStart
  <2>2. CASE EmitEvent
    BY <2>2 DEF EmitEvent, QueueOrSkip
  <2>3. CASE EmitErrorFrame
    BY <2>3 DEF EmitErrorFrame, QueueOrSkip
  <2>4. CASE StreamRaises
    BY <2>4 DEF StreamRaises, BeginFinalize
  <2>5. CASE StreamEnds
    BY <2>5 DEF StreamEnds, BeginFinalize
  <2>6. CASE EnqueueEvent
    BY <2>6 DEF EnqueueEvent, AfterQueueEvent, BeginFinalize
  <2>7. CASE DropEvent
    BY <2>7 DEF DropEvent, AfterQueueEvent, BeginFinalize
  <2>8. CASE FinalizeCommits
    <3>1. rows = <<>> /\ rows' = <<fin>>
      BY <2>8 DEF FinalizeCommits
    <3>2. Len(rows') = 1 /\ rows' # <<>>
      BY <3>1
    <3> QED
      BY <2>8, <3>2 DEF FinalizeCommits
  <2>9. CASE FinalizeFails
    BY <2>9 DEF FinalizeFails, EnterFinally
  <2>10. CASE RefreshReturns
    BY <2>10 DEF RefreshReturns, EnterFinally
  <2>11. CASE PutSentinel
    BY <2>11 DEF PutSentinel
  <2>12. CASE StartBody
    BY <2>12 DEF StartBody
  <2>13. CASE GetEvent
    BY <2>13 DEF GetEvent
  <2>14. CASE GetSentinel
    BY <2>14 DEF GetSentinel
  <2>15. CASE SendReturns
    BY <2>15 DEF SendReturns
  <2>16. CASE ShieldReturns
    BY <2>16 DEF ShieldReturns
  <2>17. CASE CloseDropped
    BY <2>17 DEF CloseDropped, CancelProducer, EnterFinally
  <2>18. CASE ReapReturns
    BY <2>18 DEF ReapReturns
  <2>19. CASE CancelNew
    BY <2>19 DEF CancelNew, Cancels
  <2>20. CASE CancelAtGet
    BY <2>20 DEF CancelAtGet, Cancels
  <2>21. CASE CancelAtShield
    BY <2>21 DEF CancelAtShield, Cancels, CancelProducer, EnterFinally
  <2>22. CASE CancelAtSend
    BY <2>22 DEF CancelAtSend, Cancels
  <2>23. CASE OrphanPuts
    BY <2>23 DEF OrphanPuts
  <2>24. CASE ProviderCloses
    BY <2>24 DEF ProviderCloses
  <2>25. CASE UNCHANGED vars
    BY <2>25 DEF vars
  <2> QED
    BY <2>1, <2>2, <2>3, <2>4, <2>5, <2>6, <2>7, <2>8, <2>9, <2>10, <2>11, <2>12, <2>13, <2>14, <2>15, <2>16, <2>17, <2>18, <2>19, <2>20, <2>21, <2>22, <2>23, <2>24, <2>25
       DEF Next, ProducerStep, GeneratorStep, ServerCancels
<1> QED
  BY <1>1, <1>2, TypeCorrect, PTL DEF Spec

\* While the generator pulls, the queue holds exactly the events that follow the
\* ones it relayed.
LEMMA QueueInvariant == Spec => [](QueueInv /\ RelayInOrder)
<1>1. Init => QueueInv /\ RelayInOrder
  BY DEF Init, QueueInv, RelayInOrder, Pulling
<1>2. TypeOK /\ AuditInv /\ (QueueInv /\ RelayInOrder) /\ [Next]_vars => (QueueInv /\ RelayInOrder)'
  <2> SUFFICES ASSUME TypeOK /\ AuditInv /\ (QueueInv /\ RelayInOrder), [Next]_vars PROVE (QueueInv /\ RelayInOrder)'
    OBVIOUS
  <2> USE QueueSizeAssumption, BoundsAssumption DEF TypeOK, QueueInv, RelayInOrder, Pulling, EndMark, providerVars, producerVars, clientVars
  <2>1. CASE ProducerStart
    BY <2>1 DEF ProducerStart
  <2>2. CASE EmitEvent
    BY <2>2 DEF EmitEvent, QueueOrSkip
  <2>3. CASE EmitErrorFrame
    BY <2>3 DEF EmitErrorFrame, QueueOrSkip
  <2>4. CASE StreamRaises
    BY <2>4 DEF StreamRaises, BeginFinalize
  <2>5. CASE StreamEnds
    BY <2>5 DEF StreamEnds, BeginFinalize
  <2>6. CASE EnqueueEvent
    <3>1. /\ queue' \in Seq(0..MaxEvents) /\ Len(queue') = Len(queue) + 1
          /\ DOMAIN queue' = 1 .. Len(queue) + 1
          /\ \A i \in 1 .. Len(queue) : queue'[i] = queue[i]
          /\ queue'[Len(queue) + 1] = emitted
      BY <2>6 DEF EnqueueEvent
    <3>2. /\ prod \in {"put", "putexc"} /\ prod' \in {"pull", "finalize"}
          /\ UNCHANGED <<gen, relayed, disconnected, orphan, emitted>>
      BY <2>6 DEF EnqueueEvent, AfterQueueEvent, BeginFinalize
    <3>3. Pulling' => \A i \in DOMAIN queue' :
                        queue'[i] = 0 \/ queue'[i] = Len(relayed') + i
      <4> SUFFICES ASSUME Pulling, NEW i \in DOMAIN queue'
                   PROVE  queue'[i] = 0 \/ queue'[i] = Len(relayed) + i
        BY <3>2
      <4>1. CASE i = Len(queue) + 1
        BY <4>1, <3>1, <3>2
      <4>2. CASE i # Len(queue) + 1
        <5>1. i \in 1 .. Len(queue) /\ i \in DOMAIN queue
          BY <4>2, <3>1
        <5>2. queue[i] = 0 \/ queue[i] = Len(relayed) + i
          BY <5>1
        <5>3. queue'[i] = queue[i]
          BY <5>1, <3>1
        <5> QED
          BY <5>2, <5>3
      <4> QED
        BY <4>1, <4>2
    <3> QED
      BY <3>1, <3>2, <3>3
  <2>7. CASE DropEvent
    BY <2>7 DEF DropEvent, AfterQueueEvent, BeginFinalize
  <2>8. CASE FinalizeCommits
    BY <2>8 DEF FinalizeCommits
  <2>9. CASE FinalizeFails
    BY <2>9 DEF FinalizeFails, EnterFinally
  <2>10. CASE RefreshReturns
    BY <2>10 DEF RefreshReturns, EnterFinally
  <2>11. CASE PutSentinel
    BY <2>11 DEF PutSentinel
  <2>12. CASE StartBody
    BY <2>12 DEF StartBody, AuditInv
  <2>13. CASE GetEvent
    <3> DEFINE n == Len(relayed)
    <3>1. /\ queue # <<>> /\ Head(queue) = queue[1] /\ Head(queue) # EndMark
          /\ 1 \in DOMAIN queue /\ queue[1] = n + 1
      BY <2>13 DEF GetEvent
    <3>2. /\ Len(queue') = Len(queue) - 1 /\ DOMAIN queue' = 1 .. Len(queue) - 1
          /\ \A i \in 1 .. Len(queue) - 1 : queue'[i] = queue[i + 1]
      BY <2>13, <3>1 DEF GetEvent
    <3>3. /\ Len(relayed') = n + 1 /\ DOMAIN relayed' = 1 .. n + 1
          /\ \A i \in 1 .. n : relayed'[i] = relayed[i]
          /\ relayed'[n + 1] = n + 1
      BY <2>13, <3>1 DEF GetEvent
    <3>4. /\ gen = "get" /\ gen' = "send"
          /\ UNCHANGED <<prod, disconnected, orphan, emitted>>
      BY <2>13 DEF GetEvent
    <3>5. \A i \in DOMAIN queue' : queue'[i] = 0 \/ queue'[i] = Len(relayed') + i
      <4> TAKE i \in DOMAIN queue'
      <4>1. i + 1 \in DOMAIN queue /\ queue'[i] = queue[i + 1]
        BY <3>2
      <4>2. queue[i + 1] = 0 \/ queue[i + 1] = n + (i + 1)
        BY <4>1, <3>4
      <4> QED
        BY <4>1, <4>2, <3>2, <3>3
    <3>6. \A i \in DOMAIN relayed' : relayed'[i] = i
      <4> TAKE i \in DOMAIN relayed'
      <4>1. n \in Nat /\ DOMAIN relayed = 1 .. n
        OBVIOUS
      <4>2. CASE i = n + 1
        BY <4>2, <3>3
      <4>3. CASE i # n + 1
        <5>1. i \in 1 .. n
          BY <4>1, <4>3, <3>3
        <5> QED
          BY <5>1, <4>1, <3>3
      <4> QED
        BY <4>2, <4>3
    <3>7. /\ prod' \in {"put", "putexc"} => emitted' = Len(relayed') + Len(queue') + 1
          /\ prod' \notin {"put", "putexc", "done"} =>
                 emitted' = Len(relayed') + Len(queue')
      <4>1. Len(relayed') + Len(queue') = Len(relayed) + Len(queue)
        BY <3>2, <3>3
      <4> QED
        BY <4>1, <3>4
    <3> QED
      BY <3>4, <3>5, <3>6, <3>7
  <2>14. CASE GetSentinel
    BY <2>14 DEF GetSentinel
  <2>15. CASE SendReturns
    BY <2>15 DEF SendReturns
  <2>16. CASE ShieldReturns
    BY <2>16 DEF ShieldReturns
  <2>17. CASE CloseDropped
    BY <2>17 DEF CloseDropped, CancelProducer, EnterFinally
  <2>18. CASE ReapReturns
    BY <2>18 DEF ReapReturns
  <2>19. CASE CancelNew
    BY <2>19 DEF CancelNew, Cancels
  <2>20. CASE CancelAtGet
    BY <2>20 DEF CancelAtGet, Cancels
  <2>21. CASE CancelAtShield
    BY <2>21 DEF CancelAtShield, Cancels, CancelProducer, EnterFinally
  <2>22. CASE CancelAtSend
    BY <2>22 DEF CancelAtSend, Cancels
  <2>23. CASE OrphanPuts
    BY <2>23 DEF OrphanPuts
  <2>24. CASE ProviderCloses
    BY <2>24 DEF ProviderCloses
  <2>25. CASE UNCHANGED vars
    BY <2>25 DEF vars
  <2> QED
    BY <2>1, <2>2, <2>3, <2>4, <2>5, <2>6, <2>7, <2>8, <2>9, <2>10, <2>11, <2>12, <2>13, <2>14, <2>15, <2>16, <2>17, <2>18, <2>19, <2>20, <2>21, <2>22, <2>23, <2>24, <2>25
       DEF Next, ProducerStep, GeneratorStep, ServerCancels
<1> QED
  BY <1>1, <1>2, TypeCorrect, AuditInvariant, PTL DEF Spec

\* Appending to the queue loses no event and holds the new one.
LEMMA AppendKeeps ==
    ASSUME TypeOK, NEW e \in 0..MaxEvents, queue' = Append(queue, e),
           relayed' = relayed
    PROVE  (\A n : Held(n) => Held(n)') /\ Held(e)'
<1>1. /\ DOMAIN queue = 1 .. Len(queue) /\ Len(queue) \in Nat
      /\ DOMAIN queue' = 1 .. Len(queue) + 1
      /\ \A i \in 1 .. Len(queue) : queue'[i] = queue[i]
      /\ queue'[Len(queue) + 1] = e
  BY DEF TypeOK
<1>2. ASSUME NEW n, Held(n) PROVE Held(n)'
  BY <1>1, <1>2 DEF Held
<1>3. Held(e)'
  BY <1>1 DEF Held
<1> QED
  BY <1>2, <1>3

\* Taking an item from the queue loses no event: it is relayed, or the sentinel.
LEMMA GetKeeps ==
    ASSUME TypeOK, GetEvent \/ GetSentinel
    PROVE  \A n \in Nat \ {0} : Held(n) => Held(n)'
<1> SUFFICES ASSUME NEW n \in Nat \ {0}, Held(n) PROVE Held(n)'
  OBVIOUS
<1>1. /\ queue # <<>> /\ queue' = Tail(queue) /\ Head(queue) = queue[1]
      /\ \/ Head(queue) # EndMark /\ relayed' = Append(relayed, Head(queue))
         \/ Head(queue) = EndMark /\ relayed' = relayed
  BY DEF GetEvent, GetSentinel, TypeOK
<1>2. /\ DOMAIN queue = 1 .. Len(queue) /\ Len(queue) \in Nat
      /\ DOMAIN queue' = 1 .. Len(queue) - 1
      /\ \A i \in 1 .. Len(queue) - 1 : queue'[i] = queue[i + 1]
  BY <1>1 DEF TypeOK
<1>3. /\ \A i \in DOMAIN relayed : i \in DOMAIN relayed' /\ relayed'[i] = relayed[i]
      /\ queue[1] # EndMark => \E i \in DOMAIN relayed' : relayed'[i] = queue[1]
  <2>1. CASE Head(queue) = EndMark
    BY <2>1, <1>1
  <2>2. CASE Head(queue) # EndMark
    <3>1. queue[1] \in 1..MaxEvents
      BY <1>1, <1>2, <2>2, BoundsAssumption DEF TypeOK, EndMark
    <3>2. relayed \in Seq(1..MaxEvents) /\ relayed' = Append(relayed, queue[1])
      BY <1>1, <2>2 DEF TypeOK
    <3>3. /\ DOMAIN relayed = 1 .. Len(relayed) /\ Len(relayed) \in Nat
          /\ DOMAIN relayed' = 1 .. Len(relayed) + 1
          /\ \A i \in 1 .. Len(relayed) : relayed'[i] = relayed[i]
          /\ relayed'[Len(relayed) + 1] = queue[1]
      BY <3>1, <3>2
    <3> QED
      BY <3>3
  <2> QED
    BY <2>1, <2>2
<1>4. CASE \E i \in DOMAIN relayed : relayed[i] = n
  BY <1>4, <1>3 DEF Held
<1>5. CASE \E i \in DOMAIN queue : queue[i] = n
  <2> PICK i \in DOMAIN queue : queue[i] = n
    BY <1>5
  <2>1. CASE i = 1
    BY <2>1, <1>3 DEF Held, EndMark
  <2>2. CASE i # 1
    <3>1. i - 1 \in 1 .. Len(queue) - 1 /\ queue'[i - 1] = queue[i]
      BY <2>2, <1>2
    <3> QED
      BY <3>1, <1>2 DEF Held
  <2> QED
    BY <2>1, <2>2
<1> QED
  BY <1>4, <1>5 DEF Held

LEMMA OkInvariant == Spec => []OkInv
<1>1. Init => OkInv
  BY DEF Init, OkInv, NoRow, Held
<1>2. TypeOK /\ TypeOK' /\ AuditInv /\ OkInv /\ [Next]_vars => OkInv'
  <2> SUFFICES ASSUME TypeOK, TypeOK', AuditInv, OkInv, [Next]_vars PROVE OkInv'
    OBVIOUS
  <2> DEFINE Kept == \A n \in Nat \ {0} : Held(n) => Held(n)'
  <2>0. emitted \in Nat /\ emitted' \in Nat
    BY BoundsAssumption DEF TypeOK
  <2> USE <2>0 DEF providerVars, producerVars, clientVars
  <2>1. CASE ProducerStart
    <3>1. Kept /\ UNCHANGED <<rows, fin, emitted>>
      BY <2>1 DEF ProducerStart, Held
    <3> QED
      BY <2>1, <3>1 DEF OkInv, ProducerStart
  <2>2. CASE EmitEvent
    <3>1. /\ prod = "pull" /\ emitted' = emitted + 1
          /\ UNCHANGED <<rows, disconnected, queue, relayed>>
          /\ ~disconnected => prod' \in {"put", "putexc"} /\ fin' = fin
          /\ disconnected => prod' \in {"pull", "finalize"}
          /\ fin' = fin \/ fin'.status = "error"
      BY <2>2 DEF EmitEvent, QueueOrSkip
    <3>2. rows = <<>> /\ fin'.status # "ok"
      BY <3>1 DEF AuditInv, OkInv
    <3>3. Kept
      BY <3>1 DEF Held
    <3> QED
      BY <3>1, <3>2, <3>3 DEF OkInv
  <2>3. CASE EmitErrorFrame
    <3>1. /\ prod = "pull" /\ emitted' = emitted + 1
          /\ UNCHANGED <<rows, disconnected, queue, relayed>>
          /\ ~disconnected => prod' \in {"put", "putexc"} /\ fin' = fin
          /\ disconnected => prod' \in {"pull", "finalize"}
          /\ fin' = fin \/ fin'.status = "error"
      BY <2>3 DEF EmitErrorFrame, QueueOrSkip
    <3>2. rows = <<>> /\ fin'.status # "ok"
      BY <3>1 DEF AuditInv, OkInv
    <3>3. Kept
      BY <3>1 DEF Held
    <3> QED
      BY <3>1, <3>2, <3>3 DEF OkInv
  <2>4. CASE StreamRaises
    <3>1. /\ prod = "pull" /\ emitted' = emitted + 1
          /\ UNCHANGED <<rows, disconnected, queue, relayed>>
          /\ ~disconnected => prod' \in {"put", "putexc"} /\ fin' = fin
          /\ disconnected => prod' \in {"pull", "finalize"}
          /\ fin' = fin \/ fin'.status = "error"
      BY <2>4 DEF StreamRaises, BeginFinalize
    <3>2. rows = <<>> /\ fin'.status # "ok"
      BY <3>1 DEF AuditInv, OkInv
    <3>3. Kept
      BY <3>1 DEF Held
    <3> QED
      BY <3>1, <3>2, <3>3 DEF OkInv
  <2>5. CASE StreamEnds
    <3>1. /\ prod = "pull" /\ prod' = "finalize"
          /\ UNCHANGED <<rows, disconnected, queue, relayed, emitted>>
          /\ fin'.status = "ok" => ~disconnected
      BY <2>5 DEF StreamEnds, BeginFinalize
    <3>2. rows = <<>>
      BY <3>1 DEF AuditInv
    <3>3. Kept
      BY <3>1 DEF Held
    <3> QED
      BY <3>1, <3>2, <3>3 DEF OkInv
  <2>6. CASE EnqueueEvent
    <3>1. /\ queue' = Append(queue, emitted) /\ relayed' = relayed
          /\ UNCHANGED <<emitted, disconnected, rows>>
          /\ prod \in {"put", "putexc"} /\ prod' \in {"pull", "finalize"}
          /\ prod' = "pull" => prod = "put" /\ fin' = fin
          /\ prod' = "finalize" => fin'.status = "error"
      BY <2>6 DEF EnqueueEvent, AfterQueueEvent, BeginFinalize
    <3> PICK e \in 0..MaxEvents : e = emitted
      BY DEF TypeOK
    <3>2. Kept /\ Held(e)'
      BY <3>1, AppendKeeps
    <3>3. rows = <<>>
      BY <3>1 DEF AuditInv
    <3>4. fin'.status # "ok"
      BY <3>1 DEF OkInv
    <3>5. ~disconnected => \A n \in 1..emitted : Held(n)'
      <4> SUFFICES ASSUME ~disconnected, NEW n \in 1..emitted PROVE Held(n)'
        OBVIOUS
      <4>1. CASE n = e
        BY <4>1, <3>2
      <4>2. CASE n # e
        BY <4>2, <3>1, <3>2 DEF OkInv
      <4> QED
        BY <4>1, <4>2
    <3> QED
      BY <3>1, <3>3, <3>4, <3>5 DEF OkInv
  <2>7. CASE DropEvent
    <3>1. /\ disconnected /\ disconnected' /\ prod \in {"put", "putexc"}
          /\ prod' \in {"pull", "finalize"} /\ UNCHANGED rows
          /\ fin' = fin \/ fin'.status = "error"
      BY <2>7 DEF DropEvent, AfterQueueEvent, BeginFinalize
    <3>2. rows = <<>> /\ fin'.status # "ok"
      BY <3>1 DEF AuditInv, OkInv
    <3> QED
      BY <3>1, <3>2 DEF OkInv
  <2>8. CASE FinalizeCommits
    <3>1. /\ prod = "finalize" /\ prod' = "refresh" /\ rows' = Append(rows, fin)
          /\ UNCHANGED <<fin, emitted, relayed, queue, disconnected>>
      BY <2>8 DEF FinalizeCommits
    <3>2. rows = <<>> /\ rows' = <<fin>>
      BY <3>1 DEF AuditInv
    <3>3. rows'[1] = fin'
      BY <3>1, <3>2
    <3>4. Kept /\ UNCHANGED <<emitted, disconnected, fin>>
      BY <3>1 DEF Held
    <3> QED
      BY <3>1, <3>3, <3>4 DEF OkInv
  <2>9. CASE FinalizeFails
    <3>1. Kept /\ UNCHANGED <<rows, fin, emitted>>
      BY <2>9 DEF FinalizeFails, Held
    <3> QED
      BY <2>9, <3>1 DEF OkInv, FinalizeFails, EnterFinally
  <2>10. CASE RefreshReturns
    <3>1. Kept /\ UNCHANGED <<rows, fin, emitted>>
      BY <2>10 DEF RefreshReturns, Held
    <3> QED
      BY <2>10, <3>1 DEF OkInv, RefreshReturns, EnterFinally
  <2>11. CASE PutSentinel
    <3> PICK e \in 0..MaxEvents : e = EndMark
      BY BoundsAssumption DEF TypeOK, EndMark
    <3>1. /\ queue' = Append(queue, e) /\ relayed' = relayed
          /\ UNCHANGED <<emitted, disconnected, rows, fin>>
          /\ prod' \in {prod, "done"} /\ (prod' # prod => prod = "sentinel")
      BY <2>11 DEF PutSentinel
    <3>2. Kept
      BY <3>1, AppendKeeps
    <3> QED
      BY <3>1, <3>2 DEF OkInv
  <2>12. CASE StartBody
    <3>1. Kept /\ UNCHANGED <<rows, fin, emitted>>
      BY <2>12 DEF StartBody, Held
    <3> QED
      BY <2>12, <3>1 DEF OkInv, StartBody, AuditInv
  <2>13. CASE GetEvent
    <3>1. UNCHANGED <<emitted, disconnected, rows, fin, prod>>
      BY <2>13 DEF GetEvent
    <3>2. Kept
      BY <2>13, GetKeeps
    <3> QED
      BY <3>1, <3>2 DEF OkInv
  <2>14. CASE GetSentinel
    <3>1. UNCHANGED <<emitted, disconnected, rows, fin, prod>>
      BY <2>14 DEF GetSentinel
    <3>2. Kept
      BY <2>14, GetKeeps
    <3> QED
      BY <3>1, <3>2 DEF OkInv
  <2>15. CASE SendReturns
    <3>1. Kept /\ UNCHANGED <<rows, fin, emitted>>
      BY <2>15 DEF SendReturns, Held
    <3> QED
      BY <2>15, <3>1 DEF OkInv, SendReturns
  <2>16. CASE ShieldReturns
    <3>1. Kept /\ UNCHANGED <<rows, fin, emitted>>
      BY <2>16 DEF ShieldReturns, Held
    <3> QED
      BY <2>16, <3>1 DEF OkInv, ShieldReturns
  <2>17. CASE CloseDropped
    <3>1. Kept /\ UNCHANGED <<rows, fin, emitted>>
      BY <2>17 DEF CloseDropped, Held
    <3> QED
      BY <2>17, <3>1 DEF OkInv, CloseDropped, CancelProducer, EnterFinally
  <2>18. CASE ReapReturns
    <3>1. Kept /\ UNCHANGED <<rows, fin, emitted>>
      BY <2>18 DEF ReapReturns, Held
    <3> QED
      BY <2>18, <3>1 DEF OkInv, ReapReturns
  <2>19. CASE CancelNew
    <3>1. Kept /\ UNCHANGED <<rows, fin, emitted>>
      BY <2>19 DEF CancelNew, Held
    <3> QED
      BY <2>19, <3>1 DEF OkInv, CancelNew, Cancels
  <2>20. CASE CancelAtGet
    <3>1. Kept /\ UNCHANGED <<rows, fin, emitted>>
      BY <2>20 DEF CancelAtGet, Held
    <3> QED
      BY <2>20, <3>1 DEF OkInv, CancelAtGet, Cancels
  <2>21. CASE CancelAtShield
    <3>1. Kept /\ UNCHANGED <<rows, fin, emitted>>
      BY <2>21 DEF CancelAtShield, Held
    <3> QED
      BY <2>21, <3>1 DEF OkInv, CancelAtShield, Cancels, CancelProducer, EnterFinally
  <2>22. CASE CancelAtSend
    <3>1. Kept /\ UNCHANGED <<rows, fin, emitted>>
      BY <2>22 DEF CancelAtSend, Held
    <3> QED
      BY <2>22, <3>1 DEF OkInv, CancelAtSend, Cancels
  <2>23. CASE OrphanPuts
    <3> PICK e \in 0..MaxEvents : e = orphan
      BY BoundsAssumption DEF TypeOK, EndMark
    <3>1. /\ queue' = Append(queue, e) /\ relayed' = relayed
          /\ UNCHANGED <<emitted, disconnected, rows, fin>>
          /\ prod' \in {prod, "done"} /\ (prod' # prod => prod = "sentinel")
      BY <2>23 DEF OrphanPuts
    <3>2. Kept
      BY <3>1, AppendKeeps
    <3> QED
      BY <3>1, <3>2 DEF OkInv
  <2>24. CASE ProviderCloses
    <3>1. Kept /\ UNCHANGED <<rows, fin, emitted>>
      BY <2>24 DEF ProviderCloses, Held
    <3> QED
      BY <2>24, <3>1 DEF OkInv, ProviderCloses
  <2>25. CASE UNCHANGED vars
    BY <2>25 DEF vars, OkInv, Held
  <2> QED
    BY <2>1, <2>2, <2>3, <2>4, <2>5, <2>6, <2>7, <2>8, <2>9, <2>10, <2>11, <2>12, <2>13, <2>14, <2>15, <2>16, <2>17, <2>18, <2>19, <2>20, <2>21, <2>22, <2>23, <2>24, <2>25
       DEF Next, ProducerStep, GeneratorStep, ServerCancels
<1> QED
  BY <1>1, <1>2, TypeCorrect, AuditInvariant, PTL DEF Spec

\* A row with a billable status is prepared by a healthy stream that has ended,
\* whose provider has filled in its state.
LEMMA UsageInvariant == Spec => []UsageInv
<1>1. Init => UsageInv
  BY DEF Init, UsageInv, NoRow
<1>2. UsageInv /\ TypeOK /\ [Next]_vars => UsageInv'
  <2> SUFFICES ASSUME UsageInv, TypeOK, [Next]_vars PROVE UsageInv'
    OBVIOUS
  <2> USE DEF UsageInv, TypeOK, providerVars, producerVars, clientVars
  <2>1. CASE ProducerStart
    BY <2>1 DEF ProducerStart
  <2>2. CASE EmitEvent
    BY <2>2 DEF EmitEvent, QueueOrSkip
  <2>3. CASE EmitErrorFrame
    BY <2>3 DEF EmitErrorFrame, QueueOrSkip
  <2>4. CASE StreamRaises
    BY <2>4 DEF StreamRaises, BeginFinalize
  <2>5. CASE StreamEnds
    BY <2>5 DEF StreamEnds, BeginFinalize
  <2>6. CASE EnqueueEvent
    BY <2>6 DEF EnqueueEvent, AfterQueueEvent, BeginFinalize
  <2>7. CASE DropEvent
    BY <2>7 DEF DropEvent, AfterQueueEvent, BeginFinalize
  <2>8. CASE FinalizeCommits
    BY <2>8 DEF FinalizeCommits
  <2>9. CASE FinalizeFails
    BY <2>9 DEF FinalizeFails, EnterFinally
  <2>10. CASE RefreshReturns
    BY <2>10 DEF RefreshReturns, EnterFinally
  <2>11. CASE PutSentinel
    BY <2>11 DEF PutSentinel
  <2>12. CASE StartBody
    BY <2>12 DEF StartBody
  <2>13. CASE GetEvent
    BY <2>13 DEF GetEvent
  <2>14. CASE GetSentinel
    BY <2>14 DEF GetSentinel
  <2>15. CASE SendReturns
    BY <2>15 DEF SendReturns
  <2>16. CASE ShieldReturns
    BY <2>16 DEF ShieldReturns
  <2>17. CASE CloseDropped
    BY <2>17 DEF CloseDropped, CancelProducer, EnterFinally
  <2>18. CASE ReapReturns
    BY <2>18 DEF ReapReturns
  <2>19. CASE CancelNew
    BY <2>19 DEF CancelNew, Cancels
  <2>20. CASE CancelAtGet
    BY <2>20 DEF CancelAtGet, Cancels
  <2>21. CASE CancelAtShield
    BY <2>21 DEF CancelAtShield, Cancels, CancelProducer, EnterFinally
  <2>22. CASE CancelAtSend
    BY <2>22 DEF CancelAtSend, Cancels
  <2>23. CASE OrphanPuts
    BY <2>23 DEF OrphanPuts
  <2>24. CASE ProviderCloses
    BY <2>24 DEF ProviderCloses
  <2>25. CASE UNCHANGED vars
    BY <2>25 DEF vars
  <2> QED
    BY <2>1, <2>2, <2>3, <2>4, <2>5, <2>6, <2>7, <2>8, <2>9, <2>10, <2>11, <2>12, <2>13, <2>14, <2>15, <2>16, <2>17, <2>18, <2>19, <2>20, <2>21, <2>22, <2>23, <2>24, <2>25
       DEF Next, ProducerStep, GeneratorStep, ServerCancels
<1> QED
  BY <1>1, <1>2, TypeCorrect, PTL DEF Spec

\* The sentinel is queued when every event is queued or relayed.
LEMMA EndInvariant == Spec => []EndInv
<1>1. Init => EndInv
  BY DEF Init, EndInv, Pulling
<1>2. TypeOK /\ AuditInv /\ QueueInv /\ EndInv /\ [Next]_vars => EndInv'
  <2> SUFFICES ASSUME TypeOK, AuditInv, QueueInv, EndInv, [Next]_vars PROVE EndInv'
    OBVIOUS
  <2> USE QueueSizeAssumption, BoundsAssumption DEF TypeOK, EndInv, Pulling, EndMark, providerVars, producerVars, clientVars
  <2>1. CASE ProducerStart
    BY <2>1 DEF ProducerStart
  <2>2. CASE EmitEvent
    BY <2>2 DEF EmitEvent, QueueOrSkip, QueueInv, AuditInv, Over
  <2>3. CASE EmitErrorFrame
    BY <2>3 DEF EmitErrorFrame, QueueOrSkip, QueueInv, AuditInv, Over
  <2>4. CASE StreamRaises
    BY <2>4 DEF StreamRaises, BeginFinalize, QueueInv, AuditInv, Over
  <2>5. CASE StreamEnds
    BY <2>5 DEF StreamEnds, BeginFinalize, QueueInv, AuditInv, Over
  <2>6. CASE EnqueueEvent
    <3>1. /\ DOMAIN queue' = 1 .. Len(queue) + 1 /\ DOMAIN queue = 1 .. Len(queue)
          /\ \A i \in 1 .. Len(queue) : queue'[i] = queue[i]
          /\ queue'[Len(queue) + 1] = emitted /\ Len(queue') = Len(queue) + 1 /\ Len(queue) \in Nat
      BY <2>6 DEF EnqueueEvent
    <3>2. /\ prod \in {"put", "putexc"} /\ prod' \in {"pull", "finalize"}
          /\ UNCHANGED <<gen, relayed, emitted, errorEvent>>
      BY <2>6 DEF EnqueueEvent, AfterQueueEvent, BeginFinalize
    <3>3. ASSUME Pulling, NEW i \in DOMAIN queue' PROVE queue'[i] # 0
      <4>1. CASE i = Len(queue) + 1
        BY <4>1, <3>1, <3>2, <3>3
      <4>2. CASE i # Len(queue) + 1
        <5>1. i \in 1 .. Len(queue) /\ i \in DOMAIN queue
          BY <4>2, <3>1
        <5> QED
          BY <5>1, <3>1, <3>2, <3>3
      <4> QED
        BY <4>1, <4>2
    <3> QED
      BY <3>2, <3>3
  <2>7. CASE DropEvent
    BY <2>7 DEF DropEvent, AfterQueueEvent, BeginFinalize, QueueInv, AuditInv, Over
  <2>8. CASE FinalizeCommits
    BY <2>8 DEF FinalizeCommits
  <2>9. CASE FinalizeFails
    BY <2>9 DEF FinalizeFails, EnterFinally, QueueInv, AuditInv, Over
  <2>10. CASE RefreshReturns
    BY <2>10 DEF RefreshReturns, EnterFinally, QueueInv, AuditInv, Over
  <2>11. CASE PutSentinel
    <3>1. /\ Len(queue') = Len(queue) + 1
          /\ \A i \in 1 .. Len(queue) : queue'[i] = queue[i] /\ i \in DOMAIN queue
      BY <2>11 DEF PutSentinel
    <3>2. /\ prod = "sentinel" /\ prod' = "done"
          /\ UNCHANGED <<gen, relayed, emitted, errorEvent>>
      BY <2>11 DEF PutSentinel
    <3>3. Pulling => emitted = Len(relayed) + Len(queue)
      BY <3>2 DEF QueueInv
    <3> QED
      BY <3>1, <3>2, <3>3
  <2>12. CASE StartBody
    BY <2>12 DEF StartBody, QueueInv, AuditInv, Over
  <2>13. CASE GetEvent
    <3>1. /\ Len(queue') = Len(queue) - 1 /\ DOMAIN queue' = 1 .. Len(queue) - 1
          /\ \A i \in 1 .. Len(queue) - 1 : queue'[i] = queue[i + 1] /\ i + 1 \in DOMAIN queue
      BY <2>13 DEF GetEvent
    <3>2. /\ gen = "get" /\ gen' = "send" /\ Len(relayed') = Len(relayed) + 1
          /\ UNCHANGED <<prod, emitted, errorEvent>>
      BY <2>13 DEF GetEvent
    <3>3. ASSUME prod # "done", NEW i \in DOMAIN queue' PROVE queue'[i] # 0
      <4>1. i + 1 \in DOMAIN queue /\ queue'[i] = queue[i + 1]
        BY <3>1
      <4> QED
        BY <4>1, <3>2, <3>3
    <3>4. ASSUME prod = "done", NEW i \in 1 .. Len(queue') - 1 PROVE queue'[i] # 0
      <4>1. i + 1 \in 1 .. Len(queue) - 1 /\ queue'[i] = queue[i + 1]
        BY <3>1, <3>4
      <4> QED
        BY <4>1, <3>2, <3>4
    <3>5. ASSUME prod = "done" PROVE emitted' = Len(relayed') + Len(queue') - 1
      <4>1. emitted = Len(relayed) + Len(queue) - 1
        BY <3>2, <3>5
      <4>2. Len(relayed) \in Nat /\ Len(queue) \in Nat
        OBVIOUS
      <4> QED
        BY <4>1, <4>2, <3>1, <3>2
    <3>6. prod \in {"put", "putexc"} => emitted' # 0
      BY <3>2
    <3> QED
      BY <3>2, <3>3, <3>4, <3>5, <3>6
  <2>14. CASE GetSentinel
    <3>1. /\ queue # <<>> /\ 1 \in DOMAIN queue /\ queue[1] = EndMark /\ prod = "done" /\ gen = "get"
          /\ gen' \in {"ended", "aborted"}
          /\ UNCHANGED <<relayed, emitted, errorEvent>>
      BY <2>14 DEF GetSentinel
    <3>2. 1 \notin 1 .. Len(queue) - 1 /\ emitted = Len(relayed) + Len(queue) - 1
      BY <3>1
    <3>3. Len(queue) = 1
      <4> DEFINE n == Len(queue)
      <4>1. n \in Nat /\ 1 <= n /\ 1 \notin 1 .. n - 1
        BY <3>1, <3>2
      <4> HIDE DEF n
      <4>2. n = 1
        BY <4>1
      <4> QED
        BY <4>2 DEF n
    <3> QED
      BY <3>1, <3>2, <3>3
  <2>15. CASE SendReturns
    BY <2>15 DEF SendReturns
  <2>16. CASE ShieldReturns
    BY <2>16 DEF ShieldReturns
  <2>17. CASE CloseDropped
    BY <2>17 DEF CloseDropped, CancelProducer, EnterFinally, QueueInv, AuditInv, Over
  <2>18. CASE ReapReturns
    BY <2>18 DEF ReapReturns
  <2>19. CASE CancelNew
    BY <2>19 DEF CancelNew, Cancels
  <2>20. CASE CancelAtGet
    BY <2>20 DEF CancelAtGet, Cancels
  <2>21. CASE CancelAtShield
    BY <2>21 DEF CancelAtShield, Cancels, CancelProducer, EnterFinally, QueueInv, AuditInv, Over
  <2>22. CASE CancelAtSend
    BY <2>22 DEF CancelAtSend, Cancels
  <2>23. CASE OrphanPuts
    BY <2>23 DEF OrphanPuts, QueueInv, AuditInv, Over
  <2>24. CASE ProviderCloses
    BY <2>24 DEF ProviderCloses
  <2>25. CASE UNCHANGED vars
    BY <2>25 DEF vars
  <2> QED
    BY <2>1, <2>2, <2>3, <2>4, <2>5, <2>6, <2>7, <2>8, <2>9, <2>10, <2>11, <2>12, <2>13, <2>14, <2>15, <2>16, <2>17, <2>18, <2>19, <2>20, <2>21, <2>22, <2>23, <2>24, <2>25
       DEF Next, ProducerStep, GeneratorStep, ServerCancels
<1> QED
  BY <1>1, <1>2, TypeCorrect, AuditInvariant, QueueInvariant, PTL DEF Spec

-----------------------------------------------------------------------------
\* The client is handed events 1, 2, 3, ... in this order, whatever the
\* backpressure, the disconnect race and the cancellations do.
THEOREM RelayedInOrder == Spec => []RelayInOrder
BY QueueInvariant, PTL

\* A status 200 row is only written when no event of the stream was dropped.
THEOREM OkIsComplete == Spec => []OkMeansComplete
<1>1. OkInv => OkMeansComplete
  BY DEF OkInv, OkMeansComplete, Held
<1> QED
  BY <1>1, OkInvariant, PTL

\* A response that ends cleanly has relayed every event, the error frame of a
\* stream that failed among them.
THEOREM CleanEndShowsError == Spec => []ErrorFrameSeen
<1>1. TypeOK /\ RelayInOrder /\ EndInv => ErrorFrameSeen
  <2> SUFFICES ASSUME TypeOK, RelayInOrder, EndInv, gen = "ended", errorEvent # 0
               PROVE  \E i \in DOMAIN relayed : relayed[i] = errorEvent
    BY DEF ErrorFrameSeen
  <2>1. errorEvent \in DOMAIN relayed
    BY BoundsAssumption DEF TypeOK, EndInv
  <2> QED
    BY <2>1 DEF RelayInOrder
<1> QED
  BY <1>1, TypeCorrect, QueueInvariant, EndInvariant, PTL

\* Rows that are billed carry the token counts, whatever the client does.
THEOREM BilledRowsHaveUsage == Spec => []BillableHasUsage
<1>1. AuditInv /\ TypeOK /\ OkInv /\ UsageInv => BillableHasUsage
  <2> SUFFICES ASSUME AuditInv, TypeOK, OkInv, UsageInv, NEW i \in DOMAIN rows,
                      rows[i].status \in {"ok", "gone"}
               PROVE  rows[i].usage
    BY DEF BillableHasUsage
  <2>1. i = 1 /\ rows # <<>>
    BY DEF AuditInv, TypeOK
  <2> QED
    BY <2>1 DEF OkInv, UsageInv
<1> QED
  BY <1>1, TypeCorrect, AuditInvariant, OkInvariant, UsageInvariant, PTL

\* The relay implements the endpoint's contract: at most one audit row, written
\* before the response is over, and always there when the response ends cleanly.
THEOREM RelayImplementsContract == Spec => ContractSpec
<1>1. Init => Contract!Init
  <2> SUFFICES ASSUME Init PROVE Contract!Init
    OBVIOUS
  <2>1. gen = "new" /\ Len(relayed) = 0 /\ rows = <<>>
    BY DEF Init
  <2>2. [i \in DOMAIN rows |-> rows[i].status] = <<>>
    BY <2>1
  <2> QED
    BY <2>1, <2>2 DEF Contract!Init
<1>2. TypeOK /\ AuditInv /\ [Next]_vars => [Contract!Next]_Contract!vars
  <2> SUFFICES ASSUME TypeOK, AuditInv, [Next]_vars
               PROVE  [Contract!Next]_Contract!vars
    OBVIOUS
  <2> USE DEF providerVars, producerVars, clientVars
  <2>1. CASE ProducerStart
    BY <2>1 DEF ProducerStart, Contract!vars
  <2>2. CASE EmitEvent
    BY <2>2 DEF EmitEvent, Contract!vars
  <2>3. CASE EmitErrorFrame
    BY <2>3 DEF EmitErrorFrame, Contract!vars
  <2>4. CASE StreamRaises
    BY <2>4 DEF StreamRaises, Contract!vars
  <2>5. CASE StreamEnds
    BY <2>5 DEF StreamEnds, Contract!vars
  <2>6. CASE EnqueueEvent
    BY <2>6 DEF EnqueueEvent, Contract!vars
  <2>7. CASE DropEvent
    BY <2>7 DEF DropEvent, Contract!vars
  <2>8. CASE FinalizeCommits
    <3>1. /\ prod = "finalize" /\ rows' = Append(rows, fin)
          /\ UNCHANGED <<gen, relayed>>
      BY <2>8 DEF FinalizeCommits
    <3>2. rows = <<>> /\ fin \in Row /\ ~Over
      BY <3>1 DEF AuditInv, TypeOK
    <3>3. rows' = <<fin>>
      BY <3>1, <3>2
    <3>4. [i \in DOMAIN rows' |-> rows'[i].status] = <<fin.status>>
      BY <3>3
    <3>5. [i \in DOMAIN rows |-> rows[i].status] = <<>>
      BY <3>2
    <3>6. fin.status \in {"ok", "gone", "error"}
      BY <3>2 DEF Row
    <3>7. Contract!Record
      BY <3>1, <3>2, <3>4, <3>5, <3>6 DEF Contract!Record, Over
    <3> QED
      BY <3>7 DEF Contract!Next
  <2>9. CASE FinalizeFails
    BY <2>9 DEF FinalizeFails, Contract!vars
  <2>10. CASE RefreshReturns
    BY <2>10 DEF RefreshReturns, Contract!vars
  <2>11. CASE PutSentinel
    BY <2>11 DEF PutSentinel, Contract!vars
  <2>12. CASE StartBody
    BY <2>12 DEF StartBody, Contract!vars
  <2>13. CASE GetEvent
    <3>1. /\ gen = "get" /\ gen' = "send" /\ rows' = rows
          /\ Len(relayed') = Len(relayed) + 1
      BY <2>13 DEF GetEvent, TypeOK
    <3> QED
      BY <3>1 DEF Contract!Hand, Contract!Next
  <2>14. CASE GetSentinel
    <3>1. /\ gen = "get" /\ gen' \in {"ended", "aborted"}
          /\ gen' = "ended" => outcome = "ok"
          /\ UNCHANGED <<rows, relayed>>
      BY <2>14 DEF GetSentinel
    <3>2. CASE gen' = "ended"
      <4>1. rows # <<>>
        BY <3>1, <3>2 DEF AuditInv
      <4>2. [i \in DOMAIN rows |-> rows[i].status] # <<>>
        BY <4>1 DEF TypeOK
      <4> QED
        BY <3>1, <3>2, <4>2 DEF Contract!Complete, Contract!Next
    <3>3. CASE gen' = "aborted"
      BY <3>1, <3>3 DEF Contract!Abort, Contract!Next
    <3> QED
      BY <3>1, <3>2, <3>3
  <2>15. CASE SendReturns
    BY <2>15 DEF SendReturns, Contract!vars
  <2>16. CASE ShieldReturns
    BY <2>16 DEF ShieldReturns, Contract!Abort, Contract!Next
  <2>17. CASE CloseDropped
    <3>1. /\ gen = "dropped" /\ gen' \in {"aborted", "reap"}
          /\ UNCHANGED <<rows, relayed>>
      BY <2>17 DEF CloseDropped
    <3>2. CASE gen' = "aborted"
      BY <3>1, <3>2 DEF Contract!Abort, Contract!Next
    <3>3. CASE gen' = "reap"
      BY <3>1, <3>3 DEF Contract!vars
    <3> QED
      BY <3>1, <3>2, <3>3
  <2>18. CASE ReapReturns
    BY <2>18 DEF ReapReturns, Contract!Abort, Contract!Next
  <2>19. CASE CancelNew
    BY <2>19 DEF CancelNew, Contract!Abort, Contract!Next
  <2>20. CASE CancelAtGet
    BY <2>20 DEF CancelAtGet, Contract!vars
  <2>21. CASE CancelAtShield
    BY <2>21 DEF CancelAtShield, Contract!vars
  <2>22. CASE CancelAtSend
    BY <2>22 DEF CancelAtSend, Contract!vars
  <2>23. CASE OrphanPuts
    BY <2>23 DEF OrphanPuts, Contract!vars
  <2>24. CASE ProviderCloses
    BY <2>24 DEF ProviderCloses, Contract!vars
  <2>25. CASE UNCHANGED vars
    BY <2>25 DEF vars, Contract!vars
  <2> QED
    BY <2>1, <2>2, <2>3, <2>4, <2>5, <2>6, <2>7, <2>8, <2>9, <2>10, <2>11, <2>12, <2>13, <2>14, <2>15, <2>16, <2>17, <2>18, <2>19, <2>20, <2>21, <2>22, <2>23, <2>24, <2>25
       DEF Next, ProducerStep, GeneratorStep, ServerCancels
<1> QED
  BY <1>1, <1>2, TypeCorrect, AuditInvariant, PTL DEF Spec, ContractSpec, Contract!Spec
=============================================================================
