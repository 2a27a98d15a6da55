---------------------------- MODULE StreamRelay ----------------------------
(***************************************************************************)
(* One streaming request of POST /anthropic/v1/messages                    *)
(* (api/messages.py, _handle_streaming): a producer task drains the        *)
(* provider through the SSE encoder into a bounded asyncio queue and       *)
(* writes the audit row; the response generator relays the queue to the    *)
(* server; the server (Starlette, external) pulls the generator and may    *)
(* cancel it or drop it at any of its suspension points.                   *)
(*                                                                         *)
(* A step is the code between two awaits.  An event is its number in the   *)
(* stream; the queue's None sentinel is EndMark.                           *)
(***************************************************************************)
EXTENDS Naturals, Sequences

CONSTANTS
    QueueSize,     \* asyncio.Queue(maxsize=...), 16 in the code
    MaxEvents,     \* bound on the events of one stream
    MaxCancels,    \* bound on the cancellations the server delivers
    CancelPoints   \* suspension points of the generator it may strike

ASSUME QueueSizeAssumption == QueueSize \in Nat /\ QueueSize >= 2
ASSUME BoundsAssumption == MaxEvents \in Nat /\ MaxCancels \in Nat
ASSUME CancelPointsAssumption == CancelPoints \subseteq {"get", "send"}

EndMark == 0

VARIABLES
    provider,      \* the provider's chunk generator
    stateError,    \* ProviderState.error is set
    usage,         \* the token counts of the ProviderState are filled in
    emitted,       \* events the encoder and the producer have made so far
    errorEvent,    \* number of the error frame, 0 if there is none
    prod,          \* where the producer task is suspended
    producerExc,   \* the producer's local producer_exc is set
    outcome,       \* how the producer's try block ended
    fin,           \* the row _finalize was called with
    queue,         \* the asyncio.Queue
    orphan,        \* event held by a put_task that outlived the producer
    gen,           \* where the response generator is suspended
    relayed,       \* events the generator handed to the server
    disconnected,  \* the client_disconnected event
    cancels,       \* cancellations delivered so far
    rows           \* audit rows committed for this request

providerVars == <<provider, stateError, usage, emitted, errorEvent>>
producerVars == <<prod, producerExc, outcome, fin, orphan>>
clientVars   == <<gen, relayed, disconnected, cancels>>
vars == <<providerVars, producerVars, queue, clientVars, rows>>

NoRow == [status |-> "none", usage |-> FALSE]
Row == [status : {"ok", "gone", "error"}, usage : BOOLEAN]

Init ==
    /\ provider = "running" /\ stateError = FALSE /\ usage = FALSE
    /\ emitted = 0 /\ errorEvent = 0
    /\ prod = "unborn" /\ producerExc = FALSE /\ outcome = "none"
    /\ fin = NoRow /\ orphan = 0
    /\ queue = <<>>
    /\ gen = "new" /\ relayed = <<>>
    /\ disconnected = FALSE /\ cancels = 0
    /\ rows = <<>>

-----------------------------------------------------------------------------
(* The producer task.                                                      *)

\* queue_event's first test: nothing is queued once the client is gone.
QueueOrSkip(there, after) == prod' = IF disconnected THEN after ELSE there

\* Slip: the 499 branch is forgotten.
NeverGoneBeginFinalize(failed, used) ==
    /\ prod' = "finalize"
    /\ fin' = [status |-> IF failed THEN "error" ELSE "ok", usage |-> used]

\* The status chosen from state.error, producer_exc and the disconnect event
\* (200, 499 or a provider error class); _finalize reads the token counts now.
BeginFinalize(failed, used) ==
    /\ prod' = "finalize"
    /\ fin' = [status |-> IF failed THEN "error"
                          ELSE IF disconnected THEN "gone" ELSE "ok",
               usage  |-> used]

\* The finally block: the sentinel is owed only to a client that is there.
EnterFinally(o) ==
    /\ outcome' = o
    /\ prod' = IF disconnected THEN "done" ELSE "sentinel"

ProducerStart ==
    /\ prod = "new"
    /\ prod' = "pull"
    /\ UNCHANGED <<providerVars, producerExc, outcome, fin, orphan, queue,
                   clientVars, rows>>

\* Slip: the producer stops draining the provider once the client is gone.
ImpatientEmitEvent ==
    /\ prod = "pull" /\ provider = "running" /\ emitted < MaxEvents
    /\ emitted' = emitted + 1
    /\ \/ ~disconnected /\ prod' = "put" /\ UNCHANGED fin
       \/ disconnected /\ BeginFinalize(stateError, usage)
    /\ UNCHANGED <<provider, stateError, usage, errorEvent, producerExc,
                   outcome, orphan, queue, clientVars, rows>>

\* The encoder yields the next event of a healthy stream.
EmitEvent ==
    /\ prod = "pull" /\ provider = "running" /\ emitted < MaxEvents
    /\ emitted' = emitted + 1
    /\ QueueOrSkip("put", "pull")
    /\ UNCHANGED <<provider, stateError, usage, errorEvent, producerExc,
                   outcome, fin, orphan, queue, clientVars, rows>>

\* The provider catches its failure, sets state.error and yields an ERROR
\* chunk; the encoder forwards it and returns, leaving the provider's generator
\* suspended before its finally block.
EmitErrorFrame ==
    /\ prod = "pull" /\ provider = "running" /\ emitted < MaxEvents
    /\ provider' = "errored" /\ stateError' = TRUE
    /\ emitted' = emitted + 1 /\ errorEvent' = emitted + 1
    /\ QueueOrSkip("put", "pull")
    /\ UNCHANGED <<usage, producerExc, outcome, fin, orphan, queue,
                   clientVars, rows>>

\* Slip: the frame of an exception is left to the provider.
SilentStreamRaises ==
    /\ prod = "pull" /\ provider = "running" /\ emitted < MaxEvents
    /\ provider' = "finished"
    /\ producerExc' = TRUE
    /\ emitted' = emitted + 1 /\ errorEvent' = emitted + 1
    /\ BeginFinalize(TRUE, usage)
    /\ UNCHANGED <<stateError, usage, outcome, orphan, queue, clientVars, rows>>

\* An exception leaves the stream: producer_exc is set and an error frame is
\* synthesized because nothing upstream set state.error.
StreamRaises ==
    /\ prod = "pull" /\ provider = "running" /\ emitted < MaxEvents
    /\ provider' = "finished"
    /\ producerExc' = TRUE
    /\ emitted' = emitted + 1 /\ errorEvent' = emitted + 1
    /\ \/ ~disconnected /\ prod' = "putexc" /\ UNCHANGED fin
       \/ disconnected /\ BeginFinalize(TRUE, usage)
    /\ UNCHANGED <<stateError, usage, outcome, orphan, queue, clientVars, rows>>

\* The stream is exhausted.  A healthy provider has filled in its state by
\* then; one that reported an error is still suspended.
StreamEnds ==
    /\ prod = "pull" /\ provider # "finished"
    /\ IF provider = "running"
       THEN provider' = "finished" /\ usage' = TRUE
       ELSE UNCHANGED <<provider, usage>>
    /\ BeginFinalize(stateError, usage')
    /\ UNCHANGED <<stateError, emitted, errorEvent, producerExc, outcome,
                   orphan, queue, clientVars, rows>>

\* The event loop closes the abandoned provider generator: its finally block
\* fills in the state.
ProviderCloses ==
    /\ provider = "errored" /\ prod \notin {"new", "pull", "put"}
    /\ provider' = "finished" /\ usage' = TRUE
    /\ UNCHANGED <<stateError, emitted, errorEvent, producerVars, queue,
                   clientVars, rows>>

\* What follows queue_event: the next pull, or the status of a failed stream.
AfterQueueEvent ==
    \/ prod = "put" /\ prod' = "pull" /\ UNCHANGED fin
    \/ prod = "putexc" /\ BeginFinalize(TRUE, usage)

\* queue_event: put_task finds room before the client is gone.
EnqueueEvent ==
    /\ Len(queue) < QueueSize
    /\ queue' = Append(queue, emitted)
    /\ AfterQueueEvent
    /\ UNCHANGED <<providerVars, producerExc, outcome, orphan, clientVars, rows>>

\* Slip: put_nowait, and an event that finds the queue full is lost.
LossyDropEvent ==
    /\ disconnected \/ Len(queue) = QueueSize
    /\ AfterQueueEvent
    /\ UNCHANGED <<providerVars, producerExc, outcome, orphan, queue,
                   clientVars, rows>>

\* queue_event: disconnect_task completes first and put_task is cancelled.
DropEvent ==
    /\ disconnected
    /\ AfterQueueEvent
    /\ UNCHANGED <<providerVars, producerExc, outcome, orphan, queue,
                   clientVars, rows>>

\* audit_service.log_request: insert and commit ...
FinalizeCommits ==
    /\ prod = "finalize"
    /\ rows' = Append(rows, fin)
    /\ prod' = "refresh"
    /\ UNCHANGED <<providerVars, producerExc, outcome, fin, orphan, queue,
                   clientVars>>

\* ... or fail before the commit (result_to_response, flush or commit raises) ...
FinalizeFails ==
    /\ prod = "finalize"
    /\ EnterFinally("exc")
    /\ UNCHANGED <<providerVars, producerExc, fin, orphan, queue, clientVars,
                   rows>>

\* Slip: a failed refresh is taken for a failed insert and retried.
RetryingRefreshReturns ==
    /\ prod = "refresh"
    /\ \/ EnterFinally("ok")
       \/ prod' = "finalize" /\ UNCHANGED outcome
    /\ UNCHANGED <<providerVars, producerExc, fin, orphan, queue, clientVars,
                   rows>>

\* Slip: the sentinel is put after the try statement, not in its finally.
QuietRefreshReturns ==
    /\ prod = "refresh"
    /\ \/ EnterFinally("ok")
       \/ prod' = "done" /\ outcome' = "exc"
    /\ UNCHANGED <<providerVars, producerExc, fin, orphan, queue, clientVars,
                   rows>>

\* ... and the refresh after the commit, which may fail in its turn.
RefreshReturns ==
    /\ prod = "refresh"
    /\ \E o \in {"ok", "exc"} : EnterFinally(o)
    /\ UNCHANGED <<providerVars, producerExc, fin, orphan, queue, clientVars,
                   rows>>

PutSentinel ==
    /\ prod = "sentinel" /\ Len(queue) < QueueSize
    /\ queue' = Append(queue, EndMark)
    /\ prod' = "done"
    /\ UNCHANGED <<providerVars, producerExc, outcome, fin, orphan, clientVars,
                   rows>>

\* A put_task left behind by a cancelled producer still puts its event.
OrphanPuts ==
    /\ orphan # 0 /\ Len(queue) < QueueSize
    /\ queue' = Append(queue, orphan)
    /\ orphan' = 0
    /\ UNCHANGED <<providerVars, prod, producerExc, outcome, fin, clientVars,
                   rows>>

\* producer_task.cancel(): CancelledError at the producer's await.  It is no
\* Exception, so only the finally block runs; asyncio.wait leaves put_task
\* running; a task that never started has no finally block to run.
CancelProducer ==
    \/ /\ prod = "new"
       /\ prod' = "done" /\ outcome' = "cancelled" /\ UNCHANGED orphan
    \/ /\ prod \in {"put", "putexc"}
       /\ EnterFinally("cancelled") /\ orphan' = emitted
    \/ /\ prod \in {"pull", "finalize", "refresh"}
       /\ EnterFinally("cancelled") /\ UNCHANGED orphan
    \/ /\ prod = "sentinel"
       /\ prod' = "done" /\ outcome' = "cancelled" /\ UNCHANGED orphan

-----------------------------------------------------------------------------
(* The response generator and the server that drives it.                   *)

\* First __anext__: the producer task is created.
StartBody ==
    /\ gen = "new"
    /\ gen' = "get" /\ prod' = "new"
    /\ UNCHANGED <<providerVars, producerExc, outcome, fin, orphan, queue,
                   relayed, disconnected, cancels, rows>>

\* queue.get() returns an event, which is yielded to the server.
GetEvent ==
    /\ gen = "get" /\ queue # <<>> /\ Head(queue) # EndMark
    /\ relayed' = Append(relayed, Head(queue))
    /\ queue' = Tail(queue)
    /\ gen' = "send"
    /\ UNCHANGED <<providerVars, producerVars, disconnected, cancels, rows>>

\* queue.get() returns the sentinel: await producer_task, which has finished,
\* and raise what it raised.
GetSentinel ==
    /\ gen = "get" /\ queue # <<>> /\ Head(queue) = EndMark
    /\ prod = "done"
    /\ queue' = Tail(queue)
    /\ gen' = IF outcome = "ok" THEN "ended" ELSE "aborted"
    /\ UNCHANGED <<providerVars, producerVars, relayed, disconnected, cancels,
                   rows>>

\* The server's send() returns and it asks for the next event.
SendReturns ==
    /\ gen = "send"
    /\ gen' = "get"
    /\ UNCHANGED <<providerVars, producerVars, queue, relayed, disconnected,
                   cancels, rows>>

Cancels(point) ==
    /\ point \in CancelPoints /\ cancels < MaxCancels
    /\ cancels' = cancels + 1

\* Cancelled before the body was started: nothing has run yet.
CancelNew ==
    /\ gen = "new" /\ Cancels("send")
    /\ gen' = "aborted"
    /\ UNCHANGED <<providerVars, producerVars, queue, relayed, disconnected, rows>>

\* Slip: the producer is awaited without a shield, so it is cancelled too.
UnshieldedCancelAtGet ==
    /\ gen = "get" /\ Len(queue) <= 1 /\ Cancels("get")
    /\ disconnected' = TRUE
    /\ \/ prod # "done" /\ CancelProducer /\ gen' = "reap"
       \/ prod = "done" /\ gen' = "aborted" /\ UNCHANGED <<prod, outcome, orphan>>
    /\ UNCHANGED <<providerVars, producerExc, fin, queue, relayed, rows>>

\* CancelledError at queue.get(): set the event and wait, shielded, for the
\* producer.  A getter is resumed before a second event can reach the queue.
CancelAtGet ==
    /\ gen = "get" /\ Len(queue) <= 1 /\ Cancels("get")
    /\ disconnected' = TRUE
    /\ gen' = "shield"
    /\ UNCHANGED <<providerVars, producerVars, queue, relayed, rows>>

\* A second CancelledError, at the shield: the finally block cancels the
\* producer and gathers it.
CancelAtShield ==
    /\ gen = "shield" /\ prod # "done" /\ Cancels("get")
    /\ CancelProducer
    /\ gen' = "reap"
    /\ UNCHANGED <<providerVars, producerExc, fin, queue, relayed,
                   disconnected, rows>>

ShieldReturns ==
    /\ gen = "shield" /\ prod = "done"
    /\ gen' = "aborted"
    /\ UNCHANGED <<providerVars, producerVars, queue, relayed, disconnected,
                   cancels, rows>>

\* The server is cancelled, or its send() raises, while the generator is
\* suspended at its yield: the generator is dropped without an exception ...
CancelAtSend ==
    /\ gen = "send" /\ Cancels("send")
    /\ gen' = "dropped"
    /\ UNCHANGED <<providerVars, producerVars, queue, relayed, disconnected, rows>>

\* ... and closed later by the event loop: GeneratorExit runs its finally block.
CloseDropped ==
    /\ gen = "dropped"
    /\ IF prod = "done"
       THEN gen' = "aborted" /\ UNCHANGED <<prod, outcome, orphan>>
       ELSE gen' = "reap" /\ CancelProducer
    /\ UNCHANGED <<providerVars, producerExc, fin, queue, relayed,
                   disconnected, cancels, rows>>

\* asyncio.gather returns once the producer has ended.
ReapReturns ==
    /\ gen = "reap" /\ prod = "done"
    /\ gen' = "aborted"
    /\ UNCHANGED <<providerVars, producerVars, queue, relayed, disconnected,
                   cancels, rows>>

-----------------------------------------------------------------------------
ProducerStep ==
    \/ ProducerStart \/ EmitEvent \/ EmitErrorFrame \/ StreamRaises \/ StreamEnds
    \/ EnqueueEvent \/ DropEvent
    \/ FinalizeCommits \/ FinalizeFails \/ RefreshReturns \/ PutSentinel

GeneratorStep ==
    \/ StartBody \/ GetEvent \/ GetSentinel \/ SendReturns
    \/ ShieldReturns \/ CloseDropped \/ ReapReturns

ServerCancels == CancelNew \/ CancelAtGet \/ CancelAtShield \/ CancelAtSend

Next == ProducerStep \/ GeneratorStep \/ ServerCancels
        \/ OrphanPuts \/ ProviderCloses

\* The event loop runs every task that can run: the provider ends or fails (its
\* reads time out), a send() returns or fails, a dropped generator is closed.
\* Nothing obliges the server to cancel.
Fairness ==
    /\ WF_vars(ProducerStep) /\ WF_vars(GeneratorStep)
    /\ WF_vars(OrphanPuts) /\ WF_vars(ProviderCloses)

Spec == Init /\ [][Next]_vars /\ Fairness

-----------------------------------------------------------------------------
\* Every variable has its type, a row about to be written is a row, and the queue
\* never holds more than its maxsize.
TypeOK ==
    /\ provider \in {"running", "errored", "finished"}
    /\ stateError \in BOOLEAN /\ usage \in BOOLEAN
    /\ emitted \in 0..MaxEvents /\ errorEvent \in 0..MaxEvents
    /\ prod \in {"unborn", "new", "pull", "put", "putexc", "finalize",
                 "refresh", "sentinel", "done"}
    /\ producerExc \in BOOLEAN
    /\ outcome \in {"none", "ok", "exc", "cancelled"}
    /\ fin \in Row \cup {NoRow} /\ (prod = "finalize" => fin \in Row)
    /\ queue \in Seq(0..MaxEvents) /\ Len(queue) <= QueueSize
    /\ orphan \in 0..MaxEvents
    /\ gen \in {"new", "get", "send", "shield", "dropped", "reap", "ended",
                "aborted"}
    /\ relayed \in Seq(1..MaxEvents)
    /\ disconnected \in BOOLEAN
    /\ cancels \in 0..MaxCancels
    /\ rows \in Seq(Row)

-----------------------------------------------------------------------------
(* Safety.                                                                 *)

\* The client is handed events 1, 2, 3, ... with no gap, repetition or
\* reordering, whatever the queue, its backpressure and the disconnect race of
\* queue_event do.
RelayInOrder == \A i \in DOMAIN relayed : relayed[i] = i

\* A row with status 200 is written only for a stream none of whose events was
\* dropped: each one was handed over or still waits in the queue.
OkMeansComplete ==
    (rows # <<>> /\ rows[1].status = "ok") =>
        \A n \in 1..emitted :
            \/ \E i \in DOMAIN relayed : relayed[i] = n
            \/ \E i \in DOMAIN queue : queue[i] = n

\* A response that ends cleanly after a failure has shown the client its error
\* frame, the provider's or the one the producer synthesizes.
ErrorFrameSeen ==
    (gen = "ended" /\ errorEvent # 0) =>
        \E i \in DOMAIN relayed : relayed[i] = errorEvent

\* Rows of billable status (usage_service counts 200 and 499) carry the final
\* token counts: a stream whose client left is drained before it is billed.
BillableHasUsage ==
    \A i \in DOMAIN rows : rows[i].status \in {"ok", "gone"} => rows[i].usage

\* Every row of a stream that ended by itself carries the final token counts:
\* when a getter of the state runs, "all provider activity is finished"
\* (core/providers/base.py).
RowsHaveUsage ==
    \A i \in DOMAIN rows : ~producerExc => rows[i].usage

\* The relay implements the contract of the endpoint.
Contract == INSTANCE StreamContract WITH
    Status  <- {"ok", "gone", "error"},
    body    <- CASE gen = "ended" -> "complete"
                 [] gen = "aborted" -> "aborted"
                 [] OTHER -> "open",
    handed  <- Len(relayed),
    records <- [i \in DOMAIN rows |-> rows[i].status]

\* Every behaviour of the queue, the producer and the generator is one of
\* StreamContract: at most one audit row, none after the response is over, and no
\* clean end without one.
ContractSpec == Contract!Spec

(* Liveness.                                                               *)

Over == gen \in {"ended", "aborted"}

\* The one way a request can hang: its generator was dropped while the queue
\* was full, and the cancelled producer waits for room for a sentinel nobody
\* will read.
Wedged == gen = "reap" /\ prod = "sentinel" /\ Len(queue) = QueueSize

\* A response that started is eventually over, or wedged in that way.
EndsOrWedges == (gen = "get") ~> (Over \/ Wedged)

\* A client that leaves while the generator waits for an event, and is cancelled
\* only that once, leaves an audit row behind, unless writing it fails.
LeaverLogged == disconnected ~> (rows # <<>> \/ outcome = "exc" \/ cancels > 1)

\* test_messages_stream_disconnect.py:47 (a stream whose client disconnects is
\* drained and logged): so does any client that leaves a started stream.  Not so:
\* a second cancellation at the shield, which an anyio cancel scope delivers, or a
\* first one at the yield, cancels the producer before it writes the row.
DisconnectLogged ==
    gen \in {"shield", "dropped", "reap"} ~> (rows # <<>> \/ outcome = "exc")
=============================================================================
