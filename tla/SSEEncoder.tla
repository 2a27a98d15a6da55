----------------------------- MODULE SSEEncoder -----------------------------
(***************************************************************************)
(* encode_anthropic_sse (core/adapters/anthropic_stream.py): one chunk of  *)
(* a provider's generator becomes one event of the wire.  Generator and    *)
(* encoder run in one another's steps: between a chunk's yield and the     *)
(* event's nothing else runs.                                              *)
(***************************************************************************)
EXTENDS ModelStream

VARIABLES
    wire,     \* of each index: its block as the client has seen it
    sseOpen,  \* open_blocks of the encoder
    phase,    \* "reading" chunks, "closing" what they left open, or how it ended
    saved     \* the generator has written the response to the provider's state

encoderVars == <<wire, sseOpen, phase>>
Ended == {"stopped", "error", "raised", "dropped"}

EncoderInit ==
    /\ wire = [i \in Index |-> [status |-> "none", kind |-> "none", deltas |-> <<>>]]
    /\ sseOpen = {}
    /\ phase = "reading"
    /\ saved = FALSE

BlockStart(i, k) ==
    /\ wire' = [wire EXCEPT ![i].status = "open", ![i].kind = k]
    /\ sseOpen' = sseOpen \cup {i}
    /\ UNCHANGED phase

Delta(i, p) ==
    /\ wire' = [wire EXCEPT ![i].deltas = Append(@, p)]
    /\ UNCHANGED <<sseOpen, phase>>

BlockStop(i) ==
    /\ wire' = [wire EXCEPT ![i].status = "closed"]
    /\ sseOpen' = sseOpen \ {i}
    /\ UNCHANGED phase

\* The error event is the last one: the encoder returns.
Error ==
    /\ phase' = "error"
    /\ UNCHANGED <<wire, sseOpen>>

\* MESSAGE_STOP is remembered; the generator has no more chunks after it.
LastChunk ==
    /\ phase' = "closing"
    /\ UNCHANGED <<wire, sseOpen>>

\* message_delta and message_stop, after the encoder has closed, in order, what the
\* generator may have left open.
Finish ==
    /\ phase = "closing"
    /\ UNCHANGED saved
    /\ IF sseOpen = {}
       THEN phase' = "stopped" /\ UNCHANGED <<wire, sseOpen>>
       ELSE \E i \in sseOpen : (\A j \in sseOpen : i <= j) /\ BlockStop(i)

WireType == [Index -> [status : {"none", "open", "closed"},
                       kind : Kinds \cup {"none"}, deltas : Seq(Pieces)]]

EncoderType ==
    /\ wire \in WireType
    /\ sseOpen \in SUBSET Index
    /\ phase \in {"reading", "closing"} \cup Ended
    /\ saved \in BOOLEAN
=============================================================================
