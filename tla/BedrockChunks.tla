--------------------------- MODULE BedrockChunks ---------------------------
(***************************************************************************)
(* stream_converse_chunks (core/providers/bedrock/converse.py), with the   *)
(* Converse stream that feeds it and the encoder that consumes it.  Each   *)
(* action goes from one yield, or one event read, to the next.             *)
(***************************************************************************)
EXTENDS SSEEncoder

VARIABLES
    event,         \* the Converse event being handled
    block_index,   \* the index of events that carry none
    open_blocks,   \* started and not stopped
    assembled,     \* of each index: the builder of its part for the audit log
    content_parts  \* the parts the state was given at the end

bedrockVars == <<event, block_index, open_blocks, assembled, content_parts>>

\* A builder or part: its text or arguments, and the signature of a thinking block.
NewPart(k) == [kind |-> k, deltas |-> <<>>, signature |-> NoPiece]

NoEvent == [type |-> "none", index |-> NoIndex, kind |-> "none", piece |-> NoPiece]

BedrockInit ==
    /\ event = NoEvent
    /\ block_index = 0
    /\ open_blocks = {}
    /\ assembled = [i \in Index |-> NewPart("none")]
    /\ content_parts = [i \in Index |-> NewPart("none")]

\* The event's contentBlockIndex, or the default for an event without one.
EventIndex == IF event.index = NoIndex THEN block_index ELSE event.index

-----------------------------------------------------------------------------
\* The Converse stream (external).

Number(i) == IF provider = "unnumbered" THEN NoIndex ELSE i
MayBegin == inside => RunsOn

Receives(type, i, k, p) ==
    /\ provider \in Converse /\ phase = "reading" /\ event = NoEvent
    /\ event' = [type |-> type, index |-> Number(i), kind |-> k, piece |-> p]
    /\ UNCHANGED <<encoderVars, saved, block_index, open_blocks, assembled, content_parts>>

SendsStart(k) ==
    /\ MayBegin /\ inside' = TRUE
    /\ Begins(k, NoPiece)
    /\ Receives("start", begun, k, NoPiece)

\* Text and reasoning may begin without contentBlockStart.
SendsFirstDelta(k, p) ==
    /\ k # "tool" /\ MayBegin /\ inside' = TRUE
    /\ Begins(k, p)
    /\ Receives("delta", begun, k, p)

SendsDelta(p) ==
    /\ inside
    /\ GoesOn(LastBlock, p)
    /\ Receives("delta", LastBlock, script[LastBlock].kind, p)

SendsStop ==
    /\ ~complete /\ inside /\ ~RunsOn
    /\ inside' = FALSE
    /\ UNCHANGED <<provider, script, begun, pieces, complete>>
    /\ Receives("stop", LastBlock, "none", NoPiece)

SendsEnd ==
    /\ provider \in Converse /\ phase = "reading" /\ event = NoEvent
    /\ Completes
    /\ UNCHANGED <<encoderVars, saved, bedrockVars>>

-----------------------------------------------------------------------------
\* The generator.

Handles(type) ==
    /\ phase = "reading" /\ event.type = type
    /\ UNCHANGED <<modelVars, saved, content_parts>>

ContentBlockStart ==
    /\ Handles("start")
    /\ block_index' = EventIndex
    /\ open_blocks' = open_blocks \cup {EventIndex}
    /\ assembled' = [assembled EXCEPT ![EventIndex] = NewPart(event.kind)]
    /\ BlockStart(EventIndex, event.kind)
    /\ event' = NoEvent

\* Slip: the delta that opens its block is used up by it.
OpensGreedily ==
    /\ Handles("delta") /\ EventIndex \notin open_blocks
    /\ open_blocks' = open_blocks \cup {EventIndex}
    /\ assembled' = [assembled EXCEPT ![EventIndex] = NewPart(event.kind)]
    /\ BlockStart(EventIndex, event.kind)
    /\ event' = NoEvent
    /\ UNCHANGED block_index

\* A delta of a block that is not open opens it first.
OpensLazily ==
    /\ Handles("delta") /\ EventIndex \notin open_blocks
    /\ open_blocks' = open_blocks \cup {EventIndex}
    /\ assembled' = [assembled EXCEPT ![EventIndex] = NewPart(event.kind)]
    /\ BlockStart(EventIndex, event.kind)
    /\ UNCHANGED <<event, block_index>>

\* The builder b takes in piece p: a signature replaces the one before, any other piece
\* is added.
Takes(b, p) ==
    IF event.kind = "thinking" /\ p \in Signatures
    THEN [b EXCEPT !.signature = p]
    ELSE [b EXCEPT !.deltas = Append(@, p)]

\* Slip: every delta goes to the block of block_index.
MisplacedDelta ==
    /\ Handles("delta") /\ EventIndex \in open_blocks
    /\ IF event.piece = NoPiece
       THEN UNCHANGED <<encoderVars, assembled>>
       ELSE /\ assembled' = [assembled EXCEPT ![block_index] = Takes(@, event.piece)]
            /\ Delta(EventIndex, event.piece)
    /\ event' = NoEvent
    /\ UNCHANGED <<block_index, open_blocks>>

\* A delta that carries nothing the gateway forwards (a citation without a known
\* location, redacted reasoning) yields no chunk.
ContentBlockDelta ==
    /\ Handles("delta") /\ EventIndex \in open_blocks
    /\ IF event.piece = NoPiece
       THEN UNCHANGED <<encoderVars, assembled>>
       ELSE /\ assembled' = [assembled EXCEPT ![EventIndex] = Takes(@, event.piece)]
            /\ Delta(EventIndex, event.piece)
    /\ event' = NoEvent
    /\ UNCHANGED <<block_index, open_blocks>>

\* Slip: the default index stays at the block that was stopped.
StuckStop ==
    /\ Handles("stop")
    /\ open_blocks' = open_blocks \ {EventIndex}
    /\ BlockStop(EventIndex)
    /\ block_index' = EventIndex
    /\ event' = NoEvent
    /\ UNCHANGED assembled

ContentBlockStop ==
    /\ Handles("stop")
    /\ open_blocks' = open_blocks \ {EventIndex}
    /\ BlockStop(EventIndex)
    /\ block_index' = EventIndex + 1
    /\ event' = NoEvent
    /\ UNCHANGED assembled

\* converse_stream or the iteration raises: the error chunk is the last one.
StreamFails ==
    /\ provider \in Converse /\ phase = "reading" /\ event = NoEvent /\ ~complete
    /\ Error
    /\ UNCHANGED <<modelVars, saved, bedrockVars>>

\* _assembled_to_parts of one builder: the arguments of a call are parsed.
Rebuilt(b) == IF b.kind = "tool" THEN [b EXCEPT !.deltas = Parsed(@)] ELSE b

\* The finally block: the events are at an end, or the generator is closed where it
\* was suspended.
Finally ==
    /\ provider \in Converse /\ ~saved
    /\ \/ phase = "reading" /\ complete
       \/ phase \in {"error", "dropped"}
    /\ content_parts' = [i \in Index |-> Rebuilt(assembled[i])]
    /\ saved' = TRUE
    /\ UNCHANGED <<modelVars, encoderVars, event, block_index, open_blocks, assembled>>

\* What is still open is closed in order, then comes MESSAGE_STOP.
ClosesBlocks ==
    /\ provider \in Converse /\ phase = "reading" /\ saved
    /\ IF open_blocks = {}
       THEN LastChunk /\ UNCHANGED open_blocks
       ELSE \E i \in open_blocks :
              /\ \A j \in open_blocks : i <= j
              /\ open_blocks' = open_blocks \ {i}
              /\ BlockStop(i)
    /\ UNCHANGED <<modelVars, saved, event, block_index, assembled, content_parts>>

ConverseStep ==
    \/ \E k \in Kinds : SendsStart(k) \/ (\E p \in NextPieces : SendsFirstDelta(k, p))
    \/ \E p \in NextPieces : SendsDelta(p)
    \/ SendsStop
    \/ SendsEnd

BedrockStep ==
    \/ ContentBlockStart
    \/ OpensLazily
    \/ ContentBlockDelta
    \/ ContentBlockStop
    \/ StreamFails
    \/ Finally
    \/ ClosesBlocks

Part == [kind : Kinds \cup {"none"}, deltas : Seq(Pieces), signature : Pieces \cup {NoPiece}]

BedrockType ==
    /\ event \in [type : {"none", "start", "delta", "stop"}, index : Index \cup {NoIndex},
                  kind : Kinds \cup {"none"}, piece : Pieces \cup {NoPiece}]
    /\ event # NoEvent => provider \in Converse
    /\ block_index \in 0..MaxBlocks
    /\ open_blocks \in SUBSET Index
    /\ assembled \in [Index -> Part] /\ content_parts \in [Index -> Part]
=============================================================================
