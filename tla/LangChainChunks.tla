-------------------------- MODULE LangChainChunks --------------------------
(***************************************************************************)
(* stream_chunks (core/providers/langchain/provider.py), with the message  *)
(* chunks that feed it and the encoder that consumes it.  A message chunk  *)
(* has text or one piece of a tool call: the code takes one with more      *)
(* apart in this order.  The id of a tool call is its number among the     *)
(* blocks of the answer.                                                   *)
(***************************************************************************)
EXTENDS SSEEncoder

VARIABLES
    chunk,         \* the message chunk being handled
    next_index,    \* block_index: the next block's
    open_index,    \* the block that is open
    open_kind,
    tool_indices,  \* the block that was opened for each tool call
    text_acc,      \* the text and the arguments of each call, for the audit log
    tool_acc

langchainVars == <<chunk, next_index, open_index, open_kind, tool_indices, text_acc, tool_acc>>

NoId == -1
NoChunk == [text |-> NoPiece, id |-> NoId, args |-> NoPiece]

LangChainInit ==
    /\ chunk = NoChunk
    /\ next_index = 0
    /\ open_index = NoIndex
    /\ open_kind = "none"
    /\ tool_indices = [i \in Index |-> NoIndex]
    /\ text_acc = <<>>
    /\ tool_acc = [i \in Index |-> <<>>]

-----------------------------------------------------------------------------
\* The model's chunks (external).

Yields(c) ==
    /\ provider \in OpenAICompatible /\ phase = "reading" /\ chunk = NoChunk
    /\ chunk' = c
    /\ UNCHANGED <<encoderVars, saved, next_index, open_index, open_kind,
                   tool_indices, text_acc, tool_acc>>

SendsText(p) ==
    /\ p # NoPiece
    /\ IF begun > 0 /\ script[LastBlock].kind = "text"
       THEN GoesOn(LastBlock, p)
       ELSE Begins("text", p) /\ UNCHANGED inside
    /\ Yields([NoChunk EXCEPT !.text = p])

SendsCall(p) ==
    /\ Begins("tool", p) /\ UNCHANGED inside
    /\ Yields([text |-> NoPiece, id |-> begun, args |-> p])

\* Which calls may be continued, and whether with their id, is the provider's habit.
SendsArguments(i, p) ==
    /\ p # NoPiece /\ script[i].kind = "tool"
    /\ provider = "interleaving" \/ i = LastBlock
    /\ GoesOn(i, p)
    /\ Yields([text |-> NoPiece, args |-> p,
               id |-> IF provider = "openai" THEN NoId ELSE i])

SendsLast ==
    /\ provider \in OpenAICompatible /\ phase = "reading" /\ chunk = NoChunk
    /\ Completes
    /\ UNCHANGED <<encoderVars, saved, langchainVars>>

-----------------------------------------------------------------------------
\* The generator.

NewText == chunk.text # NoPiece /\ open_kind # "text"
NewCall == chunk.id # NoId /\ tool_indices[chunk.id] = NoIndex

Generates ==
    /\ phase = "reading" /\ chunk # NoChunk
    /\ UNCHANGED <<modelVars, saved>>

\* A block of another kind, or another call, closes the one that is open.
ClosesOpenBlock ==
    /\ Generates /\ (NewText \/ NewCall) /\ open_index # NoIndex
    /\ BlockStop(open_index)
    /\ open_index' = NoIndex /\ open_kind' = "none"
    /\ UNCHANGED <<chunk, next_index, tool_indices, text_acc, tool_acc>>

OpensText ==
    /\ Generates /\ NewText /\ open_index = NoIndex
    /\ BlockStart(next_index, "text")
    /\ open_index' = next_index /\ open_kind' = "text"
    /\ next_index' = next_index + 1
    /\ UNCHANGED <<chunk, tool_indices, text_acc, tool_acc>>

ForwardsText ==
    /\ Generates /\ chunk.text # NoPiece /\ open_kind = "text"
    /\ text_acc' = Append(text_acc, chunk.text)
    /\ Delta(open_index, chunk.text)
    /\ chunk' = NoChunk
    /\ UNCHANGED <<next_index, open_index, open_kind, tool_indices, tool_acc>>

OpensCall ==
    /\ Generates /\ NewCall /\ open_index = NoIndex
    /\ BlockStart(next_index, "tool")
    /\ tool_indices' = [tool_indices EXCEPT ![chunk.id] = next_index]
    /\ open_index' = next_index /\ open_kind' = "tool"
    /\ next_index' = next_index + 1
    /\ chunk' = IF chunk.args = NoPiece THEN NoChunk ELSE chunk
    /\ UNCHANGED <<text_acc, tool_acc>>

\* Arguments without an id go to the open block, if there is one, and to no call.
ForwardsArguments ==
    /\ Generates /\ chunk.args # NoPiece /\ ~NewCall
    /\ IF chunk.id # NoId
       THEN /\ tool_acc' = [tool_acc EXCEPT ![chunk.id] = Append(@, chunk.args)]
            /\ Delta(tool_indices[chunk.id], chunk.args)
       ELSE /\ IF open_index = NoIndex
               THEN UNCHANGED encoderVars
               ELSE Delta(open_index, chunk.args)
            /\ UNCHANGED tool_acc
    /\ chunk' = NoChunk
    /\ UNCHANGED <<next_index, open_index, open_kind, tool_indices, text_acc>>

\* The chunks are at an end: what is open is closed, the state is written and
\* MESSAGE_STOP follows.
EndOfChunks ==
    /\ provider \in OpenAICompatible /\ phase = "reading" /\ complete
    /\ IF open_index # NoIndex
       THEN /\ BlockStop(open_index)
            /\ open_index' = NoIndex
            /\ UNCHANGED saved
       ELSE /\ saved' = TRUE
            /\ LastChunk
            /\ UNCHANGED open_index
    /\ UNCHANGED <<modelVars, chunk, next_index, open_kind, tool_indices, text_acc, tool_acc>>

\* The input of call i in the response that get_response builds for the audit log.
StoredCall(i) == Parsed(tool_acc[i])

ChunkStep ==
    \/ \E p \in NextPieces : SendsText(p) \/ SendsCall(p)
    \/ \E i \in Index, p \in NextPieces : SendsArguments(i, p)
    \/ SendsLast

LangChainStep ==
    \/ ClosesOpenBlock
    \/ OpensText
    \/ ForwardsText
    \/ OpensCall
    \/ ForwardsArguments
    \/ EndOfChunks

LangChainType ==
    /\ chunk \in [text : Pieces \cup {NoPiece}, id : Index \cup {NoId},
                  args : Pieces \cup {NoPiece}]
    /\ chunk # NoChunk => provider \in OpenAICompatible
    /\ next_index \in 0..MaxBlocks
    /\ open_index \in Index \cup {NoIndex}
    /\ open_kind \in {"none", "text", "tool"}
    /\ tool_indices \in [Index -> Index \cup {NoIndex}]
    /\ text_acc \in Seq(Pieces) /\ tool_acc \in [Index -> Seq(Pieces)]
=============================================================================
