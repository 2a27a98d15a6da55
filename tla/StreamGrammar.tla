--------------------------- MODULE StreamGrammar ---------------------------
(***************************************************************************)
(* One streamed answer on its way from the model to the event stream: a    *)
(* provider's chunk generator, the encoder all providers share, and a      *)
(* consumer that may close them where they are suspended.                  *)
(***************************************************************************)
EXTENDS BedrockChunks, LangChainChunks, SequencesExt

vars == <<modelVars, encoderVars, saved, bedrockVars, langchainVars>>

Init == ModelInit /\ EncoderInit /\ BedrockInit /\ LangChainInit

\* The relay's task is cancelled, or the client has left.
Dropped ==
    /\ phase \in {"reading", "closing"}
    /\ phase' = "dropped"
    /\ UNCHANGED <<modelVars, wire, sseOpen, saved, bedrockVars, langchainVars>>

\* An exception of the model's client that the generator does not turn into a chunk:
\* LangChain's any time, Bedrock's before the call.
Raises ==
    /\ phase = "reading" /\ event = NoEvent /\ chunk = NoChunk /\ ~complete
    /\ provider \in Converse => begun = 0
    /\ phase' = "raised"
    /\ UNCHANGED <<modelVars, wire, sseOpen, saved, bedrockVars, langchainVars>>

BedrockNext == (ConverseStep \/ BedrockStep) /\ UNCHANGED langchainVars
LangChainNext == (ChunkStep \/ LangChainStep) /\ UNCHANGED bedrockVars
EncoderNext == Finish /\ UNCHANGED <<modelVars, bedrockVars, langchainVars>>

Next ==
    \/ BedrockNext
    \/ LangChainNext
    \/ EncoderNext
    \/ Dropped
    \/ Raises

Spec == Init /\ [][Next]_vars

-----------------------------------------------------------------------------
(* Properties. *)

\* Types.  An event or a chunk being handled belongs to the provider's family.
TypeOK == ModelType /\ EncoderType /\ BedrockType /\ LangChainType

\* The stream obeys the grammar: each index is opened once, gets its deltas while it
\* is open and is closed before message_stop.  Only a server that goes back to a tool
\* call it has left makes the LangChain generator send a delta of a closed block.
Contract == INSTANCE BlockStream WITH
    Blocks <- Index, Deltas <- Pieces,
    block <- [i \in Index |-> [status |-> wire[i].status, deltas |-> wire[i].deltas]],
    end <- IF phase \in Ended THEN phase ELSE "no",
    lenient <- provider = "interleaving"
ContractSpec == Contract!Spec

\* Blocks follow one another (the encoder documents repeated start, deltas, stop),
\* unless Converse leaves it to the gateway to stop them.
OneAtATime ==
    provider # "unstopped" => \A i, j \in Index :
        wire[i].status = "open" /\ wire[j].status = "open" => i = j

\* A client that sees message_stop has seen the model's answer: each block under its
\* own index, with its kind and all of its pieces in order.
AnswerArrives ==
    phase = "stopped" => \A i \in Index :
        wire[i].kind = script[i].kind /\ wire[i].deltas = script[i].deltas

TextStored ==
    text_acc = FlattenSeq([n \in 1..MaxBlocks |->
                              IF wire[n - 1].kind = "text" THEN wire[n - 1].deltas ELSE <<>>])
\* An input that is stored is all of the call's arguments d; one that is cut off is
\* stored as the empty input, never as if it were whole.
InputOf(s, d) == IF Whole(d) THEN s = d ELSE s = <<>>

\* The thinking without its signatures, and the last of them.
Unsigned(d) == FlattenSeq([n \in 1..Len(d) |-> IF d[n] \in Signatures THEN <<>> ELSE <<d[n]>>])
SignatureOf(s, d) ==
    \/ s = NoPiece /\ \A n \in 1..Len(d) : d[n] \notin Signatures
    \/ \E n \in 1..Len(d) :
          /\ s = d[n] /\ s \in Signatures
          /\ \A m \in (n + 1)..Len(d) : d[m] \notin Signatures

PartStored(part, block) ==
    /\ part.kind = block.kind
    /\ CASE block.kind = "tool" -> InputOf(part.deltas, block.deltas)
         [] block.kind = "thinking" -> /\ part.deltas = Unsigned(block.deltas)
                                       /\ SignatureOf(part.signature, block.deltas)
         [] OTHER -> part.deltas = block.deltas

\* The input of a LangChain call; a server that leaves the id out after the first piece
\* loses arguments (see ResponseRebuilt), but gets no other input stored than whole
\* arguments that were streamed, from their start, or the empty one.
CallStored(s, d) ==
    IF provider = "openai" THEN s = <<>> \/ (Whole(s) /\ IsPrefix(s, d))
    ELSE InputOf(s, d)
CallsStored ==
    \A i \in Index : tool_indices[i] # NoIndex =>
        CallStored(StoredCall(i), wire[tool_indices[i]].deltas)

\* What the audit log is given is what was streamed, wherever the stream ended: text and
\* thinking as far as they went, a call's arguments if they were complete and {} if not;
\* of a LangChain answer when it is complete, the text of all blocks taken together.
StoredIsStreamed ==
    saved => IF provider \in Converse
             THEN \A i \in Index : PartStored(content_parts[i], wire[i])
             ELSE TextStored /\ CallsStored

\* The state of a finished stream "already contains everything it needs": the response
\* can be rebuilt from it (the docstring of stream_chunks), its tool calls included.
ResponseRebuilt ==
    saved /\ provider \in OpenAICompatible =>
        TextStored /\ \A i \in Index : tool_indices[i] # NoIndex =>
            StoredCall(i) = wire[tool_indices[i]].deltas

=============================================================================
