------------------------ MODULE StreamGrammarProofs ------------------------
(***************************************************************************)
(* The event stream obeys its grammar and its blocks follow one another,   *)
(* a client that has seen its end has seen the whole answer, and the audit *)
(* log is given what was streamed, for any number of blocks and pieces.    *)
(***************************************************************************)
EXTENDS StreamGrammar, SequenceTheorems, FiniteSetTheorems, TLAPS

Status(i) == wire[i].status
IsOpen == {i \in Index : Status(i) = "open"}
Live == phase \in {"reading", "closing"}

\* Common to both generators: the encoder's books agree with the wire, and when the
\* generator has come to its end it has left nothing open.
WireInv ==
    /\ sseOpen = IsOpen
    /\ phase \in {"closing", "stopped"} => IsOpen = {}
    /\ saved /\ phase = "reading" => complete
    /\ \A i \in Index : i >= begun => Status(i) = "none"

\* Bedrock.  The event being handled is about the last block, and the index it stands
\* for is that block's, whether it carries it or not.
EventInv ==
    /\ complete => event = NoEvent
    /\ event = NoEvent /\ inside /\ ~complete => Status(LastBlock) = "open"
    /\ inside => begun > 0 /\ script[LastBlock].kind # "none"
    /\ event # NoEvent => begun > 0 /\ EventIndex = LastBlock /\ event.type # "none"
    /\ event.type = "start" =>
        inside /\ Status(LastBlock) = "none" /\ event.kind = script[LastBlock].kind
    /\ event.type = "delta" =>
        /\ inside /\ Status(LastBlock) \in {"none", "open"}
        /\ event.kind = script[LastBlock].kind
    /\ event.type = "stop" => Status(LastBlock) = "open" /\ ~inside
    /\ provider = "unnumbered" =>
        block_index = IF event = NoEvent /\ ~inside THEN begun ELSE LastBlock

\* Unless blocks are left to the gateway to stop, only the last one may be open.
BedrockInv ==
    provider \in Converse =>
        /\ open_blocks = IsOpen
        /\ phase = "reading" => EventInv
        /\ provider # "unstopped" => \A i \in IsOpen : i = LastBlock /\ (inside \/ event.type = "stop")

\* LangChain.  The block that is open is the last one opened; a chunk is about a block
\* that has been opened, or about the next one.
ChunkInv ==
    /\ complete => chunk = NoChunk
    /\ chunk = NoChunk => next_index = begun
    /\ begun = 0 => open_index = NoIndex /\ open_kind = "none"
    /\ chunk = NoChunk /\ begun > 0 /\ ~complete =>
        open_index = LastBlock /\ open_kind = script[LastBlock].kind
    /\ chunk # NoChunk => begun > 0 /\ next_index \in {begun, LastBlock}
    /\ chunk # NoChunk /\ next_index = begun =>
        open_index = LastBlock /\ open_kind = script[LastBlock].kind
    /\ next_index = LastBlock =>
        \/ open_index = NoIndex /\ open_kind = "none"
        \/ open_index = next_index - 1 /\ open_kind = script[next_index - 1].kind
    /\ chunk.text # NoPiece =>
        /\ chunk.id = NoId /\ chunk.args = NoPiece /\ script[LastBlock].kind = "text"
        /\ next_index = LastBlock => open_kind # "text"
    /\ chunk # NoChunk /\ chunk.text = NoPiece =>
        /\ chunk.id = NoId => next_index = begun /\ script[LastBlock].kind = "tool"
        /\ chunk.id \in Index => script[chunk.id].kind = "tool" /\ chunk.id < begun
        /\ next_index = LastBlock => chunk.id = LastBlock
        /\ next_index = begun => chunk.args # NoPiece
        /\ chunk.id \in Index \ {LastBlock} => provider = "interleaving"

LangChainInv ==
    provider \in OpenAICompatible =>
        /\ IsOpen = (IF open_index = NoIndex THEN {} ELSE {open_index})
        /\ \A i \in Index : Status(i) = "none" <=> i >= next_index
        /\ \A i \in Index : tool_indices[i] =
              IF i < next_index /\ script[i].kind = "tool" THEN i ELSE NoIndex
        /\ \A i \in Index : script[i].kind \in {"none", "text", "tool"}
        /\ \A i \in Index : i < begun <=> script[i].kind # "none"
        /\ phase = "reading" => ChunkInv

Inv == TypeOK /\ WireInv /\ BedrockInv /\ LangChainInv

-----------------------------------------------------------------------------
(* What an encoder event does to the wire. *)

\* content_block_start opens block i and touches no other.
LEMMA StartOpens ==
    ASSUME wire \in WireType, sseOpen \in SUBSET Index,
           NEW i \in Index, NEW k \in Kinds, BlockStart(i, k)
    PROVE  /\ wire' \in WireType
           /\ sseOpen' = sseOpen \cup {i}
           /\ IsOpen' = IsOpen \cup {i}
           /\ Status(i)' = "open" /\ wire'[i].kind = k /\ wire'[i].deltas = wire[i].deltas
           /\ \A j \in Index \ {i} : wire'[j] = wire[j]
           /\ phase' = phase
  BY DEF WireType, BlockStart, IsOpen, Status

\* content_block_delta adds p to block i and changes no status.
LEMMA DeltaAdds ==
    ASSUME wire \in WireType, NEW i \in Index, NEW p \in Pieces, Delta(i, p)
    PROVE  /\ wire' \in WireType
           /\ sseOpen' = sseOpen
           /\ IsOpen' = IsOpen
           /\ \A j \in Index : Status(j)' = Status(j) /\ wire'[j].kind = wire[j].kind
           /\ wire'[i].deltas = Append(wire[i].deltas, p)
           /\ \A j \in Index \ {i} : wire'[j] = wire[j]
           /\ phase' = phase
<1>1. Append(wire[i].deltas, p) \in Seq(Pieces)
  BY DEF WireType
<1>2. /\ wire' = [wire EXCEPT ![i] = [wire[i] EXCEPT !.deltas = Append(wire[i].deltas, p)]]
      /\ sseOpen' = sseOpen /\ phase' = phase
  BY DEF Delta, WireType
<1>3. /\ wire' \in WireType
      /\ wire'[i].deltas = Append(wire[i].deltas, p)
      /\ \A j \in Index \ {i} : wire'[j] = wire[j]
      /\ \A j \in Index : Status(j)' = Status(j) /\ wire'[j].kind = wire[j].kind
  BY <1>1, <1>2 DEF WireType, Status
<1> QED
  BY <1>2, <1>3 DEF IsOpen

\* content_block_stop closes block i and touches no other.
LEMMA StopCloses ==
    ASSUME wire \in WireType, NEW i \in Index, BlockStop(i)
    PROVE  /\ wire' \in WireType
           /\ sseOpen' = sseOpen \ {i}
           /\ IsOpen' = IsOpen \ {i}
           /\ Status(i)' = "closed" /\ wire'[i].kind = wire[i].kind
           /\ wire'[i].deltas = wire[i].deltas
           /\ \A j \in Index \ {i} : wire'[j] = wire[j]
           /\ phase' = phase
  BY DEF WireType, BlockStop, IsOpen, Status
\* A new builder is empty.
LEMMA NewPartFacts ==
    ASSUME NEW k \in Kinds \cup {"none"}
    PROVE  /\ NewPart(k) \in Part
           /\ NewPart(k).kind = k /\ NewPart(k).deltas = <<>> /\ NewPart(k).signature = NoPiece
  BY DEF NewPart, Part

\* Initially nothing has happened.
LEMMA InitInv == Init => Inv
<1> SUFFICES ASSUME Init PROVE Inv
  OBVIOUS
<1> USE SizesAssumption, ProvidersAssumption
    DEF Init, ModelInit, EncoderInit, BedrockInit, LangChainInit, NoEvent, NoChunk, NoBlock
<1>1. TypeOK
  <2>1. <<>> \in Seq(Pieces)
    OBVIOUS
  <2>2. ModelType
    <3>1. NoBlock \in Block
      BY <2>1 DEF Block
    <3>2. script \in [Index -> Block]
      BY <3>1
    <3> QED
      BY <3>2, 0 \in 0..MaxBlocks, 0 \in 0..MaxPieces DEF ModelType
  <2>3. EncoderType
    BY <2>1 DEF EncoderType, WireType
  <2>4. BedrockType
    BY <2>1, NewPartFacts DEF BedrockType, NoIndex
  <2>5. LangChainType
    BY <2>1 DEF LangChainType, NoId, NoIndex
  <2> QED
    BY <2>2, <2>3, <2>4, <2>5 DEF TypeOK
<1>2. WireInv
  BY DEF WireInv, IsOpen, Status, Block, Index
<1>3. BedrockInv
  BY DEF BedrockInv, EventInv, IsOpen, Status, Index
<1>4. LangChainInv
  BY DEF LangChainInv, ChunkInv, IsOpen, Status, Index, NoIndex, NoId, NoPiece, LastBlock
<1> QED
  BY <1>1, <1>2, <1>3, <1>4 DEF Inv

-----------------------------------------------------------------------------
(* What the model sends leaves the wire alone. *)

\* The families of providers have nothing in common.
LEMMA Families == Converse \cap OpenAICompatible = {}
  BY DEF Converse, OpenAICompatible

\* A piece, or none, is content.
LEMMA ContentType ==
    ASSUME NEW p \in Pieces \cup {NoPiece}
    PROVE  Content(p) \in Seq(Pieces)
<1>1. CASE p = NoPiece
  BY <1>1 DEF Content
<1>2. CASE p # NoPiece
  <2>1. p \in Pieces
    BY <1>2
  <2> QED
    BY <1>2, <2>1 DEF Content
<1> QED
  BY <1>1, <1>2

LEMMA NextPiecesType == ModelType => NextPieces \subseteq Pieces \cup {NoPiece}
  BY SizesAssumption DEF ModelType, NextPieces, Pieces, NoPiece

\* A block that begins is the last one, and its index was free.
LEMMA BeginsFacts ==
    ASSUME ModelType, NEW k \in Kinds, NEW p \in NextPieces, Begins(k, p)
    PROVE  /\ begun \in Index /\ begun' = begun + 1 /\ LastBlock' = begun
           /\ script'[begun].kind = k /\ script'[begun].deltas = Content(p)
           /\ \A i \in Index \ {begun} : script'[i] = script[i]
           /\ inside' \in BOOLEAN => ModelType'
           /\ ~complete /\ UNCHANGED <<provider, complete>>
<1>1. begun \in Index /\ begun' = begun + 1 /\ begun' \in 0..MaxBlocks
  BY SizesAssumption DEF Begins, ModelType, Index
<1>2. Content(p) \in Seq(Pieces)
  BY ContentType, NextPiecesType
<1>3. pieces' \in 0..MaxPieces
  BY SizesAssumption DEF Begins, Count, NextPieces, NoPiece, ModelType
<1> QED
  BY <1>1, <1>2, <1>3, SizesAssumption DEF Begins, ModelType, Block, LastBlock

\* A block that goes on keeps its kind.
LEMMA GoesOnFacts ==
    ASSUME ModelType, NEW i \in Index, NEW p \in NextPieces, GoesOn(i, p)
    PROVE  /\ \A j \in Index : script'[j].kind = script[j].kind
           /\ script'[i].deltas = script[i].deltas \o Content(p)
           /\ \A j \in Index \ {i} : script'[j] = script[j]
           /\ ModelType'
           /\ ~complete /\ UNCHANGED <<provider, begun, inside, complete>>
<1>1. Content(p) \in Seq(Pieces)
  BY ContentType, NextPiecesType
<1>2. pieces' \in 0..MaxPieces
  BY SizesAssumption DEF GoesOn, Count, NextPieces, NoPiece, ModelType
<1>3. PICK ds \in Seq(Pieces) : ds = script[i].deltas \o Content(p)
  <2>1. script[i].deltas \in Seq(Pieces)
    BY DEF ModelType, Block
  <2> QED
    BY <1>1, <2>1, ConcatProperties
<1>4. script' = [script EXCEPT ![i] = [script[i] EXCEPT !.deltas = ds]]
  BY <1>3 DEF GoesOn, ModelType, Block
<1>5. /\ script' \in [Index -> Block]
      /\ \A j \in Index : script'[j].kind = script[j].kind
      /\ script'[i].deltas = ds
      /\ \A j \in Index \ {i} : script'[j] = script[j]
  BY <1>4 DEF ModelType, Block
<1> QED
  BY <1>2, <1>3, <1>5 DEF GoesOn, ModelType

\* A step that leaves the generators and the wire alone changes no status.
LEMMA WireStays ==
    ASSUME UNCHANGED wire
    PROVE  IsOpen' = IsOpen /\ \A i \in Index : Status(i)' = Status(i)
  BY DEF IsOpen, Status

-----------------------------------------------------------------------------
(* Bedrock: the Converse stream sends. *)

\* The step of a Bedrock stream says nothing about the LangChain generator.
LEMMA OtherFamily ==
    ASSUME TypeOK, provider \in Converse, provider' = provider, UNCHANGED langchainVars
    PROVE  LangChainType' /\ LangChainInv'
  BY Families DEF TypeOK, LangChainType, LangChainInv, langchainVars

\* An event that is received is about the block it was sent for.
LEMMA ReceivesFacts ==
    ASSUME TypeOK, NEW type \in {"start", "delta", "stop"}, NEW i \in Index,
           NEW k \in Kinds \cup {"none"}, NEW p \in NextPieces,
           Receives(type, i, k, p), provider' = provider
    PROVE  /\ provider \in Converse /\ phase = "reading" /\ event = NoEvent
           /\ BedrockType' /\ EncoderType'
           /\ UNCHANGED <<encoderVars, saved, block_index, open_blocks, assembled, content_parts>>
           /\ event'.type = type /\ event'.kind = k /\ event'.piece = p
           /\ event' # NoEvent
           /\ event'.index = Number(i)
           /\ EventIndex' = IF provider = "unnumbered" THEN block_index ELSE i
<1>1. i # NoIndex /\ Number(i) \in Index \cup {NoIndex}
  BY SizesAssumption DEF Index, NoIndex, Number
<1>2. p \in Pieces \cup {NoPiece}
  BY NextPiecesType DEF TypeOK
<1>3. /\ provider \in Converse /\ phase = "reading" /\ event = NoEvent
      /\ event' = [type |-> type, index |-> Number(i), kind |-> k, piece |-> p]
      /\ UNCHANGED <<encoderVars, saved, block_index, open_blocks, assembled, content_parts>>
  BY DEF Receives
<1>4. BedrockType'
  BY <1>1, <1>2, <1>3 DEF TypeOK, BedrockType
<1>5. EncoderType'
  BY <1>3 DEF TypeOK, EncoderType, encoderVars
<1>6. event' # NoEvent
  BY <1>3 DEF NoEvent
<1>7. EventIndex' = IF provider = "unnumbered" THEN block_index ELSE i
  BY <1>1, <1>3 DEF EventIndex, Number
<1> QED
  BY <1>3, <1>4, <1>5, <1>6, <1>7

\* A start, or the delta that begins a block without one.
LEMMA FirstEventInv ==
    ASSUME Inv, NEW k \in Kinds, NEW p \in NextPieces, NEW type \in {"start", "delta"},
           MayBegin, inside' = TRUE, Begins(k, p), Receives(type, begun, k, p),
           UNCHANGED langchainVars
    PROVE  Inv'
<1>1. TypeOK /\ ModelType
  BY DEF Inv, TypeOK
<1>2. /\ begun \in Index /\ begun' = begun + 1 /\ LastBlock' = begun
      /\ script'[begun].kind = k
      /\ \A i \in Index \ {begun} : script'[i] = script[i]
      /\ ModelType' /\ ~complete /\ UNCHANGED <<provider, complete>>
  BY <1>1, BeginsFacts
<1>3. /\ provider \in Converse /\ phase = "reading" /\ event = NoEvent
      /\ BedrockType' /\ EncoderType'
      /\ UNCHANGED <<encoderVars, saved, block_index, open_blocks, assembled, content_parts>>
      /\ event'.type = type /\ event'.kind = k /\ event' # NoEvent
      /\ EventIndex' = IF provider = "unnumbered" THEN block_index ELSE begun
  BY <1>1, <1>2, ReceivesFacts
<1>4. IsOpen' = IsOpen /\ \A i \in Index : Status(i)' = Status(i)
  BY <1>3, WireStays DEF encoderVars
<1>5. WireInv'
  BY <1>1, <1>2, <1>3, <1>4 DEF Inv, WireInv, encoderVars, Index, ModelType
<1>6. BedrockInv'
  <2>1. inside => provider = "unstopped"
    BY DEF MayBegin, RunsOn
  <2>2. EventIndex' = begun
    BY <1>3, <2>1 DEF Inv, BedrockInv, EventInv
  <2>3. Status(begun) = "none"
    BY <1>1, <1>2 DEF Inv, WireInv, ModelType
  <2>4. EventInv'
    <3>1. Status(LastBlock)' = "none"
      BY <1>2, <1>3, <2>3 DEF Status, encoderVars
    <3>2. begun' > 0 /\ k # "none" /\ inside' = TRUE /\ complete' = FALSE
      BY <1>1, <1>2 DEF ModelType, Kinds
    <3>3. provider = "unnumbered" => block_index' = LastBlock'
      BY <1>2, <1>3, <2>2
    <3> QED
      BY <1>2, <1>3, <2>2, <3>1, <3>2, <3>3 DEF EventInv
  <2>5. provider # "unstopped" => IsOpen = {}
    BY <1>3, <2>1 DEF Inv, BedrockInv, NoEvent
  <2> QED
    BY <1>2, <1>3, <1>4, <2>4, <2>5 DEF Inv, BedrockInv
<1> QED
  BY <1>1, <1>2, <1>3, <1>5, <1>6, OtherFamily DEF Inv, TypeOK

LEMMA SendsDeltaInv ==
    ASSUME Inv, NEW p \in NextPieces, SendsDelta(p), UNCHANGED langchainVars
    PROVE  Inv'
<1>1. TypeOK /\ ModelType
  BY DEF Inv, TypeOK
<1>2. inside /\ begun > 0 /\ LastBlock \in Index
  BY <1>1, SizesAssumption
     DEF SendsDelta, Receives, Inv, BedrockInv, EventInv, ModelType, Index, LastBlock
<1>3. /\ \A j \in Index : script'[j].kind = script[j].kind
      /\ ModelType' /\ ~complete /\ UNCHANGED <<provider, begun, inside, complete>>
  BY <1>1, <1>2, GoesOnFacts DEF SendsDelta
<1>4. script[LastBlock].kind \in Kinds \cup {"none"}
  BY <1>1, <1>2 DEF ModelType, Block
<1>5. /\ provider \in Converse /\ phase = "reading" /\ event = NoEvent
      /\ BedrockType' /\ EncoderType'
      /\ UNCHANGED <<encoderVars, saved, block_index, open_blocks, assembled, content_parts>>
      /\ event'.type = "delta" /\ event'.kind = script[LastBlock].kind /\ event' # NoEvent
      /\ EventIndex' = IF provider = "unnumbered" THEN block_index ELSE LastBlock
  BY <1>1, <1>2, <1>3, <1>4, ReceivesFacts DEF SendsDelta
<1>6. IsOpen' = IsOpen /\ \A i \in Index : Status(i)' = Status(i)
  BY <1>5, WireStays DEF encoderVars
<1>7. LastBlock' = LastBlock /\ EventIndex' = LastBlock
  BY <1>2, <1>3, <1>5 DEF LastBlock, Inv, BedrockInv, EventInv
<1>8. WireInv'
  BY <1>3, <1>5, <1>6 DEF Inv, WireInv, encoderVars
<1>9. BedrockInv'
  <2>1. Status(LastBlock)' = "open"
    BY <1>2, <1>3, <1>5, <1>6, <1>7 DEF Inv, BedrockInv, EventInv, Status, encoderVars
  <2>2. begun' > 0 /\ inside' = TRUE /\ complete' = FALSE
    BY <1>1, <1>2, <1>3 DEF ModelType
  <2>3. script'[LastBlock'].kind = script[LastBlock].kind /\ script[LastBlock].kind # "none"
    BY <1>2, <1>3, <1>5, <1>7 DEF Inv, BedrockInv, EventInv
  <2>4. provider' = "unnumbered" => block_index' = LastBlock'
    BY <1>2, <1>3, <1>5, <1>7 DEF EventInv, Inv, BedrockInv
  <2>5. EventInv'
    BY <1>3, <1>5, <1>7, <2>1, <2>2, <2>3, <2>4 DEF EventInv
  <2> QED
    BY <1>2, <1>3, <1>5, <1>6, <1>7, <2>2, <2>5 DEF Inv, BedrockInv
<1> QED
  BY <1>1, <1>3, <1>5, <1>8, <1>9, OtherFamily DEF Inv, TypeOK

LEMMA SendsStopInv ==
    ASSUME Inv, SendsStop, UNCHANGED langchainVars
    PROVE  Inv'
<1>1. TypeOK /\ ModelType
  BY DEF Inv, TypeOK
<1>2. inside /\ begun > 0 /\ LastBlock \in Index
  BY <1>1, SizesAssumption
     DEF SendsStop, Receives, Inv, BedrockInv, EventInv, ModelType, Index, LastBlock
<1>3. inside' = FALSE /\ ~complete /\ UNCHANGED <<provider, script, begun, pieces, complete>>
  BY DEF SendsStop
<1>4. NoPiece \in NextPieces
  BY DEF NextPieces
<1>5. /\ provider \in Converse /\ phase = "reading" /\ event = NoEvent
      /\ BedrockType' /\ EncoderType'
      /\ UNCHANGED <<encoderVars, saved, block_index, open_blocks, assembled, content_parts>>
      /\ event'.type = "stop" /\ event' # NoEvent
      /\ EventIndex' = IF provider = "unnumbered" THEN block_index ELSE LastBlock
  BY <1>1, <1>2, <1>3, <1>4, ReceivesFacts DEF SendsStop
<1>6. IsOpen' = IsOpen /\ \A i \in Index : Status(i)' = Status(i)
  BY <1>5, WireStays DEF encoderVars
<1>7. LastBlock' = LastBlock /\ EventIndex' = LastBlock
  BY <1>2, <1>3, <1>5 DEF LastBlock, Inv, BedrockInv, EventInv
<1>8. WireInv'
  BY <1>3, <1>5, <1>6 DEF Inv, WireInv, encoderVars
<1>9. BedrockInv'
  <2>1. Status(LastBlock)' = "open"
    BY <1>2, <1>3, <1>5, <1>6, <1>7 DEF Inv, BedrockInv, EventInv, Status, encoderVars
  <2>2. begun' > 0 /\ complete' = FALSE
    BY <1>1, <1>2, <1>3 DEF ModelType
  <2>3. EventInv'
    BY <1>2, <1>3, <1>5, <1>7, <2>1, <2>2 DEF EventInv, Inv, BedrockInv
  <2> QED
    BY <1>2, <1>3, <1>5, <1>6, <1>7, <2>3 DEF Inv, BedrockInv
<1> QED
  BY <1>1, <1>3, <1>5, <1>8, <1>9, OtherFamily DEF Inv, TypeOK, ModelType

LEMMA SendsEndInv ==
    ASSUME Inv, SendsEnd, UNCHANGED langchainVars
    PROVE  Inv'
<1>1. TypeOK /\ ModelType
  BY DEF Inv, TypeOK
<1>2. /\ provider \in Converse /\ phase = "reading" /\ event = NoEvent
      /\ complete' = TRUE
      /\ UNCHANGED <<encoderVars, saved, bedrockVars, provider, script, begun, inside, pieces>>
  BY DEF SendsEnd, Completes
<1>3. IsOpen' = IsOpen /\ (\A i \in Index : Status(i)' = Status(i))
      /\ EventIndex' = EventIndex /\ LastBlock' = LastBlock /\ Status(LastBlock)' = Status(LastBlock)
  BY <1>2, WireStays DEF encoderVars, bedrockVars, EventIndex, LastBlock, Status
<1>4. ModelType' /\ EncoderType' /\ BedrockType'
  BY <1>1, <1>2 DEF TypeOK, ModelType, EncoderType, BedrockType, encoderVars, bedrockVars
<1>5. WireInv'
  BY <1>2, <1>3 DEF Inv, WireInv, encoderVars
<1>6. BedrockInv'
  BY <1>2, <1>3 DEF Inv, BedrockInv, EventInv, encoderVars, bedrockVars, NoEvent
<1> QED
  BY <1>1, <1>2, <1>4, <1>5, <1>6, OtherFamily DEF Inv, TypeOK
-----------------------------------------------------------------------------
(* Bedrock: the generator handles an event. *)

LEMMA HandlesFacts ==
    ASSUME Inv, NEW type \in {"start", "delta", "stop"}, Handles(type)
    PROVE  /\ provider \in Converse /\ phase = "reading" /\ event # NoEvent
           /\ event.type = type
           /\ begun > 0 /\ EventIndex = LastBlock /\ LastBlock \in Index
           /\ EventInv
           /\ ~complete /\ ~saved
           /\ UNCHANGED <<modelVars, saved, content_parts, LastBlock>>
           /\ event.kind \in Kinds \cup {"none"}
           /\ event.piece \in Pieces \cup {NoPiece}
           /\ ModelType'
<1>1. event # NoEvent
  BY DEF Handles, NoEvent
<1>2. TypeOK /\ ModelType /\ BedrockType /\ EncoderType
  BY DEF Inv, TypeOK
<1>3. provider \in Converse /\ phase = "reading" /\ EventInv
  BY <1>1, <1>2 DEF BedrockType, Inv, BedrockInv, Handles
<1>4. begun > 0 /\ EventIndex = LastBlock /\ ~complete
  BY <1>1, <1>2, <1>3 DEF EventInv, ModelType
<1>5. LastBlock \in Index
  BY <1>2, <1>4, SizesAssumption DEF LastBlock, Index, ModelType
<1>6. ~saved
  BY <1>2, <1>3, <1>4 DEF Inv, WireInv, EncoderType
<1>7. UNCHANGED <<modelVars, saved, content_parts, LastBlock>> /\ ModelType'
  BY <1>2 DEF Handles, modelVars, ModelType, LastBlock
<1> QED
  BY <1>1, <1>2, <1>3, <1>4, <1>5, <1>6, <1>7 DEF BedrockType, Handles

\* A builder that takes in a piece has it.
LEMMA TakesFacts ==
    ASSUME NEW b \in Part, NEW p \in Pieces
    PROVE  /\ Takes(b, p) \in Part /\ Takes(b, p).kind = b.kind
           /\ IF event.kind = "thinking" /\ p \in Signatures
              THEN Takes(b, p).signature = p /\ Takes(b, p).deltas = b.deltas
              ELSE Takes(b, p).signature = b.signature /\ Takes(b, p).deltas = Append(b.deltas, p)
<1>1. b.deltas \in Seq(Pieces)
  BY DEF Part
<1>2. PICK ds \in Seq(Pieces) : ds = Append(b.deltas, p)
  BY <1>1, AppendProperties
<1>3. CASE event.kind = "thinking" /\ p \in Signatures
  <2>1. Takes(b, p) = [b EXCEPT !.signature = p]
    BY <1>3 DEF Takes
  <2> QED
    BY <1>3, <2>1 DEF Part
<1>4. CASE ~(event.kind = "thinking" /\ p \in Signatures)
  <2>1. Takes(b, p) = [b EXCEPT !.deltas = ds]
    BY <1>2, <1>4 DEF Takes
  <2> QED
    BY <1>2, <1>4, <2>1 DEF Part
<1> QED
  BY <1>3, <1>4

\* _assembled_to_parts keeps the shape of what it is given.
LEMMA RebuiltFacts ==
    ASSUME NEW b \in Part
    PROVE  /\ Rebuilt(b) \in Part /\ Rebuilt(b).kind = b.kind
           /\ Rebuilt(b).signature = b.signature
           /\ Rebuilt(b).deltas = IF b.kind = "tool" THEN Parsed(b.deltas) ELSE b.deltas
<1>1. b.deltas \in Seq(Pieces) /\ <<>> \in Seq(Pieces)
  BY DEF Part
<1>2. PICK ds \in Seq(Pieces) : ds = Parsed(b.deltas)
  BY <1>1 DEF Parsed
<1>3. CASE b.kind = "tool"
  <2>1. Rebuilt(b) = [b EXCEPT !.deltas = ds]
    BY <1>2, <1>3 DEF Rebuilt
  <2> QED
    BY <1>2, <1>3, <2>1 DEF Part
<1>4. CASE b.kind # "tool"
  <2>1. Rebuilt(b) = b
    BY <1>4 DEF Rebuilt
  <2> QED
    BY <1>4, <2>1
<1> QED
  BY <1>3, <1>4

\* The provider's event opens its block, or the code does it for the provider.
LEMMA OpensInv ==
    ASSUME Inv, ContentBlockStart \/ OpensLazily, UNCHANGED langchainVars
    PROVE  Inv'
<1>1. PICK type \in {"start", "delta"} :
          /\ Handles(type)
          /\ type = "start" => block_index' = EventIndex /\ event' = NoEvent
          /\ type = "delta" => /\ UNCHANGED <<event, block_index>>
                               /\ EventIndex \notin open_blocks
          /\ open_blocks' = open_blocks \cup {EventIndex}
          /\ assembled' = [assembled EXCEPT ![EventIndex] = NewPart(event.kind)]
          /\ BlockStart(EventIndex, event.kind)
  BY DEF ContentBlockStart, OpensLazily
<1> DEFINE i == LastBlock
<1>2. /\ provider \in Converse /\ phase = "reading" /\ event # NoEvent /\ event.type = type
      /\ begun > 0 /\ EventIndex = i /\ i \in Index /\ EventInv /\ ~complete /\ ~saved
      /\ UNCHANGED <<modelVars, saved, content_parts, LastBlock>>
      /\ ModelType'
  BY <1>1, HandlesFacts
<1>3. TypeOK /\ ModelType /\ BedrockType /\ EncoderType
  BY DEF Inv, TypeOK
<1>4. inside /\ event.kind \in Kinds
  <2>1. event.kind \in Kinds \cup {"none"}
    BY <1>3 DEF BedrockType
  <2>2. CASE type = "start"
    BY <1>2, <2>1, <2>2 DEF EventInv
  <2>3. CASE type = "delta"
    BY <1>2, <2>1, <2>3 DEF EventInv
  <2> QED
    BY <2>2, <2>3
<1>5. Status(i) = "none"
  BY <1>1, <1>2 DEF EventInv, Inv, BedrockInv, IsOpen
<1>6. /\ wire' \in WireType /\ sseOpen' = sseOpen \cup {i} /\ IsOpen' = IsOpen \cup {i}
      /\ Status(i)' = "open" /\ phase' = phase
      /\ \A j \in Index \ {i} : wire'[j] = wire[j]
  BY <1>1, <1>2, <1>3, <1>4, StartOpens DEF EncoderType
<1>7. \A j \in Index \ {i} : Status(j)' = Status(j)
  BY <1>6 DEF Status
<1>8. BedrockType'
  <2>1. NewPart(event.kind) \in Part
    BY <1>4, NewPartFacts
  <2>2. assembled' \in [Index -> Part]
    BY <1>1, <1>3, <2>1 DEF BedrockType
  <2>3. event' \in [type : {"none", "start", "delta", "stop"}, index : Index \cup {NoIndex},
                    kind : Kinds \cup {"none"}, piece : Pieces \cup {NoPiece}]
    BY <1>1, <1>3 DEF BedrockType, NoEvent
  <2>4. block_index' \in 0..MaxBlocks
    BY <1>1, <1>2, <1>3, SizesAssumption DEF BedrockType, Index
  <2> QED
    BY <1>1, <1>2, <1>3, <2>2, <2>3, <2>4 DEF BedrockType, modelVars
<1>9. EncoderType'
  BY <1>2, <1>3, <1>6 DEF EncoderType
<1>10. WireInv'
  BY <1>2, <1>3, <1>6, <1>7 DEF Inv, WireInv, modelVars, LastBlock, ModelType, Index
<1>11. BedrockInv'
  <2>1. Status(LastBlock)' = "open"
    BY <1>2, <1>6 DEF Status
  <2>2. EventInv'
    <3>1. CASE type = "start"
      BY <1>1, <1>2, <1>4, <2>1, <3>1 DEF EventInv, modelVars, NoEvent
    <3>2. CASE type = "delta"
      <4>1. EventIndex' = EventIndex
        BY <1>1, <3>2 DEF EventIndex
      <4> QED
        BY <1>1, <1>2, <1>4, <2>1, <3>2, <4>1 DEF EventInv, modelVars
    <3> QED
      BY <3>1, <3>2
  <2>3. open_blocks' = IsOpen'
    BY <1>1, <1>2, <1>6 DEF Inv, BedrockInv
  <2>4. provider # "unstopped" => \A j \in IsOpen' : j = LastBlock'
    BY <1>2, <1>6 DEF Inv, BedrockInv
  <2> QED
    BY <1>2, <1>4, <2>2, <2>3, <2>4 DEF BedrockInv, modelVars
<1> QED
  BY <1>2, <1>3, <1>8, <1>9, <1>10, <1>11, OtherFamily DEF Inv, TypeOK, modelVars

LEMMA ContentBlockDeltaInv ==
    ASSUME Inv, ContentBlockDelta, UNCHANGED langchainVars
    PROVE  Inv'
<1> DEFINE i == LastBlock
<1>1. Handles("delta") /\ EventIndex \in open_blocks /\ event' = NoEvent
      /\ UNCHANGED <<block_index, open_blocks>>
  BY DEF ContentBlockDelta
<1>2. /\ provider \in Converse /\ phase = "reading" /\ event # NoEvent /\ event.type = "delta"
      /\ begun > 0 /\ EventIndex = i /\ i \in Index /\ EventInv /\ ~complete /\ ~saved
      /\ UNCHANGED <<modelVars, saved, content_parts, LastBlock>>
      /\ event.piece \in Pieces \cup {NoPiece}
      /\ ModelType'
  BY <1>1, HandlesFacts
<1>3. TypeOK /\ ModelType /\ BedrockType /\ EncoderType
  BY DEF Inv, TypeOK
<1>4. /\ wire' \in WireType /\ sseOpen' = sseOpen /\ IsOpen' = IsOpen /\ phase' = phase
      /\ \A j \in Index : Status(j)' = Status(j)
      /\ assembled' \in [Index -> Part]
  <2>1. CASE event.piece = NoPiece
    BY <1>3, <2>1, WireStays DEF ContentBlockDelta, encoderVars, EncoderType, BedrockType
  <2>2. CASE event.piece # NoPiece
    <3>1. event.piece \in Pieces /\ Delta(i, event.piece)
          /\ assembled' = [assembled EXCEPT ![i] = Takes(assembled[i], event.piece)]
      BY <1>2, <2>2 DEF ContentBlockDelta
    <3>2. assembled \in [Index -> Part] /\ assembled[i] \in Part
      BY <1>2, <1>3 DEF BedrockType
    <3>3. Takes(assembled[i], event.piece) \in Part
      BY <3>1, <3>2, TakesFacts
    <3>4. assembled' \in [Index -> Part]
      BY <3>1, <3>2, <3>3
    <3> QED
      BY <1>2, <1>3, <3>1, <3>4, DeltaAdds DEF EncoderType
  <2> QED
    BY <2>1, <2>2
<1>5. BedrockType'
  BY <1>1, <1>2, <1>3, <1>4 DEF BedrockType, NoEvent, modelVars
<1>6. EncoderType'
  BY <1>2, <1>3, <1>4 DEF EncoderType
<1>7. WireInv'
  BY <1>2, <1>3, <1>4 DEF Inv, WireInv, modelVars
<1>8. BedrockInv'
  <2>1. Status(LastBlock)' = "open"
    BY <1>1, <1>2, <1>4 DEF Inv, BedrockInv, IsOpen, Status
  <2>2. EventInv'
    BY <1>1, <1>2, <2>1 DEF EventInv, modelVars, NoEvent
  <2> QED
    BY <1>1, <1>2, <1>4, <2>2 DEF Inv, BedrockInv, modelVars, EventInv
<1> QED
  BY <1>2, <1>3, <1>5, <1>6, <1>7, <1>8, OtherFamily DEF Inv, TypeOK, modelVars

LEMMA ContentBlockStopInv ==
    ASSUME Inv, ContentBlockStop, UNCHANGED langchainVars
    PROVE  Inv'
<1> DEFINE i == LastBlock
<1>1. Handles("stop") /\ event' = NoEvent /\ BlockStop(EventIndex)
      /\ open_blocks' = open_blocks \ {EventIndex}
      /\ block_index' = EventIndex + 1 /\ UNCHANGED assembled
  BY DEF ContentBlockStop
<1>2. /\ provider \in Converse /\ phase = "reading" /\ event # NoEvent /\ event.type = "stop"
      /\ begun > 0 /\ EventIndex = i /\ i \in Index /\ EventInv /\ ~complete /\ ~saved
      /\ UNCHANGED <<modelVars, saved, content_parts, LastBlock>>
      /\ ModelType'
  BY <1>1, HandlesFacts
<1>3. TypeOK /\ ModelType /\ BedrockType /\ EncoderType
  BY DEF Inv, TypeOK
<1>4. /\ wire' \in WireType /\ sseOpen' = sseOpen \ {i} /\ IsOpen' = IsOpen \ {i}
      /\ phase' = phase /\ Status(i)' = "closed"
      /\ \A j \in Index \ {i} : wire'[j] = wire[j]
  BY <1>1, <1>2, <1>3, StopCloses DEF EncoderType
<1>5. \A j \in Index \ {i} : Status(j)' = Status(j)
  BY <1>4 DEF Status
<1>6. BedrockType'
  BY <1>1, <1>2, <1>3, SizesAssumption DEF BedrockType, NoEvent, modelVars, Index
<1>7. EncoderType'
  BY <1>2, <1>3, <1>4 DEF EncoderType
<1>8. WireInv'
  BY <1>2, <1>3, <1>4, <1>5 DEF Inv, WireInv, modelVars, LastBlock, ModelType, Index
<1>9. BedrockInv'
  <2>1. begun' = begun /\ block_index' = begun
    BY <1>1, <1>2, <1>3 DEF LastBlock, modelVars, ModelType
  <2>2. EventInv'
    BY <1>1, <1>2, <2>1 DEF EventInv, modelVars, NoEvent
  <2> QED
    BY <1>1, <1>2, <1>4, <2>2 DEF Inv, BedrockInv, modelVars
<1> QED
  BY <1>2, <1>3, <1>6, <1>7, <1>8, <1>9, OtherFamily DEF Inv, TypeOK, modelVars

\* A step that changes how far the stream has come, or what was saved, and nothing
\* that is sent.
LEMMA PhaseInv ==
    ASSUME Inv, phase' \in {"reading", "closing"} \cup Ended, saved' \in BOOLEAN,
           UNCHANGED <<modelVars, wire, sseOpen, event, block_index, open_blocks,
                       assembled, langchainVars>>,
           content_parts' \in [Index -> Part],
           phase' = "reading" => phase = "reading",
           phase' \in {"closing", "stopped"} => IsOpen = {},
           saved' /\ phase' = "reading" => complete
    PROVE  Inv'
<1>1. TypeOK
  BY DEF Inv
<1>2. IsOpen' = IsOpen /\ (\A i \in Index : Status(i)' = Status(i))
      /\ EventIndex' = EventIndex /\ LastBlock' = LastBlock /\ Status(LastBlock)' = Status(LastBlock)
  BY WireStays DEF EventIndex, LastBlock, Status, modelVars
<1>3. TypeOK'
  BY <1>1 DEF TypeOK, ModelType, EncoderType, BedrockType, LangChainType, modelVars, langchainVars
<1>4. WireInv'
  BY <1>2 DEF Inv, WireInv, modelVars
<1>5. BedrockInv'
  BY <1>2 DEF Inv, BedrockInv, EventInv, modelVars
<1>6. LangChainInv'
  BY <1>2 DEF Inv, LangChainInv, ChunkInv, modelVars, langchainVars
<1> QED
  BY <1>3, <1>4, <1>5, <1>6 DEF Inv

LEMMA StreamFailsInv ==
    ASSUME Inv, StreamFails, UNCHANGED langchainVars
    PROVE  Inv'
<1>1. TypeOK
  BY DEF Inv
<1> QED
  BY <1>1, PhaseInv DEF StreamFails, Error, bedrockVars, Ended, TypeOK, EncoderType, BedrockType

LEMMA FinallyInv ==
    ASSUME Inv, Finally, UNCHANGED langchainVars
    PROVE  Inv'
<1>1. TypeOK /\ BedrockType /\ EncoderType
  BY DEF Inv, TypeOK
<1>2. content_parts' \in [Index -> Part]
  <2>1. \A i \in Index : Rebuilt(assembled[i]) \in Part
    BY <1>1, RebuiltFacts DEF BedrockType
  <2> QED
    BY <2>1 DEF Finally
<1> QED
  BY <1>1, <1>2, PhaseInv DEF Finally, encoderVars, EncoderType, BedrockType, Inv, WireInv

LEMMA ClosesBlocksInv ==
    ASSUME Inv, ClosesBlocks, UNCHANGED langchainVars
    PROVE  Inv'
<1>1. TypeOK /\ ModelType /\ BedrockType /\ EncoderType
  BY DEF Inv, TypeOK
<1>2. /\ provider \in Converse /\ phase = "reading" /\ saved /\ complete
      /\ open_blocks = IsOpen /\ sseOpen = IsOpen /\ EventInv /\ event = NoEvent
      /\ UNCHANGED <<modelVars, saved, event, block_index, assembled, content_parts>>
  BY DEF ClosesBlocks, Inv, WireInv, BedrockInv, EventInv
<1>3. CASE open_blocks = {}
  BY <1>1, <1>2, <1>3, PhaseInv DEF ClosesBlocks, LastChunk, EncoderType, BedrockType
<1>4. CASE open_blocks # {}
  <2>1. PICK i \in open_blocks : open_blocks' = open_blocks \ {i} /\ BlockStop(i)
    BY <1>4 DEF ClosesBlocks
  <2>2. i \in Index
    BY <1>1 DEF BedrockType
  <2>3. /\ wire' \in WireType /\ sseOpen' = sseOpen \ {i} /\ IsOpen' = IsOpen \ {i}
        /\ phase' = phase /\ Status(i)' = "closed"
        /\ \A j \in Index \ {i} : wire'[j] = wire[j]
    BY <1>1, <2>1, <2>2, StopCloses DEF EncoderType
  <2>4. \A j \in Index : Status(j) = "none" => Status(j)' = "none"
    BY <1>2, <2>1, <2>3 DEF Status, IsOpen
  <2>5. TypeOK'
    BY <1>1, <1>2, <2>1, <2>3, OtherFamily
       DEF TypeOK, ModelType, EncoderType, BedrockType, modelVars, NoEvent
  <2>6. WireInv'
    BY <1>2, <2>3, <2>4 DEF Inv, WireInv, modelVars
  <2>7. LastBlock' = LastBlock /\ complete'
    BY <1>2 DEF LastBlock, modelVars
  <2>8. BedrockInv'
    BY <1>2, <2>1, <2>3, <2>7 DEF Inv, BedrockInv, EventInv, modelVars, NoEvent
  <2> QED
    BY <1>1, <1>2, <2>5, <2>6, <2>8, OtherFamily DEF Inv, modelVars
<1> QED
  BY <1>3, <1>4
-----------------------------------------------------------------------------
(* LangChain: the model's chunks. *)

\* The step of a LangChain stream says nothing about the Bedrock generator.
LEMMA OtherFamilyToo ==
    ASSUME TypeOK, provider \in OpenAICompatible, provider' = provider, UNCHANGED bedrockVars
    PROVE  BedrockType' /\ BedrockInv'
  BY Families DEF TypeOK, BedrockType, BedrockInv, bedrockVars

\* The typed fields of a chunk, and how to tell that there is none.
LEMMA ChunkFields ==
    ASSUME LangChainType
    PROVE  /\ chunk.text \in Pieces \cup {NoPiece}
           /\ chunk.id \in Index \cup {NoId} /\ chunk.args \in Pieces \cup {NoPiece}
           /\ chunk = NoChunk <=> chunk.text = NoPiece /\ chunk.id = NoId /\ chunk.args = NoPiece
           /\ NoId \notin Index /\ NoIndex \notin Index
  BY SizesAssumption DEF LangChainType, NoChunk, NoId, NoIndex, Index

LEMMA YieldsFacts ==
    ASSUME TypeOK, provider' = provider, NEW c, Yields(c),
           c \in [text : Pieces \cup {NoPiece}, id : Index \cup {NoId}, args : Pieces \cup {NoPiece}]
    PROVE  /\ provider \in OpenAICompatible /\ phase = "reading" /\ chunk = NoChunk /\ chunk' = c
           /\ LangChainType' /\ EncoderType'
           /\ UNCHANGED <<encoderVars, saved, next_index, open_index, open_kind,
                          tool_indices, text_acc, tool_acc>>
<1>1. LangChainType /\ EncoderType
  BY DEF TypeOK
<1>2. /\ provider \in OpenAICompatible /\ phase = "reading" /\ chunk = NoChunk /\ chunk' = c
      /\ UNCHANGED <<encoderVars, saved, next_index, open_index, open_kind,
                     tool_indices, text_acc, tool_acc>>
  BY DEF Yields
<1>3. LangChainType'
  BY <1>1, <1>2 DEF LangChainType
<1>4. EncoderType'
  BY <1>1, <1>2 DEF EncoderType, encoderVars
<1> QED
  BY <1>2, <1>3, <1>4

\* A chunk that goes on with block i, which the generator has opened.
LEMMA SameBlockInv ==
    ASSUME Inv, NEW i \in Index, NEW p \in NextPieces, p # NoPiece, GoesOn(i, p),
           NEW c, Yields(c), UNCHANGED bedrockVars,
           c \in [text : Pieces \cup {NoPiece}, id : Index \cup {NoId}, args : Pieces \cup {NoPiece}],
           begun > 0,
           \/ /\ i = LastBlock /\ script[LastBlock].kind = "text"
              /\ c = [text |-> p, id |-> NoId, args |-> NoPiece]
           \/ /\ script[i].kind = "tool" /\ (provider = "interleaving" \/ i = LastBlock)
              /\ c.text = NoPiece /\ c.args = p /\ c.id \in {NoId, i}
              /\ c.id = NoId => i = LastBlock
    PROVE  Inv'
<1>1. TypeOK /\ ModelType
  BY DEF Inv, TypeOK
<1>2. /\ \A j \in Index : script'[j].kind = script[j].kind
      /\ ModelType' /\ ~complete /\ UNCHANGED <<provider, begun, inside, complete>>
  BY <1>1, GoesOnFacts
<1>3. /\ provider \in OpenAICompatible /\ phase = "reading" /\ chunk = NoChunk /\ chunk' = c
      /\ LangChainType' /\ EncoderType'
      /\ UNCHANGED <<encoderVars, saved, next_index, open_index, open_kind,
                     tool_indices, text_acc, tool_acc>>
  BY <1>1, <1>2, YieldsFacts
<1>4. IsOpen' = IsOpen /\ (\A j \in Index : Status(j)' = Status(j)) /\ LastBlock' = LastBlock
  BY <1>2, <1>3, WireStays DEF encoderVars, LastBlock
<1>5. WireInv'
  BY <1>2, <1>3, <1>4 DEF Inv, WireInv, encoderVars
<1>6. LangChainInv'
  <2>1. ChunkInv /\ i < begun
    <3>1. script[i].kind # "none"
      OBVIOUS
    <3> QED
      BY <1>3, <3>1 DEF Inv, LangChainInv
  <2>2. /\ next_index = begun /\ open_index = LastBlock /\ open_kind = script[LastBlock].kind
        /\ LastBlock # begun
    BY <1>1, <1>2, <1>3, <2>1 DEF ChunkInv, LastBlock, ModelType
  <2>3. c # NoChunk /\ NoId \notin Index
    BY <1>1, ChunkFields DEF NoChunk, TypeOK
  <2>4. next_index' = begun' /\ open_index' = LastBlock'
        /\ open_kind' = script'[LastBlock'].kind /\ next_index' # LastBlock'
    <3>1. LastBlock \in Index
      BY <1>1, SizesAssumption DEF ModelType, LastBlock, Index
    <3> QED
      BY <1>2, <1>3, <1>4, <2>2, <3>1
  <2>5. c.text # NoPiece => c.id = NoId /\ c.args = NoPiece /\ script'[LastBlock'].kind = "text"
    BY <1>1, <1>2, <1>4, SizesAssumption DEF ModelType, LastBlock, Index
  <2>6. c.text = NoPiece => /\ c.args # NoPiece
                            /\ c.id = NoId => script'[LastBlock'].kind = "tool"
                            /\ c.id \in Index => script'[c.id].kind = "tool" /\ c.id < begun'
                            /\ c.id \in Index \ {LastBlock'} => provider = "interleaving"
    BY <1>2, <1>4, <2>1, <2>3
  <2>7. ChunkInv'
    BY <1>2, <1>3, <2>3, <2>4, <2>5, <2>6 DEF ChunkInv
  <2> QED
    BY <1>2, <1>3, <1>4, <2>7 DEF Inv, LangChainInv, encoderVars
<1> QED
  BY <1>1, <1>2, <1>3, <1>5, <1>6, OtherFamilyToo DEF Inv, TypeOK

\* A chunk with the beginning of a block.
LEMMA NewBlockInv ==
    ASSUME Inv, NEW k \in {"text", "tool"}, NEW p \in NextPieces, Begins(k, p), UNCHANGED inside,
           NEW c, Yields(c), UNCHANGED bedrockVars,
           c \in [text : Pieces \cup {NoPiece}, id : Index \cup {NoId}, args : Pieces \cup {NoPiece}],
           \/ /\ k = "text" /\ p # NoPiece /\ c = [text |-> p, id |-> NoId, args |-> NoPiece]
              /\ begun > 0 => script[LastBlock].kind # "text"
           \/ k = "tool" /\ c = [text |-> NoPiece, id |-> begun, args |-> p]
    PROVE  Inv'
<1>1. TypeOK /\ ModelType
  BY DEF Inv, TypeOK
<1>2. /\ begun \in Index /\ begun' = begun + 1 /\ LastBlock' = begun
      /\ script'[begun].kind = k
      /\ \A i \in Index \ {begun} : script'[i] = script[i]
      /\ ModelType' /\ ~complete /\ UNCHANGED <<provider, complete>>
  <2>1. k \in Kinds /\ inside' \in BOOLEAN
    BY <1>1 DEF Kinds, ModelType
  <2> QED
    BY <1>1, <2>1, BeginsFacts
<1>3. /\ provider \in OpenAICompatible /\ phase = "reading" /\ chunk = NoChunk /\ chunk' = c
      /\ LangChainType' /\ EncoderType'
      /\ UNCHANGED <<encoderVars, saved, next_index, open_index, open_kind,
                     tool_indices, text_acc, tool_acc>>
  BY <1>1, <1>2, YieldsFacts
<1>4. IsOpen' = IsOpen /\ \A j \in Index : Status(j)' = Status(j)
  BY <1>3, WireStays DEF encoderVars
<1>5. WireInv'
  BY <1>1, <1>2, <1>3, <1>4 DEF Inv, WireInv, encoderVars, Index, ModelType
<1>6. LangChainInv'
  <2>1. ChunkInv /\ begun \in Nat /\ NoId \notin Index
    BY <1>1, <1>3, ChunkFields DEF Inv, LangChainInv, ModelType, TypeOK
  <2>2. next_index = begun /\ next_index' = LastBlock' /\ next_index' # begun'
    BY <1>2, <1>3, <2>1 DEF ChunkInv
  <2>3. \/ begun = 0 /\ open_index = NoIndex /\ open_kind = "none"
        \/ /\ begun - 1 \in Index
           /\ open_index = begun - 1 /\ open_kind = script[begun - 1].kind
    <3>1. begun # 0 => begun - 1 \in Index
      BY <1>2, SizesAssumption DEF Index
    <3> QED
      BY <1>2, <1>3, <2>1, <3>1 DEF ChunkInv, LastBlock
  <2>4. \/ open_index' = NoIndex /\ open_kind' = "none"
        \/ open_index' = next_index' - 1 /\ open_kind' = script'[next_index' - 1].kind
    BY <1>2, <1>3, <2>1, <2>2, <2>3
  <2>5. c # NoChunk
    BY <1>2, <2>1 DEF NoChunk
  <2>6. k = "text" => open_kind # "text"
    <3>1. k = "text" /\ begun > 0 => script[begun - 1].kind # "text"
      BY DEF LastBlock
    <3> QED
      BY <2>1, <2>3, <3>1, SizesAssumption DEF Index
  <2>7. ChunkInv'
    BY <1>2, <1>3, <2>1, <2>2, <2>4, <2>5, <2>6 DEF ChunkInv
  <2>8. \A i \in Index : i < begun' <=> script'[i].kind # "none"
    BY <1>1, <1>2, <1>3 DEF Inv, LangChainInv, Index, ModelType
  <2>9. \A i \in Index : tool_indices'[i] =
            IF i < next_index' /\ script'[i].kind = "tool" THEN i ELSE NoIndex
    BY <1>2, <1>3, <2>1, <2>2 DEF Inv, LangChainInv, Index
  <2> QED
    BY <1>2, <1>3, <1>4, <2>7, <2>8, <2>9 DEF Inv, LangChainInv, encoderVars
<1> QED
  BY <1>1, <1>2, <1>3, <1>5, <1>6, OtherFamilyToo DEF Inv, TypeOK

LEMMA SendsTextInv ==
    ASSUME Inv, NEW p \in NextPieces, SendsText(p), UNCHANGED bedrockVars
    PROVE  Inv'
<1> DEFINE c == [text |-> p, id |-> NoId, args |-> NoPiece]
<1>1. TypeOK /\ ModelType
  BY DEF Inv, TypeOK
<1>2. p \in Pieces \cup {NoPiece} /\ p # NoPiece /\ Yields(c)
  BY <1>1, NextPiecesType DEF SendsText, NoChunk
<1>3. c \in [text : Pieces \cup {NoPiece}, id : Index \cup {NoId}, args : Pieces \cup {NoPiece}]
  BY <1>2
<1>4. CASE begun > 0 /\ script[LastBlock].kind = "text"
  <2>1. LastBlock \in Index /\ GoesOn(LastBlock, p)
    BY <1>1, <1>4, SizesAssumption DEF SendsText, ModelType, LastBlock, Index
  <2> QED
    BY <1>2, <1>3, <1>4, <2>1, SameBlockInv
<1>5. CASE ~(begun > 0 /\ script[LastBlock].kind = "text")
  <2>1. Begins("text", p) /\ UNCHANGED inside
    BY <1>5 DEF SendsText
  <2>2. begun > 0 => script[LastBlock].kind # "text"
    BY <1>5
  <2> HIDE DEF c
  <2>3. c = [text |-> p, id |-> NoId, args |-> NoPiece]
    BY DEF c
  <2> QED
    BY <1>2, <1>3, <2>1, <2>2, <2>3, NewBlockInv
<1> QED
  BY <1>4, <1>5

LEMMA SendsCallInv ==
    ASSUME Inv, NEW p \in NextPieces, SendsCall(p), UNCHANGED bedrockVars
    PROVE  Inv'
<1> DEFINE c == [text |-> NoPiece, id |-> begun, args |-> p]
<1>1. TypeOK /\ ModelType
  BY DEF Inv, TypeOK
<1>2. p \in Pieces \cup {NoPiece} /\ Yields(c) /\ Begins("tool", p) /\ UNCHANGED inside
  BY <1>1, NextPiecesType DEF SendsCall
<1>3. begun \in Index
  BY <1>1, <1>2, BeginsFacts DEF Kinds
<1>4. c \in [text : Pieces \cup {NoPiece}, id : Index \cup {NoId}, args : Pieces \cup {NoPiece}]
  BY <1>2, <1>3
<1> HIDE DEF c
<1>5. c = [text |-> NoPiece, id |-> begun, args |-> p]
  BY DEF c
<1> QED
  BY <1>2, <1>4, <1>5, NewBlockInv

LEMMA SendsArgumentsInv ==
    ASSUME Inv, NEW i \in Index, NEW p \in NextPieces, SendsArguments(i, p), UNCHANGED bedrockVars
    PROVE  Inv'
<1>1. TypeOK /\ ModelType
  BY DEF Inv, TypeOK
<1>2. PICK c : c = [text |-> NoPiece, args |-> p, id |-> IF provider = "openai" THEN NoId ELSE i]
  OBVIOUS
<1>3. /\ p # NoPiece /\ GoesOn(i, p) /\ Yields(c) /\ provider \in OpenAICompatible
      /\ script[i].kind = "tool" /\ (provider = "interleaving" \/ i = LastBlock)
  BY <1>2 DEF SendsArguments, Yields
<1>4. p \in Pieces \cup {NoPiece}
  BY <1>1, NextPiecesType
<1>5. c \in [text : Pieces \cup {NoPiece}, id : Index \cup {NoId}, args : Pieces \cup {NoPiece}]
      /\ c.text = NoPiece /\ c.args = p /\ c.id \in {NoId, i}
  BY <1>2, <1>4
<1>6. begun > 0
  BY <1>1, <1>3, SizesAssumption DEF Inv, LangChainInv, ModelType, Index
<1>7. c.id = NoId => i = LastBlock
  <2>1. c.id = IF provider = "openai" THEN NoId ELSE i
    BY <1>2
  <2>2. i # NoId
    BY DEF NoId, Index
  <2> QED
    BY <1>3, <2>1, <2>2
<1> QED
  BY <1>3, <1>5, <1>6, <1>7, SameBlockInv

LEMMA SendsLastInv ==
    ASSUME Inv, SendsLast, UNCHANGED bedrockVars
    PROVE  Inv'
<1>1. TypeOK
  BY DEF Inv
<1>2. /\ provider \in OpenAICompatible /\ phase = "reading" /\ chunk = NoChunk
      /\ complete' = TRUE
      /\ UNCHANGED <<encoderVars, saved, langchainVars, provider, script, begun, inside, pieces>>
  BY DEF SendsLast, Completes
<1>3. IsOpen' = IsOpen /\ (\A i \in Index : Status(i)' = Status(i)) /\ LastBlock' = LastBlock
  BY <1>2, WireStays DEF encoderVars, LastBlock
<1>4. ModelType' /\ EncoderType' /\ LangChainType'
  BY <1>1, <1>2 DEF TypeOK, ModelType, EncoderType, LangChainType, encoderVars, langchainVars
<1>5. WireInv'
  BY <1>2, <1>3 DEF Inv, WireInv, encoderVars
<1>6. LangChainInv'
  BY <1>2, <1>3 DEF Inv, LangChainInv, ChunkInv, encoderVars, langchainVars
<1> QED
  BY <1>1, <1>2, <1>4, <1>5, <1>6, OtherFamilyToo DEF Inv, TypeOK

-----------------------------------------------------------------------------
(* LangChain: the generator handles a chunk. *)

LEMMA GeneratesFacts ==
    ASSUME Inv, Generates
    PROVE  /\ TypeOK /\ ModelType /\ EncoderType /\ LangChainType
           /\ provider \in OpenAICompatible /\ phase = "reading" /\ chunk # NoChunk
           /\ ChunkInv /\ ~complete /\ ~saved
           /\ begun > 0 /\ LastBlock \in Index /\ LastBlock # begun
           /\ UNCHANGED <<modelVars, saved, LastBlock>> /\ ModelType'
<1>1. TypeOK /\ ModelType /\ EncoderType /\ LangChainType
  BY DEF Inv, TypeOK
<1>2. provider \in OpenAICompatible /\ phase = "reading" /\ chunk # NoChunk /\ ChunkInv
  BY <1>1 DEF Generates, LangChainType, Inv, LangChainInv
<1>3. ~complete /\ begun > 0
  BY <1>1, <1>2 DEF ChunkInv, ModelType
<1>4. LastBlock \in Index /\ LastBlock # begun
  BY <1>1, <1>3, SizesAssumption DEF LastBlock, Index, ModelType
<1>5. ~saved
  BY <1>1, <1>2, <1>3 DEF Inv, WireInv, EncoderType
<1>6. UNCHANGED <<modelVars, saved, LastBlock>> /\ ModelType'
  BY <1>1 DEF Generates, modelVars, ModelType, LastBlock
<1> QED
  BY <1>1, <1>2, <1>3, <1>4, <1>5, <1>6

\* A new block is the last one of the answer, and the chunk is about it.
LEMMA NewBlockFacts ==
    ASSUME Inv, Generates, NewText \/ NewCall
    PROVE  /\ next_index = LastBlock
           /\ NewText => chunk.id = NoId /\ script[LastBlock].kind = "text"
           /\ NewCall => chunk.text = NoPiece /\ chunk.id = LastBlock /\ script[LastBlock].kind = "tool"
           /\ \/ open_index = NoIndex /\ open_kind = "none"
              \/ open_index = LastBlock - 1 /\ open_kind = script[LastBlock - 1].kind
<1>1. /\ TypeOK /\ ModelType /\ EncoderType /\ LangChainType
      /\ provider \in OpenAICompatible /\ ChunkInv /\ chunk # NoChunk
      /\ begun > 0 /\ LastBlock \in Index /\ LastBlock # begun
  BY GeneratesFacts
<1>2. next_index \in {begun, LastBlock}
  BY <1>1 DEF ChunkInv
<1>3. CASE NewText
  <2>1. chunk.id = NoId /\ script[LastBlock].kind = "text" /\ next_index # begun
    BY <1>1, <1>3 DEF NewText, ChunkInv
  <2>2. ~NewCall
    BY <2>1 DEF NewCall
  <2> QED
    BY <1>1, <1>2, <2>1, <2>2 DEF ChunkInv
<1>4. CASE NewCall
  <2>1. chunk.id \in Index /\ chunk.text = NoPiece
    BY <1>1, <1>4, ChunkFields DEF NewCall, ChunkInv
  <2>2. script[chunk.id].kind = "tool" /\ chunk.id < begun
    BY <1>1, <2>1 DEF ChunkInv
  <2>3. ~(chunk.id < next_index)
    BY <1>1, <1>4, <2>1, <2>2, ChunkFields DEF NewCall, Inv, LangChainInv
  <2>4. next_index = LastBlock
    BY <1>2, <2>2, <2>3
  <2>5. ~NewText
    BY <2>1 DEF NewText
  <2> QED
    BY <1>1, <2>1, <2>2, <2>4, <2>5 DEF ChunkInv
<1> QED
  BY <1>3, <1>4

LEMMA ClosesOpenBlockInv ==
    ASSUME Inv, ClosesOpenBlock, UNCHANGED bedrockVars
    PROVE  Inv'
<1>1. /\ Generates /\ (NewText \/ NewCall) /\ open_index # NoIndex /\ BlockStop(open_index)
      /\ open_index' = NoIndex /\ open_kind' = "none"
      /\ UNCHANGED <<chunk, next_index, tool_indices, text_acc, tool_acc>>
  BY DEF ClosesOpenBlock
<1>2. /\ TypeOK /\ ModelType /\ EncoderType /\ LangChainType
      /\ provider \in OpenAICompatible /\ phase = "reading" /\ chunk # NoChunk
      /\ ChunkInv /\ ~complete /\ ~saved
      /\ begun > 0 /\ LastBlock \in Index /\ LastBlock # begun
      /\ UNCHANGED <<modelVars, saved, LastBlock>> /\ ModelType'
  BY <1>1, GeneratesFacts
<1>3. next_index = LastBlock
  BY <1>1, NewBlockFacts
<1> PICK i \in Index : i = open_index
  BY <1>1, <1>2 DEF LangChainType
<1>4. /\ wire' \in WireType /\ sseOpen' = sseOpen \ {i} /\ IsOpen' = IsOpen \ {i}
      /\ phase' = phase /\ Status(i)' = "closed"
      /\ \A j \in Index \ {i} : wire'[j] = wire[j]
  BY <1>1, <1>2, <1>3, StopCloses DEF EncoderType
<1>5. \A j \in Index : Status(j)' = "none" <=> Status(j) = "none"
  <2>1. Status(i) = "open"
    BY <1>1, <1>2, <1>3 DEF Inv, LangChainInv, IsOpen
  <2> QED
    BY <1>4, <2>1 DEF Status
<1>6. EncoderType' /\ LangChainType'
  BY <1>1, <1>2, <1>4 DEF EncoderType, LangChainType, modelVars
<1>7. WireInv'
  BY <1>2, <1>4, <1>5 DEF Inv, WireInv, modelVars
<1>8. LangChainInv'
  <2>1. ChunkInv'
    <3>1. chunk.text # NoPiece => chunk.id = NoId /\ chunk.args = NoPiece
                                  /\ script[LastBlock].kind = "text"
      BY <1>2 DEF ChunkInv
    <3>2. chunk.text = NoPiece =>
            /\ chunk.id = NoId => next_index = begun /\ script[LastBlock].kind = "tool"
            /\ chunk.id \in Index => script[chunk.id].kind = "tool" /\ chunk.id < begun
            /\ chunk.id = LastBlock
      BY <1>2, <1>3 DEF ChunkInv
    <3> QED
      BY <1>1, <1>2, <1>3, <3>1, <3>2 DEF ChunkInv, modelVars
  <2>2. IsOpen' = {}
    BY <1>1, <1>2, <1>4 DEF Inv, LangChainInv
  <2> QED
    BY <1>1, <1>2, <1>5, <2>1, <2>2 DEF Inv, LangChainInv, modelVars
<1> QED
  BY <1>2, <1>6, <1>7, <1>8, OtherFamilyToo DEF Inv, TypeOK, modelVars

\* The generator opens the block the chunk is about.
LEMMA OpensNextInv ==
    ASSUME Inv, OpensText \/ OpensCall, UNCHANGED bedrockVars
    PROVE  Inv'
<1> DEFINE i == LastBlock
<1>1. /\ Generates /\ (NewText \/ NewCall) /\ open_index = NoIndex
      /\ open_index' = next_index /\ next_index' = next_index + 1
      /\ UNCHANGED <<text_acc, tool_acc>>
  BY DEF OpensText, OpensCall
<1>2. /\ TypeOK /\ ModelType /\ EncoderType /\ LangChainType
      /\ provider \in OpenAICompatible /\ phase = "reading" /\ chunk # NoChunk
      /\ ChunkInv /\ ~complete /\ ~saved
      /\ begun > 0 /\ LastBlock \in Index /\ LastBlock # begun
      /\ UNCHANGED <<modelVars, saved, LastBlock>> /\ ModelType'
  BY <1>1, GeneratesFacts
<1>3. /\ next_index = i
      /\ NewText => chunk.id = NoId /\ script[i].kind = "text"
      /\ NewCall => chunk.text = NoPiece /\ chunk.id = i /\ script[i].kind = "tool"
  BY <1>1, NewBlockFacts
<1>4. next_index' = begun /\ begun \in 0..MaxBlocks /\ next_index' = i + 1
  BY <1>1, <1>2, <1>3 DEF LastBlock, ModelType
<1>5. PICK k \in {"text", "tool"} :
        /\ BlockStart(i, k) /\ open_kind' = k /\ script[i].kind = k
        /\ k = "text" => NewText /\ UNCHANGED <<chunk, tool_indices>>
        /\ k = "tool" => /\ NewCall
                         /\ tool_indices' = [tool_indices EXCEPT ![i] = i]
                         /\ chunk' = IF chunk.args = NoPiece THEN NoChunk ELSE chunk
  <2>1. CASE OpensText
    BY <1>3, <2>1 DEF OpensText
  <2>2. CASE OpensCall
    BY <1>3, <2>2 DEF OpensCall
  <2> QED
    BY <2>1, <2>2
<1>6. /\ wire' \in WireType /\ sseOpen' = sseOpen \cup {i} /\ IsOpen' = IsOpen \cup {i}
      /\ Status(i)' = "open" /\ phase' = phase
      /\ \A j \in Index \ {i} : wire'[j] = wire[j]
  BY <1>2, <1>5, StartOpens DEF EncoderType, Kinds
<1>7. \A j \in Index : Status(j)' = "none" <=> j >= next_index'
  <2>1. \A j \in Index \ {i} : Status(j)' = "none" <=> j >= i
    BY <1>2, <1>3, <1>6 DEF Status, Inv, LangChainInv
  <2> QED
    BY <1>2, <1>4, <1>6, <2>1, SizesAssumption DEF Index
<1>8. EncoderType'
  BY <1>2, <1>6 DEF EncoderType
<1>9. LangChainType'
  <2>1. /\ chunk' \in [text : Pieces \cup {NoPiece}, id : Index \cup {NoId},
                       args : Pieces \cup {NoPiece}]
        /\ chunk' # NoChunk => provider' \in OpenAICompatible
    BY <1>2, <1>5 DEF LangChainType, NoChunk, modelVars
  <2> QED
    BY <1>1, <1>2, <1>3, <1>4, <1>5, <2>1 DEF LangChainType
<1>10. WireInv'
  BY <1>2, <1>4, <1>6, <1>7 DEF Inv, WireInv, modelVars
<1>11. LangChainInv'
  <2>1. IsOpen' = {i} /\ open_index' = i /\ i # NoIndex
    BY <1>1, <1>2, <1>3, <1>6, SizesAssumption DEF Inv, LangChainInv, Index, NoIndex
  <2>2. \A j \in Index : tool_indices'[j] =
            IF j < next_index' /\ script[j].kind = "tool" THEN j ELSE NoIndex
    <3>1. \A j \in Index \ {i} : tool_indices'[j] = tool_indices[j]
      BY <1>2, <1>5 DEF LangChainType
    <3>2. \A j \in Index \ {i} : j < next_index' <=> j < next_index
      BY <1>2, <1>3, <1>4, SizesAssumption DEF Index
    <3>3. tool_indices'[i] = IF script[i].kind = "tool" THEN i ELSE NoIndex
      BY <1>2, <1>3, <1>5, SizesAssumption DEF Inv, LangChainInv, LangChainType, Index
    <3>4. i < next_index'
      BY <1>2, <1>4, SizesAssumption DEF Index
    <3> QED
      BY <1>2, <3>1, <3>2, <3>3, <3>4 DEF Inv, LangChainInv
  <2>3. ChunkInv'
    <3>1. CASE k = "text"
      <4>1. chunk.text # NoPiece /\ chunk.id = NoId /\ chunk.args = NoPiece
        BY <1>2, <1>5, <3>1 DEF NewText, ChunkInv
      <4> QED
        BY <1>2, <1>4, <1>5, <2>1, <3>1, <4>1, ChunkFields DEF ChunkInv, modelVars
    <3>2. CASE k = "tool"
      <4>1. chunk.text = NoPiece /\ chunk.id = i
        BY <1>3, <1>5, <3>2
      <4>2. CASE chunk.args = NoPiece
        <5>1. chunk' = NoChunk
          BY <1>5, <3>2, <4>2
        <5>2. chunk'.text = NoPiece
          BY <5>1 DEF NoChunk
        <5> QED
          BY <1>2, <1>4, <1>5, <2>1, <5>1, <5>2 DEF ChunkInv, modelVars
      <4>3. CASE chunk.args # NoPiece
        BY <1>2, <1>4, <1>5, <2>1, <3>2, <4>1, <4>3, ChunkFields DEF ChunkInv, modelVars
      <4> QED
        BY <4>2, <4>3
    <3> QED
      BY <3>1, <3>2
  <2> QED
    BY <1>2, <1>7, <2>1, <2>2, <2>3 DEF Inv, LangChainInv, modelVars
<1> QED
  BY <1>2, <1>8, <1>9, <1>10, <1>11, OtherFamilyToo DEF Inv, TypeOK, modelVars

\* A piece is forwarded to a block that has been opened; the chunk is dealt with.
LEMMA ForwardsFacts ==
    ASSUME Inv, ForwardsText \/ ForwardsArguments
    PROVE  \E i \in Index, p \in Pieces :
             /\ Delta(i, p) /\ i < next_index
             /\ i # LastBlock => provider = "interleaving"
             /\ next_index = begun
             /\ open_index = LastBlock
             /\ chunk.text # NoPiece => p = chunk.text /\ i = LastBlock
             /\ chunk.text = NoPiece => p = chunk.args /\ i = (IF chunk.id = NoId THEN LastBlock ELSE chunk.id)
<1>1. /\ TypeOK /\ ModelType /\ EncoderType /\ LangChainType
      /\ provider \in OpenAICompatible /\ chunk # NoChunk /\ ChunkInv
      /\ begun > 0 /\ LastBlock \in Index /\ LastBlock # begun /\ LastBlock < begun
  BY GeneratesFacts DEF ForwardsText, ForwardsArguments, LastBlock, ModelType
<1>2. LastBlock # NoIndex /\ NoId \notin Index /\ NoIndex \notin Index
  BY <1>1, ChunkFields
<1>3. next_index \in {begun, LastBlock}
  BY <1>1 DEF ChunkInv
<1>4. CASE ForwardsText
  <2>1. chunk.text \in Pieces /\ chunk.text # NoPiece /\ Delta(open_index, chunk.text)
    BY <1>1, <1>4, ChunkFields DEF ForwardsText
  <2>2. next_index = begun /\ open_index = LastBlock
    BY <1>1, <1>3, <1>4, <2>1 DEF ForwardsText, ChunkInv
  <2> QED
    BY <1>1, <2>1, <2>2
<1>5. CASE ForwardsArguments
  <2>1. /\ chunk.args \in Pieces /\ chunk.args # NoPiece /\ ~NewCall /\ chunk.text = NoPiece
        /\ chunk.id \in Index \cup {NoId}
    BY <1>1, <1>5, ChunkFields DEF ForwardsArguments, ChunkInv
  <2>2. CASE chunk.id = NoId
    <3>1. next_index = begun /\ open_index = LastBlock
      BY <1>1, <2>1, <2>2 DEF ChunkInv
    <3>2. Delta(LastBlock, chunk.args)
      BY <1>2, <1>5, <2>2, <3>1 DEF ForwardsArguments
    <3> QED
      BY <1>1, <2>1, <2>2, <3>1, <3>2
  <2>3. CASE chunk.id # NoId
    <3>1. chunk.id \in Index /\ tool_indices[chunk.id] # NoIndex
      BY <2>1, <2>3 DEF NewCall
    <3>2. tool_indices[chunk.id] = chunk.id /\ chunk.id < next_index
      BY <1>1, <3>1 DEF Inv, LangChainInv
    <3>3. next_index = begun
      BY <1>1, <1>3, <2>1, <3>1, <3>2 DEF ChunkInv, ModelType, LastBlock
    <3>4. open_index = LastBlock /\ (chunk.id # LastBlock => provider = "interleaving")
      BY <1>1, <2>1, <3>1, <3>3 DEF ChunkInv
    <3>5. Delta(chunk.id, chunk.args)
      BY <1>5, <2>3, <3>2 DEF ForwardsArguments
    <3> QED
      BY <2>1, <2>3, <3>1, <3>2, <3>3, <3>4, <3>5
  <2> QED
    BY <2>2, <2>3
<1> QED
  BY <1>4, <1>5

LEMMA ForwardsInv ==
    ASSUME Inv, ForwardsText \/ ForwardsArguments, UNCHANGED bedrockVars
    PROVE  Inv'
<1>1. /\ TypeOK /\ ModelType /\ EncoderType /\ LangChainType
      /\ provider \in OpenAICompatible /\ phase = "reading" /\ chunk # NoChunk
      /\ ChunkInv /\ ~complete /\ ~saved
      /\ begun > 0 /\ LastBlock \in Index /\ LastBlock # begun
      /\ UNCHANGED <<modelVars, saved, LastBlock>> /\ ModelType'
  BY GeneratesFacts DEF ForwardsText, ForwardsArguments
<1>2. chunk' = NoChunk /\ UNCHANGED <<next_index, open_index, open_kind, tool_indices>>
  BY DEF ForwardsText, ForwardsArguments
<1>3. PICK i \in Index, p \in Pieces : Delta(i, p) /\ next_index = begun
                                       /\ open_index = LastBlock
  BY ForwardsFacts
<1>4. /\ wire' \in WireType /\ sseOpen' = sseOpen /\ IsOpen' = IsOpen /\ phase' = phase
      /\ \A j \in Index : Status(j)' = Status(j)
  BY <1>1, <1>3, DeltaAdds DEF EncoderType
<1>5. LangChainType'
  <2>1. text_acc' \in Seq(Pieces)
    <3>1. CASE ForwardsText
      <4>1. chunk.text \in Pieces
        BY <1>1, <3>1, ChunkFields DEF ForwardsText
      <4> QED
        BY <1>1, <3>1, <4>1, AppendProperties DEF ForwardsText, LangChainType
    <3>2. CASE ForwardsArguments
      BY <1>1, <3>2 DEF ForwardsArguments, LangChainType
    <3> QED
      BY <3>1, <3>2
  <2>2. tool_acc' \in [Index -> Seq(Pieces)]
    <3>1. CASE ForwardsText
      BY <1>1, <3>1 DEF ForwardsText, LangChainType
    <3>2. CASE ForwardsArguments /\ chunk.id # NoId
      <4>1. chunk.args \in Pieces /\ chunk.id \in Index
        BY <1>1, <3>2, ChunkFields DEF ForwardsArguments
      <4>2. tool_acc[chunk.id] \in Seq(Pieces)
        BY <1>1, <4>1 DEF LangChainType
      <4>3. Append(tool_acc[chunk.id], chunk.args) \in Seq(Pieces)
        BY <4>1, <4>2, AppendProperties
      <4> QED
        BY <1>1, <3>2, <4>3 DEF ForwardsArguments, LangChainType
    <3>3. CASE ForwardsArguments /\ chunk.id = NoId
      BY <1>1, <3>3 DEF ForwardsArguments, LangChainType
    <3> QED
      BY <3>1, <3>2, <3>3
  <2> QED
    BY <1>1, <1>2, <2>1, <2>2 DEF LangChainType, NoChunk
<1>6. EncoderType'
  BY <1>1, <1>4 DEF EncoderType
<1>7. WireInv'
  BY <1>1, <1>4 DEF Inv, WireInv, modelVars
<1>8. LangChainInv'
  <2>1. open_kind = script[LastBlock].kind
    BY <1>1, <1>3 DEF ChunkInv
  <2>2. NoChunk.text = NoPiece
    BY DEF NoChunk
  <2>3. ChunkInv'
    BY <1>1, <1>2, <1>3, <2>1, <2>2 DEF ChunkInv, modelVars
  <2> QED
    BY <1>1, <1>2, <1>4, <2>3 DEF Inv, LangChainInv, modelVars
<1> QED
  BY <1>1, <1>5, <1>6, <1>7, <1>8, OtherFamilyToo DEF Inv, TypeOK, modelVars

LEMMA EndOfChunksInv ==
    ASSUME Inv, EndOfChunks, UNCHANGED bedrockVars
    PROVE  Inv'
<1>1. TypeOK /\ ModelType /\ EncoderType /\ LangChainType
  BY DEF Inv, TypeOK
<1>2. /\ provider \in OpenAICompatible /\ phase = "reading" /\ complete /\ chunk = NoChunk
      /\ ChunkInv /\ sseOpen = IsOpen
      /\ UNCHANGED <<modelVars, chunk, next_index, open_kind, tool_indices, text_acc, tool_acc>>
  BY DEF EndOfChunks, Inv, WireInv, LangChainInv, ChunkInv
<1>3. CASE open_index = NoIndex
  <2>1. IsOpen = {}
    BY <1>2, <1>3 DEF Inv, LangChainInv
  <2>2. saved' = TRUE /\ phase' = "closing" /\ UNCHANGED <<wire, sseOpen, open_index>>
    BY <1>3 DEF EndOfChunks, LastChunk
  <2> QED
    BY <1>1, <1>2, <2>1, <2>2, PhaseInv DEF bedrockVars, langchainVars, TypeOK, BedrockType
<1>4. CASE open_index # NoIndex
  <2>1. PICK i \in Index : i = open_index
    BY <1>1, <1>4 DEF LangChainType
  <2>2. BlockStop(i) /\ open_index' = NoIndex /\ UNCHANGED saved
    BY <1>4, <2>1 DEF EndOfChunks
  <2>3. /\ wire' \in WireType /\ sseOpen' = sseOpen \ {i} /\ IsOpen' = IsOpen \ {i}
        /\ phase' = phase /\ Status(i)' = "closed"
        /\ \A j \in Index \ {i} : wire'[j] = wire[j]
    BY <1>1, <2>2, StopCloses DEF EncoderType
  <2>4. Status(i) = "open" /\ IsOpen' = {}
    BY <1>2, <1>4, <2>1, <2>3 DEF Inv, LangChainInv, IsOpen
  <2>5. \A j \in Index : Status(j)' = "none" <=> Status(j) = "none"
    BY <2>3, <2>4 DEF Status
  <2>6. ModelType' /\ EncoderType' /\ LangChainType'
    BY <1>1, <1>2, <2>2, <2>3 DEF ModelType, EncoderType, LangChainType, modelVars
  <2>7. WireInv'
    BY <1>2, <2>2, <2>3, <2>5 DEF Inv, WireInv, modelVars
  <2>8. begun > 0 /\ LastBlock' = LastBlock
    BY <1>1, <1>2, <1>4 DEF ChunkInv, ModelType, LastBlock, modelVars
  <2>9. next_index = begun /\ next_index # LastBlock
    BY <1>1, <1>2, <2>8 DEF ChunkInv, LastBlock, ModelType
  <2>10. ChunkInv'
    BY <1>2, <2>2, <2>8, <2>9 DEF ChunkInv, modelVars, NoChunk
  <2>11. LangChainInv'
    BY <1>2, <2>2, <2>4, <2>5, <2>10 DEF Inv, LangChainInv, modelVars
  <2> QED
    BY <1>1, <1>2, <2>6, <2>7, <2>11, OtherFamilyToo DEF Inv, TypeOK, modelVars
<1> QED
  BY <1>3, <1>4

-----------------------------------------------------------------------------
(* The invariant holds. *)

LEMMA FinishInv ==
    ASSUME Inv, EncoderNext
    PROVE  Inv'
<1>1. sseOpen = {}
  BY DEF EncoderNext, Finish, Inv, WireInv
<1>2. /\ phase = "closing" /\ phase' = "stopped"
      /\ UNCHANGED <<wire, sseOpen, saved, modelVars, bedrockVars, langchainVars>>
  BY <1>1 DEF EncoderNext, Finish
<1> QED
  BY <1>1, <1>2, PhaseInv DEF bedrockVars, Ended, Inv, WireInv, TypeOK, EncoderType, BedrockType

LEMMA BreaksOffInv ==
    ASSUME Inv, Dropped \/ Raises
    PROVE  Inv'
  BY PhaseInv DEF Dropped, Raises, bedrockVars, Ended, Inv, TypeOK, EncoderType, BedrockType

\* A step of the Bedrock stream or generator.
LEMMA BedrockNextInv ==
    ASSUME Inv, BedrockNext
    PROVE  Inv'
<1>1. UNCHANGED langchainVars
  BY DEF BedrockNext
<1>2. NoPiece \in NextPieces
  BY DEF NextPieces
<1>3. ASSUME NEW k \in Kinds, SendsStart(k) PROVE Inv'
  BY <1>1, <1>2, <1>3, FirstEventInv DEF SendsStart
<1>4. ASSUME NEW k \in Kinds, NEW p \in NextPieces, SendsFirstDelta(k, p) PROVE Inv'
  BY <1>1, <1>4, FirstEventInv DEF SendsFirstDelta
<1>5. ASSUME NEW p \in NextPieces, SendsDelta(p) PROVE Inv'
  BY <1>1, <1>5, SendsDeltaInv
<1>6. CASE SendsStop \/ SendsEnd
  BY <1>1, <1>6, SendsStopInv, SendsEndInv
<1>7. CASE BedrockStep
  BY <1>1, <1>7, OpensInv, ContentBlockDeltaInv, ContentBlockStopInv, StreamFailsInv,
     FinallyInv, ClosesBlocksInv DEF BedrockStep
<1> QED
  BY <1>3, <1>4, <1>5, <1>6, <1>7 DEF BedrockNext, ConverseStep

\* A step of the LangChain stream or generator.
LEMMA LangChainNextInv ==
    ASSUME Inv, LangChainNext
    PROVE  Inv'
<1>1. UNCHANGED bedrockVars
  BY DEF LangChainNext
<1>2. ASSUME NEW p \in NextPieces, SendsText(p) \/ SendsCall(p) PROVE Inv'
  BY <1>1, <1>2, SendsTextInv, SendsCallInv
<1>3. ASSUME NEW i \in Index, NEW p \in NextPieces, SendsArguments(i, p) PROVE Inv'
  BY <1>1, <1>3, SendsArgumentsInv
<1>4. CASE SendsLast
  BY <1>1, <1>4, SendsLastInv
<1>5. CASE LangChainStep
  BY <1>1, <1>5, ClosesOpenBlockInv, OpensNextInv, ForwardsInv, EndOfChunksInv
     DEF LangChainStep
<1> QED
  BY <1>2, <1>3, <1>4, <1>5 DEF LangChainNext, ChunkStep

LEMMA NextInv == Inv /\ [Next]_vars => Inv'
<1> SUFFICES ASSUME Inv, [Next]_vars PROVE Inv'
  OBVIOUS
<1>1. CASE UNCHANGED vars
  BY <1>1, PhaseInv
     DEF vars, encoderVars, bedrockVars, Inv, TypeOK, EncoderType, BedrockType, WireInv
<1>2. CASE Next
  BY <1>2, BedrockNextInv, LangChainNextInv, FinishInv, BreaksOffInv DEF Next
<1> QED
  BY <1>1, <1>2

LEMMA InvHolds == Spec => []Inv
  BY InitInv, NextInv, PTL DEF Spec

\* Every variable keeps its type; an event or a chunk belongs to the provider's family.
THEOREM TypeCorrect == Spec => []TypeOK
<1>1. Inv => TypeOK
  BY DEF Inv
<1> QED
  BY <1>1, InvHolds, PTL

\* At most one block is open at a time, unless Converse leaves it to the gateway to
\* stop them.
THEOREM BlocksFollowOneAnother == Spec => []OneAtATime
<1>1. Inv => OneAtATime
  <2> SUFFICES ASSUME Inv, provider # "unstopped",
                      NEW i \in IsOpen, NEW j \in IsOpen
               PROVE  i = j
    BY DEF OneAtATime, IsOpen, Status
  <2>1. CASE provider \in Converse
    BY <2>1 DEF Inv, BedrockInv
  <2>2. CASE provider \in OpenAICompatible
    BY <2>2 DEF Inv, LangChainInv
  <2> QED
    BY <2>1, <2>2, ProvidersAssumption DEF Inv, TypeOK, ModelType
<1> QED
  BY <1>1, InvHolds, PTL

-----------------------------------------------------------------------------
(* The detailed stream is one of the grammar's: each event of the wire is  *)
(* a step of the contract, everything else a stutter.                      *)

Grammar == [i \in Index |-> [status |-> wire[i].status, deltas |-> wire[i].deltas]]
Outcome == IF phase \in Ended THEN phase ELSE "no"

\* content_block_start is Open.
LEMMA StartIsOpen ==
    ASSUME TypeOK, phase \notin Ended, provider' = provider,
           NEW i \in Index, NEW k \in Kinds, Status(i) = "none", BlockStart(i, k)
    PROVE  Contract!Open(i)
<1>1. wire \in WireType /\ sseOpen \in SUBSET Index
  BY DEF TypeOK, EncoderType
<1>2. /\ Status(i)' = "open" /\ wire'[i].deltas = wire[i].deltas /\ phase' = phase
      /\ \A j \in Index \ {i} : wire'[j] = wire[j]
  BY <1>1, StartOpens
<1>3. Grammar[i].status = "none"
  BY DEF Grammar, Status
<1>4. Grammar' = [Grammar EXCEPT ![i].status = "open"]
  BY <1>2 DEF Grammar, Status
<1>5. Outcome = "no" /\ Outcome' = Outcome
  BY <1>2 DEF Outcome
<1> QED
  BY <1>3, <1>4, <1>5 DEF Contract!Open, Grammar, Outcome

\* content_block_delta is Add, of a closed block only if the server interleaves calls.
LEMMA DeltaIsAdd ==
    ASSUME TypeOK, phase \notin Ended, provider' = provider,
           NEW i \in Index, NEW p \in Pieces, Delta(i, p), Status(i) # "none",
           Status(i) = "open" \/ provider = "interleaving"
    PROVE  Contract!Add(i, p)
<1>1. wire \in WireType
  BY DEF TypeOK, EncoderType
<1>2. /\ wire'[i].deltas = Append(wire[i].deltas, p) /\ phase' = phase
      /\ wire'[i].status = wire[i].status
      /\ \A j \in Index \ {i} : wire'[j] = wire[j]
  BY <1>1, DeltaAdds DEF Status
<1>3. \/ Grammar[i].status = "open"
      \/ provider = "interleaving" /\ Grammar[i].status = "closed"
  BY <1>1 DEF Grammar, Status, WireType
<1>4. Grammar' = [Grammar EXCEPT ![i].deltas = Append(@, p)]
  BY <1>2 DEF Grammar
<1>5. Outcome = "no" /\ Outcome' = Outcome
  BY <1>2 DEF Outcome
<1> QED
  BY <1>3, <1>4, <1>5 DEF Contract!Add, Grammar, Outcome

\* content_block_stop is Close.
LEMMA StopIsClose ==
    ASSUME TypeOK, phase \notin Ended, provider' = provider,
           NEW i \in Index, Status(i) = "open", BlockStop(i)
    PROVE  Contract!Close(i)
<1>1. wire \in WireType
  BY DEF TypeOK, EncoderType
<1>2. /\ wire'[i].status = "closed" /\ wire'[i].deltas = wire[i].deltas /\ phase' = phase
      /\ \A j \in Index \ {i} : wire'[j] = wire[j]
  BY <1>1, StopCloses DEF Status
<1>3. Grammar[i].status = "open"
  BY DEF Grammar, Status
<1>4. Grammar' = [Grammar EXCEPT ![i].status = "closed"]
  BY <1>2 DEF Grammar
<1>5. Outcome = "no" /\ Outcome' = Outcome
  BY <1>2 DEF Outcome
<1> QED
  BY <1>3, <1>4, <1>5 DEF Contract!Close, Grammar, Outcome

\* A step that sends nothing and does not end the stream is a stutter.
LEMMA SilenceStutters ==
    ASSUME UNCHANGED <<wire, provider>>, phase' = phase \/ {phase, phase'} \cap Ended = {}
    PROVE  UNCHANGED Contract!contractVars
<1>1. Grammar' = Grammar /\ Outcome' = Outcome
  BY DEF Grammar, Outcome
<1> QED
  BY <1>1 DEF Contract!contractVars, Grammar, Outcome

\* A stream that breaks off does so as the contract lets it.
LEMMA BreakIsBreakOff ==
    ASSUME UNCHANGED <<wire, provider>>, phase \notin Ended,
           phase' \in {"error", "raised", "dropped"}
    PROVE  Contract!BreakOff
<1>1. Grammar' = Grammar /\ Outcome = "no" /\ Outcome' = phase'
  BY DEF Grammar, Outcome, Ended
<1> QED
  BY <1>1 DEF Contract!BreakOff, Grammar, Outcome

LEMMA BedrockSends ==
    ASSUME Inv, BedrockStep, UNCHANGED langchainVars
    PROVE  [Contract!Next]_Contract!contractVars
<1>1. TypeOK /\ EncoderType /\ BedrockType /\ open_blocks \subseteq Index
  BY DEF Inv, TypeOK, BedrockType
<1>2. "reading" \notin Ended
  BY DEF Ended
<1>3. CASE ContentBlockStart \/ OpensLazily
  <2>1. PICK type \in {"start", "delta"} :
          Handles(type) /\ BlockStart(EventIndex, event.kind)
          /\ (type = "delta" => EventIndex \notin open_blocks)
    BY <1>3 DEF ContentBlockStart, OpensLazily
  <2>2. /\ phase = "reading" /\ EventIndex \in Index /\ EventInv /\ provider' = provider
        /\ provider \in Converse /\ EventIndex = LastBlock /\ event.type = type
        /\ event.kind \in Kinds \cup {"none"}
    BY <2>1, HandlesFacts DEF modelVars
  <2>3. event.kind \in Kinds
    BY <2>2 DEF EventInv
  <2>4. Status(EventIndex) = "none"
    BY <2>1, <2>2 DEF EventInv, Inv, BedrockInv, IsOpen
  <2>5. PICK i \in Index, k \in Kinds : i = EventIndex /\ k = event.kind
    BY <2>2, <2>3
  <2>6. Contract!Open(i)
    BY <1>1, <1>2, <2>1, <2>2, <2>4, <2>5, StartIsOpen
  <2> QED
    BY <2>6 DEF Contract!Next
<1>4. CASE ContentBlockDelta
  <2>1. Handles("delta") /\ EventIndex \in open_blocks
    BY <1>4 DEF ContentBlockDelta
  <2>2. /\ phase = "reading" /\ EventIndex \in Index /\ UNCHANGED <<modelVars, provider>>
        /\ event.piece \in Pieces \cup {NoPiece} /\ provider \in Converse
    BY <2>1, HandlesFacts DEF modelVars
  <2>3. CASE event.piece = NoPiece
    BY <1>4, <2>2, <2>3, SilenceStutters DEF ContentBlockDelta, encoderVars
  <2>4. CASE event.piece # NoPiece
    <3>1. Status(EventIndex) = "open"
      BY <2>1, <2>2 DEF Inv, BedrockInv, IsOpen
    <3>2. PICK i \in Index, p \in Pieces : i = EventIndex /\ p = event.piece /\ Delta(i, p)
      BY <1>4, <2>2, <2>4 DEF ContentBlockDelta
    <3>3. Contract!Add(i, p)
      BY <1>1, <1>2, <2>2, <3>1, <3>2, DeltaIsAdd
    <3> QED
      BY <3>3 DEF Contract!Next
  <2> QED
    BY <2>3, <2>4
<1>5. CASE ContentBlockStop
  <2>1. Handles("stop") /\ BlockStop(EventIndex)
    BY <1>5 DEF ContentBlockStop
  <2>2. /\ phase = "reading" /\ EventIndex \in Index /\ EventInv /\ provider' = provider
        /\ EventIndex = LastBlock /\ event.type = "stop"
    BY <2>1, HandlesFacts DEF modelVars
  <2>3. Status(EventIndex) = "open"
    BY <2>2 DEF EventInv
  <2>4. PICK i \in Index : i = EventIndex
    BY <2>2
  <2>5. Contract!Close(i)
    BY <1>1, <1>2, <2>1, <2>2, <2>3, <2>4, StopIsClose
  <2> QED
    BY <2>5 DEF Contract!Next
<1>6. CASE StreamFails
  <2>1. Contract!BreakOff
    BY <1>2, <1>6, BreakIsBreakOff DEF StreamFails, Error, modelVars
  <2> QED
    BY <2>1 DEF Contract!Next
<1>7. CASE Finally
  BY <1>7, SilenceStutters DEF Finally, encoderVars, modelVars
<1>8. CASE ClosesBlocks
  <2>1. phase = "reading" /\ provider' = provider /\ wire \in WireType /\ open_blocks = IsOpen
    BY <1>1, <1>8 DEF ClosesBlocks, modelVars, EncoderType, Inv, BedrockInv
  <2>2. CASE open_blocks = {}
    BY <1>2, <1>8, <2>1, <2>2, SilenceStutters DEF ClosesBlocks, LastChunk, Ended
  <2>3. CASE open_blocks # {}
    <3>1. PICK i \in open_blocks : BlockStop(i)
      BY <1>8, <2>3 DEF ClosesBlocks
    <3>2. i \in Index /\ Status(i) = "open"
      BY <1>1, <2>1, <3>1 DEF IsOpen
    <3>3. Contract!Close(i)
      BY <1>1, <1>2, <2>1, <3>1, <3>2, StopIsClose
    <3> QED
      BY <3>2, <3>3 DEF Contract!Next
  <2> QED
    BY <2>2, <2>3
<1> QED
  BY <1>3, <1>4, <1>5, <1>6, <1>7, <1>8 DEF BedrockStep

LEMMA LangChainSends ==
    ASSUME Inv, LangChainStep, UNCHANGED bedrockVars
    PROVE  [Contract!Next]_Contract!contractVars
<1>1. TypeOK /\ EncoderType /\ LangChainType
  BY DEF Inv, TypeOK
<1>2. "reading" \notin Ended
  BY DEF Ended
<1>3. ASSUME NEW i \in Index, BlockStop(i), open_index = i, phase = "reading",
             provider \in OpenAICompatible, provider' = provider
      PROVE  Contract!Next
  <2>1. i # NoIndex
    BY <1>1, <1>3, ChunkFields
  <2>2. Status(i) = "open"
    BY <1>3, <2>1 DEF Inv, LangChainInv, IsOpen
  <2>3. Contract!Close(i)
    BY <1>1, <1>2, <1>3, <2>2, StopIsClose
  <2> QED
    BY <2>3 DEF Contract!Next
<1>4. CASE ClosesOpenBlock
  <2>1. Generates /\ open_index # NoIndex /\ BlockStop(open_index)
    BY <1>4 DEF ClosesOpenBlock
  <2>2. open_index \in Index
    BY <1>1, <2>1 DEF LangChainType
  <2>3. phase = "reading" /\ provider \in OpenAICompatible /\ provider' = provider
    BY <2>1, GeneratesFacts DEF modelVars
  <2> QED
    BY <1>3, <2>1, <2>2, <2>3
<1>5. CASE OpensText \/ OpensCall
  <2>1. PICK k \in Kinds : Generates /\ (NewText \/ NewCall) /\ BlockStart(next_index, k)
    BY <1>5 DEF OpensText, OpensCall, Kinds
  <2>2. /\ next_index \in Index /\ phase = "reading"
        /\ provider \in OpenAICompatible /\ provider' = provider
    BY <2>1, GeneratesFacts, NewBlockFacts DEF modelVars
  <2>3. Status(next_index) = "none"
    BY <2>2, SizesAssumption DEF Inv, LangChainInv, Index
  <2>4. PICK i \in Index : i = next_index
    BY <2>2
  <2>5. Contract!Open(i)
    BY <1>1, <1>2, <2>1, <2>2, <2>3, <2>4, StartIsOpen
  <2> QED
    BY <2>5 DEF Contract!Next
<1>6. CASE ForwardsText \/ ForwardsArguments
  <2>1. /\ phase = "reading" /\ provider \in OpenAICompatible /\ provider' = provider
        /\ LastBlock \in Index /\ LastBlock # NoIndex
    BY <1>1, <1>6, GeneratesFacts, ChunkFields DEF ForwardsText, ForwardsArguments, modelVars
  <2>2. PICK i \in Index, p \in Pieces :
          /\ Delta(i, p) /\ i < next_index /\ open_index = LastBlock
          /\ i # LastBlock => provider = "interleaving"
    BY <1>6, ForwardsFacts
  <2>3. ~(i >= next_index)
    BY <1>1, <2>2, SizesAssumption DEF LangChainType, Index
  <2>4. Status(i) # "none"
    BY <2>1, <2>3 DEF Inv, LangChainInv
  <2>5. Status(i) = "open" \/ provider = "interleaving"
    BY <2>1, <2>2 DEF Inv, LangChainInv, IsOpen
  <2>6. Contract!Add(i, p)
    BY <1>1, <1>2, <2>1, <2>2, <2>4, <2>5, DeltaIsAdd
  <2> QED
    BY <2>2, <2>6 DEF Contract!Next
<1>7. CASE EndOfChunks
  <2>1. phase = "reading" /\ provider \in OpenAICompatible /\ provider' = provider
    BY <1>7 DEF EndOfChunks, modelVars
  <2>2. CASE open_index # NoIndex
    <3>1. open_index \in Index /\ BlockStop(open_index)
      BY <1>1, <1>7, <2>2 DEF EndOfChunks, LangChainType
    <3> QED
      BY <1>3, <2>1, <3>1
  <2>3. CASE open_index = NoIndex
    BY <1>7, <2>1, <2>3, SilenceStutters DEF EndOfChunks, LastChunk, Ended
  <2> QED
    BY <2>2, <2>3
<1> QED
  BY <1>4, <1>5, <1>6, <1>7 DEF LangChainStep

\* Whatever the model sends and wherever the stream breaks off, the client's events
\* obey the grammar the encoder documents.
THEOREM GrammarImplementsContract == Spec => ContractSpec
<1>1. Init => Contract!Init
  BY DEF Init, EncoderInit, Contract!Init, Ended
<1>2. Inv /\ [Next]_vars => [Contract!Next]_Contract!contractVars
  <2> SUFFICES ASSUME Inv, [Next]_vars
               PROVE  [Contract!Next]_Contract!contractVars
    OBVIOUS
  <2>1. CASE BedrockNext /\ ~BedrockStep
    <3>1. ConverseStep
      BY <2>1 DEF BedrockNext
    <3>2. UNCHANGED <<encoderVars, provider>>
      BY <3>1 DEF ConverseStep, SendsStart, SendsFirstDelta, SendsDelta, SendsStop, SendsEnd,
                  Receives, Begins, GoesOn, Completes
    <3> QED
      BY <3>2, SilenceStutters DEF encoderVars
  <2>2. CASE BedrockNext /\ BedrockStep
    BY <2>2, BedrockSends DEF BedrockNext
  <2>3. CASE LangChainNext /\ ~LangChainStep
    <3>1. ChunkStep
      BY <2>3 DEF LangChainNext
    <3>2. UNCHANGED <<encoderVars, provider>>
      BY <3>1 DEF ChunkStep, SendsText, SendsCall, SendsArguments, SendsLast,
                  Yields, Begins, GoesOn, Completes
    <3> QED
      BY <3>2, SilenceStutters DEF encoderVars
  <2>4. CASE LangChainNext /\ LangChainStep
    BY <2>4, LangChainSends DEF LangChainNext
  <2>5. CASE EncoderNext
    <3>1. sseOpen = {} /\ IsOpen = {}
      BY <2>5 DEF EncoderNext, Finish, Inv, WireInv
    <3>2. phase = "closing" /\ phase' = "stopped" /\ UNCHANGED <<wire, provider>>
      BY <2>5, <3>1 DEF EncoderNext, Finish, modelVars
    <3>3. Grammar' = Grammar /\ Outcome = "no" /\ Outcome' = "stopped"
      BY <3>2 DEF Grammar, Outcome, Ended
    <3>4. \A i \in Index : Grammar[i].status # "open"
      BY <3>1 DEF Grammar, IsOpen, Status
    <3>5. Contract!MessageStop
      BY <3>2, <3>3, <3>4 DEF Contract!MessageStop, Grammar, Outcome
    <3> QED
      BY <3>5 DEF Contract!Next
  <2>6. CASE Dropped \/ Raises
    <3>1. Contract!BreakOff
      BY <2>6, BreakIsBreakOff DEF Dropped, Raises, modelVars, Ended
    <3> QED
      BY <3>1 DEF Contract!Next
  <2>7. CASE UNCHANGED vars
    BY <2>7, SilenceStutters DEF vars, encoderVars, modelVars
  <2> QED
    BY <2>1, <2>2, <2>3, <2>4, <2>5, <2>6, <2>7 DEF Next
<1> QED
  BY <1>1, <1>2, InvHolds, PTL DEF Spec, ContractSpec, Contract!Spec

-----------------------------------------------------------------------------
(* The whole answer: at every moment, what was sent and what is pending of the event *)
(* being handled make up what was received. *)

\* The block the chunk being handled is about, and the piece it carries.
ChunkBlock == IF chunk.id = NoId THEN LastBlock ELSE chunk.id
ChunkPiece == IF chunk.text # NoPiece THEN chunk.text ELSE chunk.args

\* What has been received for block i and not been forwarded yet.
Pending(i) ==
    IF event.type = "delta" /\ i = LastBlock THEN Content(event.piece)
    ELSE IF chunk # NoChunk /\ i = ChunkBlock THEN Content(ChunkPiece)
    ELSE <<>>

NothingReceived == event = NoEvent /\ chunk = NoChunk

\* Unless the stream broke off, what was received is what was sent and what is pending;
\* only the last block may not have been opened yet, while its event is handled.
AnswerInv ==
    phase \in {"reading", "closing", "stopped"} =>
        /\ \A i \in Index : script[i].deltas = wire[i].deltas \o Pending(i)
        /\ \A i \in Index : i >= begun => script[i] = NoBlock
        /\ \A i \in Index :
              wire[i].kind = IF Status(i) = "none" THEN "none" ELSE script[i].kind
        /\ \A i \in Index : Status(i) = "none" => wire[i].deltas = <<>>
        /\ \A i \in Index : i < begun /\ Status(i) = "none" => i = LastBlock /\ ~NothingReceived
        /\ phase # "reading" => NothingReceived

LEMMA NothingPending ==
    ASSUME NothingReceived
    PROVE  \A i \in Index : Pending(i) = <<>>
  BY DEF NothingReceived, Pending, NoEvent, NoChunk

\* Pieces received for block i are pending until they are forwarded.
LEMMA ReceivedIsPending ==
    ASSUME Inv, AnswerInv, phase = "reading", NothingReceived, ~NothingReceived',
           UNCHANGED <<wire, phase>>, NEW i \in Index, NEW p \in NextPieces,
           \A j \in Index : Pending(j)' = IF j = i THEN Content(p) ELSE <<>>,
           \A j \in Index \ {i} : script'[j] = script[j],
           \/ /\ script'[i].deltas = script[i].deltas \o Content(p) /\ i < begun
              /\ script'[i].kind = script[i].kind
              /\ begun' = begun
           \/ /\ script'[i].deltas = Content(p) /\ i = begun
              /\ begun' = begun + 1 /\ LastBlock' = i
    PROVE  AnswerInv'
<1>1. ModelType /\ EncoderType /\ begun \in Nat
  BY DEF Inv, TypeOK, ModelType
<1>2. Content(p) \in Seq(Pieces) /\ wire[i].deltas \in Seq(Pieces)
  BY <1>1, ContentType, NextPiecesType DEF EncoderType, WireType
<1>3. \A j \in Index : Pending(j) = <<>>
  BY NothingPending
<1>4. \A j \in Index : Status(j)' = Status(j)
  BY DEF Status
<1>5. \A j \in Index : script'[j].deltas = wire'[j].deltas \o Pending(j)'
  <2> SUFFICES ASSUME NEW j \in Index
               PROVE  script'[j].deltas = wire[j].deltas \o Pending(j)'
    OBVIOUS
  <2>1. CASE j # i
    BY <1>3, <2>1 DEF AnswerInv
  <2>2. CASE j = i
    <3>1. CASE script'[i].deltas = script[i].deltas \o Content(p)
      <4>1. script[i].deltas = wire[i].deltas
        BY <1>2, <1>3, ConcatEmptySeq DEF AnswerInv
      <4> QED
        BY <2>2, <3>1, <4>1
    <3>2. CASE script'[i].deltas = Content(p) /\ i = begun
      <4>1. wire[i].deltas = <<>>
        BY <1>1, <3>2 DEF AnswerInv, Inv, WireInv
      <4> QED
        BY <1>2, <2>2, <3>2, <4>1, ConcatEmptySeq
    <3> QED
      BY <3>1, <3>2
  <2> QED
    BY <2>1, <2>2
<1>6. \A j \in Index : Status(j) = "none" => j >= begun
  <2> SUFFICES ASSUME NEW j \in Index, Status(j) = "none", ~(j >= begun) PROVE FALSE
    OBVIOUS
  <2>1. j < begun
    BY <1>1, SizesAssumption DEF Index
  <2> QED
    BY <2>1 DEF AnswerInv
<1>7. \A j \in Index : j >= begun' => script'[j] = NoBlock
  BY <1>1, SizesAssumption DEF AnswerInv, Index
<1>8. \A j \in Index :
        wire'[j].kind = IF Status(j)' = "none" THEN "none" ELSE script'[j].kind
  <2>1. Status(i) = "none" \/ script'[i].kind = script[i].kind
    BY <1>1 DEF Inv, WireInv
  <2> QED
    BY <1>4, <2>1 DEF AnswerInv
<1>9. \A j \in Index : j < begun' /\ Status(j)' = "none" => j = LastBlock'
  BY <1>1, <1>4, <1>6, SizesAssumption DEF Index
<1> QED
  BY <1>4, <1>5, <1>7, <1>8, <1>9 DEF AnswerInv

\* A step that receives nothing keeps what was sent and what is pending together.
LEMMA SentOrPending ==
    ASSUME Inv, AnswerInv, phase \in {"reading", "closing", "stopped"},
           UNCHANGED <<script, begun>>,
           \A j \in Index : wire'[j].deltas \o Pending(j)' = wire[j].deltas \o Pending(j),
           \A j \in Index : \/ Status(j)' # "none" /\ wire'[j].kind = script[j].kind
                            \/ wire'[j] = wire[j],
           \/ NothingReceived' => NothingReceived
           \/ Status(LastBlock)' # "none",
           phase' # "reading" => NothingReceived'
    PROVE  AnswerInv'
<1>1. \A j \in Index : Status(j)' = "none" => wire'[j] = wire[j] /\ Status(j) = "none"
  BY DEF Status
<1>2. LastBlock' = LastBlock
  BY DEF LastBlock
<1>3. \A j \in Index : j < begun' /\ Status(j)' = "none" => j = LastBlock' /\ ~NothingReceived'
  BY <1>1, <1>2 DEF AnswerInv
<1>4. \A j \in Index :
        wire'[j].kind = IF Status(j)' = "none" THEN "none" ELSE script'[j].kind
  BY DEF AnswerInv, Status
<1>5. \A j \in Index : Status(j)' = "none" => wire'[j].deltas = <<>>
  BY <1>1 DEF AnswerInv
<1> QED
  BY <1>3, <1>4, <1>5 DEF AnswerInv
\* With one family of providers the other's variables have nothing to say.
FromBedrock ==
    /\ chunk = NoChunk /\ (NothingReceived <=> event = NoEvent)
    /\ \A j \in Index : Pending(j) = IF event.type = "delta" /\ j = LastBlock
                                     THEN Content(event.piece) ELSE <<>>
FromLangChain ==
    /\ event = NoEvent /\ (NothingReceived <=> chunk = NoChunk)
    /\ \A j \in Index : Pending(j) = IF chunk # NoChunk /\ j = ChunkBlock
                                     THEN Content(ChunkPiece) ELSE <<>>

LEMMA BedrockPending == TypeOK /\ provider \in Converse => FromBedrock
<1> SUFFICES ASSUME TypeOK, provider \in Converse PROVE FromBedrock
  OBVIOUS
<1>1. chunk = NoChunk
  BY Families DEF TypeOK, LangChainType
<1> QED
  BY <1>1 DEF FromBedrock, Pending, NothingReceived

LEMMA LangChainPending == TypeOK /\ provider \in OpenAICompatible => FromLangChain
<1> SUFFICES ASSUME TypeOK, provider \in OpenAICompatible PROVE FromLangChain
  OBVIOUS
<1>1. event = NoEvent
  BY Families DEF TypeOK, BedrockType
<1>2. event.type # "delta"
  BY <1>1 DEF NoEvent
<1> QED
  BY <1>1, <1>2 DEF FromLangChain, Pending, NothingReceived

LEMMA PendingNext ==
    /\ (TypeOK /\ provider \in Converse => FromBedrock)'
    /\ (TypeOK /\ provider \in OpenAICompatible => FromLangChain)'
  BY BedrockPending, LangChainPending, PTL

LEMMA NoPieceIsEmpty == Content(NoPiece) = <<>>
  BY DEF Content

\* The event that begins a block, or goes on with it.
LEMMA ConverseAnswers ==
    ASSUME Inv, AnswerInv, TypeOK', NEW i \in Index, NEW p \in NextPieces,
           NEW type \in {"start", "delta"}, NEW k \in Kinds \cup {"none"},
           type = "start" => p = NoPiece,
           Receives(type, i, k, p), UNCHANGED langchainVars,
           \/ Begins(k, p) /\ i = begun /\ k \in Kinds
           \/ GoesOn(i, p) /\ i = LastBlock
    PROVE  AnswerInv'
<1>1. TypeOK /\ ModelType
  BY DEF Inv, TypeOK
<1>2. provider' = provider
  BY DEF Begins, GoesOn
<1>3. /\ provider \in Converse /\ phase = "reading" /\ event = NoEvent /\ event' # NoEvent
      /\ event'.type = type /\ event'.piece = p /\ UNCHANGED <<wire, phase>>
  BY <1>1, <1>2, ReceivesFacts DEF encoderVars
<1>4. \/ /\ script'[i].deltas = script[i].deltas \o Content(p) /\ i < begun
         /\ script'[i].kind = script[i].kind
         /\ begun' = begun /\ LastBlock' = i
      \/ /\ script'[i].deltas = Content(p) /\ i = begun
         /\ begun' = begun + 1 /\ LastBlock' = i
  <2>1. CASE Begins(k, p) /\ i = begun /\ k \in Kinds
    BY <1>1, <2>1, BeginsFacts
  <2>2. CASE GoesOn(i, p) /\ i = LastBlock
    <3>1. /\ script'[i].deltas = script[i].deltas \o Content(p)
          /\ script'[i].kind = script[i].kind /\ begun' = begun
      BY <1>1, <2>2, GoesOnFacts
    <3> QED
      BY <1>1, <2>2, <3>1 DEF LastBlock, ModelType
  <2> QED
    BY <2>1, <2>2
<1>5. \A j \in Index \ {i} : script'[j] = script[j]
  BY <1>1, BeginsFacts, GoesOnFacts
<1>6. \A j \in Index : Pending(j)' = IF j = i THEN Content(p) ELSE <<>>
  <2>1. \A j \in Index : Pending(j)' = IF event'.type = "delta" /\ j = LastBlock'
                                       THEN Content(event'.piece) ELSE <<>>
    BY <1>2, <1>3, PendingNext DEF FromBedrock
  <2> QED
    BY <1>3, <1>4, <2>1, NoPieceIsEmpty
<1>7. NothingReceived /\ ~NothingReceived'
  BY <1>1, <1>2, <1>3, BedrockPending DEF FromBedrock, NothingReceived
<1> QED
  BY <1>3, <1>4, <1>5, <1>6, <1>7, ReceivedIsPending
\* A piece that is forwarded was pending.
LEMMA DeltaAnswer ==
    ASSUME Inv, AnswerInv, phase = "reading", UNCHANGED <<script, begun>>,
           NEW i \in Index, NEW p \in Pieces, Delta(i, p),
           \A j \in Index : Pending(j) = (IF j = i THEN <<p>> ELSE <<>>) /\ Pending(j)' = <<>>,
           Status(i) # "none", Status(LastBlock)' # "none"
    PROVE  AnswerInv'
<1>1. wire \in WireType
  BY DEF Inv, TypeOK, EncoderType
<1>2. /\ wire' \in WireType
      /\ \A j \in Index : Status(j)' = Status(j) /\ wire'[j].kind = wire[j].kind
      /\ wire'[i].deltas = Append(wire[i].deltas, p)
      /\ \A j \in Index \ {i} : wire'[j] = wire[j]
      /\ phase' = phase
  BY <1>1, DeltaAdds
<1>3. wire'[i].deltas \o <<>> = wire[i].deltas \o <<p>>
  <2>1. wire[i].deltas \in Seq(Pieces) /\ wire'[i].deltas \in Seq(Pieces)
    BY <1>1, <1>2 DEF WireType
  <2> QED
    BY <1>2, <2>1, AppendIsConcat, ConcatEmptySeq
<1>4. \A j \in Index : wire'[j].deltas \o Pending(j)' = wire[j].deltas \o Pending(j)
  BY <1>2, <1>3
<1>5. \A j \in Index : \/ Status(j)' # "none" /\ wire'[j].kind = script[j].kind
                       \/ wire'[j] = wire[j]
  BY <1>2 DEF AnswerInv
<1> QED
  BY <1>2, <1>4, <1>5, SentOrPending

\* A step that neither receives nor sends.
LEMMA SilenceKeeps ==
    ASSUME Inv, AnswerInv, UNCHANGED <<script, begun, wire>>,
           phase' \in {"reading", "closing", "stopped"} =>
               /\ phase \in {"reading", "closing", "stopped"}
               /\ \A j \in Index : Pending(j)' = Pending(j)
               /\ NothingReceived' => NothingReceived \/ Status(LastBlock) # "none"
               /\ phase' # "reading" => NothingReceived'
    PROVE  AnswerInv'
<1>1. CASE phase' \notin {"reading", "closing", "stopped"}
  BY <1>1 DEF AnswerInv
<1>2. CASE phase' \in {"reading", "closing", "stopped"}
  BY <1>2, SentOrPending DEF LastBlock, Status
<1> QED
  BY <1>1, <1>2

LEMMA SendsStopAnswer ==
    ASSUME Inv, AnswerInv, TypeOK', SendsStop \/ SendsEnd, UNCHANGED langchainVars
    PROVE  AnswerInv'
<1>1. /\ provider \in Converse /\ event = NoEvent /\ phase = "reading" /\ phase' = phase
      /\ UNCHANGED <<provider, script, begun, wire>>
      /\ event'.type # "delta" /\ (event' = event \/ event' # NoEvent)
  BY DEF SendsStop, SendsEnd, Completes, Receives, encoderVars, bedrockVars, NoEvent
<1>2. FromBedrock /\ FromBedrock'
  BY <1>1, BedrockPending, PendingNext DEF Inv
<1>3. \A j \in Index : Pending(j)' = Pending(j)
  BY <1>1, <1>2 DEF FromBedrock, NoEvent
<1>4. NothingReceived
  BY <1>1, <1>2 DEF FromBedrock
<1> QED
  BY <1>1, <1>3, <1>4, SilenceKeeps

\* What the Bedrock generator sends of an event is what was pending of it.
LEMMA OpensAnswer ==
    ASSUME Inv, AnswerInv, TypeOK', ContentBlockStart \/ OpensLazily, UNCHANGED langchainVars
    PROVE  AnswerInv'
<1>1. PICK type \in {"start", "delta"} :
          /\ Handles(type) /\ BlockStart(EventIndex, event.kind)
          /\ type = "start" => event' = NoEvent
          /\ type = "delta" => event' = event /\ EventIndex \notin open_blocks
  BY DEF ContentBlockStart, OpensLazily
<1>2. /\ provider \in Converse /\ phase = "reading" /\ event.type = type
      /\ EventIndex = LastBlock /\ LastBlock \in Index /\ EventInv
      /\ UNCHANGED <<modelVars, LastBlock>> /\ event.kind \in Kinds \cup {"none"}
  BY <1>1, HandlesFacts
<1>3. UNCHANGED <<provider, script, begun>>
  BY <1>2 DEF modelVars
<1>4. PICK i \in Index, k \in Kinds : i = LastBlock /\ k = event.kind
  BY <1>2 DEF EventInv
<1>5. k = script[i].kind
  BY <1>2, <1>4 DEF EventInv
<1>6. wire \in WireType /\ sseOpen \in SUBSET Index
  BY DEF Inv, TypeOK, EncoderType
<1>7. /\ Status(i)' = "open" /\ wire'[i].kind = k /\ wire'[i].deltas = wire[i].deltas
      /\ \A j \in Index \ {i} : wire'[j] = wire[j]
      /\ phase' = phase
  BY <1>1, <1>2, <1>4, <1>6, StartOpens
<1>8. FromBedrock /\ FromBedrock'
  BY <1>2, <1>3, BedrockPending, PendingNext DEF Inv
<1>9. \A j \in Index : Pending(j)' = Pending(j)
  BY <1>1, <1>2, <1>8 DEF FromBedrock, NoEvent
<1>10. \A j \in Index : \/ Status(j)' # "none" /\ wire'[j].kind = script[j].kind
                        \/ wire'[j] = wire[j]
  BY <1>5, <1>7
<1>11. Status(LastBlock)' # "none"
  BY <1>2, <1>4, <1>7 DEF Status
<1> QED
  BY <1>2, <1>3, <1>7, <1>9, <1>10, <1>11, SentOrPending

LEMMA ContentBlockDeltaAnswer ==
    ASSUME Inv, AnswerInv, TypeOK', ContentBlockDelta, UNCHANGED langchainVars
    PROVE  AnswerInv'
<1>1. Handles("delta") /\ EventIndex \in open_blocks /\ event' = NoEvent
  BY DEF ContentBlockDelta
<1>2. /\ provider \in Converse /\ phase = "reading" /\ event.type = "delta"
      /\ EventIndex = LastBlock /\ LastBlock \in Index
      /\ UNCHANGED <<modelVars, LastBlock>> /\ event.piece \in Pieces \cup {NoPiece}
  BY <1>1, HandlesFacts
<1>3. UNCHANGED <<provider, script, begun>>
  BY <1>2 DEF modelVars
<1>4. FromBedrock /\ FromBedrock' /\ TypeOK /\ EncoderType
  BY <1>2, <1>3, BedrockPending, PendingNext DEF Inv, TypeOK
<1>5. Status(LastBlock) # "none"
  BY <1>1, <1>2 DEF Inv, BedrockInv, IsOpen
<1>6. CASE event.piece = NoPiece
  <2>1. UNCHANGED <<wire, phase>>
    BY <1>6 DEF ContentBlockDelta, encoderVars
  <2>2. \A j \in Index : Pending(j)' = Pending(j)
    BY <1>1, <1>4, <1>6, NoPieceIsEmpty DEF FromBedrock, NoEvent
  <2> QED
    BY <1>2, <1>3, <1>5, <2>1, <2>2, SilenceKeeps
<1>7. CASE event.piece # NoPiece
  <2>1. PICK i \in Index, p \in Pieces :
          i = LastBlock /\ p = event.piece /\ Delta(i, p)
    BY <1>2, <1>7 DEF ContentBlockDelta
  <2>2. Content(p) = <<p>>
    BY <1>7, <2>1 DEF Content
  <2>3. \A j \in Index : Pending(j) = (IF j = i THEN <<p>> ELSE <<>>) /\ Pending(j)' = <<>>
    BY <1>1, <1>2, <1>4, <2>1, <2>2 DEF FromBedrock, NoEvent
  <2>4. Status(LastBlock)' # "none"
    BY <1>2, <1>4, <1>5, <2>1, DeltaAdds DEF EncoderType, Status
  <2>5. Status(i) # "none"
    BY <1>5, <2>1
  <2> QED
    BY <1>2, <1>3, <1>4, <2>1, <2>3, <2>4, <2>5, DeltaAnswer
<1> QED
  BY <1>6, <1>7
\* A block that is stopped keeps what it was sent.
LEMMA StopAnswer ==
    ASSUME Inv, AnswerInv, phase = "reading", UNCHANGED <<script, begun>>,
           NEW i \in Index, BlockStop(i), Status(i) # "none",
           \A j \in Index : Pending(j)' = Pending(j),
           (NothingReceived' => NothingReceived) \/ i = LastBlock
    PROVE  AnswerInv'
<1>1. wire \in WireType
  BY DEF Inv, TypeOK, EncoderType
<1>2. /\ Status(i)' = "closed" /\ wire'[i].kind = wire[i].kind
      /\ wire'[i].deltas = wire[i].deltas
      /\ \A j \in Index \ {i} : wire'[j] = wire[j]
      /\ phase' = phase
  BY <1>1, StopCloses
<1>3. \A j \in Index : wire'[j].deltas \o Pending(j)' = wire[j].deltas \o Pending(j)
  BY <1>2
<1>4. \A j \in Index : \/ Status(j)' # "none" /\ wire'[j].kind = script[j].kind
                       \/ wire'[j] = wire[j]
  BY <1>2 DEF AnswerInv
<1>5. i = LastBlock => Status(LastBlock)' # "none"
  BY <1>2 DEF Status, LastBlock
<1> QED
  BY <1>2, <1>3, <1>4, <1>5, SentOrPending

LEMMA ContentBlockStopAnswer ==
    ASSUME Inv, AnswerInv, TypeOK', ContentBlockStop, UNCHANGED langchainVars
    PROVE  AnswerInv'
<1>1. Handles("stop") /\ event' = NoEvent /\ BlockStop(EventIndex)
  BY DEF ContentBlockStop
<1>2. /\ provider \in Converse /\ phase = "reading" /\ event.type = "stop"
      /\ EventIndex = LastBlock /\ LastBlock \in Index /\ EventInv
      /\ UNCHANGED <<modelVars, LastBlock>>
  BY <1>1, HandlesFacts
<1>3. UNCHANGED <<provider, script, begun>>
  BY <1>2 DEF modelVars
<1>4. FromBedrock /\ FromBedrock'
  BY <1>2, <1>3, BedrockPending, PendingNext DEF Inv
<1>5. \A j \in Index : Pending(j)' = Pending(j)
  BY <1>1, <1>2, <1>4 DEF FromBedrock, NoEvent
<1>6. PICK i \in Index : i = LastBlock /\ BlockStop(i) /\ Status(i) # "none"
  BY <1>1, <1>2 DEF EventInv
<1> QED
  BY <1>2, <1>3, <1>5, <1>6, StopAnswer

LEMMA FinallyAnswer ==
    ASSUME Inv, AnswerInv, TypeOK', StreamFails \/ Finally \/ ClosesBlocks,
           UNCHANGED langchainVars
    PROVE  AnswerInv'
<1>1. provider \in Converse /\ UNCHANGED <<provider, script, begun, event, chunk>>
  BY DEF StreamFails, Finally, ClosesBlocks, modelVars, bedrockVars, langchainVars
<1>2. /\ \A j \in Index : Pending(j)' = Pending(j)
      /\ NothingReceived' <=> NothingReceived
  BY <1>1 DEF Pending, LastBlock, ChunkBlock, ChunkPiece, NothingReceived
<1>3. CASE StreamFails
  BY <1>1, <1>3, SilenceKeeps DEF StreamFails, Error
<1>4. CASE Finally
  <2>1. UNCHANGED <<wire, phase>>
    BY <1>4 DEF Finally, encoderVars
  <2> QED
    BY <1>1, <1>2, <2>1, SilenceKeeps DEF AnswerInv
<1>5. CASE ClosesBlocks
  <2>1. phase = "reading" /\ complete /\ open_blocks = IsOpen /\ EventInv
    BY <1>5 DEF ClosesBlocks, Inv, WireInv, BedrockInv
  <2>2. CASE open_blocks = {}
    <3>1. NothingReceived
      BY <1>1, <2>1, BedrockPending DEF EventInv, FromBedrock, Inv
    <3>2. wire' = wire /\ phase' = "closing"
      BY <1>5, <2>2 DEF ClosesBlocks, LastChunk
    <3> QED
      BY <1>1, <1>2, <2>1, <3>1, <3>2, SilenceKeeps
  <2>3. CASE open_blocks # {}
    <3>1. PICK i \in Index : i \in IsOpen /\ BlockStop(i)
      BY <1>5, <2>1, <2>3 DEF ClosesBlocks, IsOpen
    <3>2. Status(i) # "none"
      BY <3>1 DEF IsOpen
    <3> QED
      BY <1>1, <1>2, <2>1, <3>1, <3>2, StopAnswer
  <2> QED
    BY <2>2, <2>3
<1> QED
  BY <1>3, <1>4, <1>5

\* The message chunk that begins a block, or goes on with it.
LEMMA ChunkAnswers ==
    ASSUME Inv, AnswerInv, TypeOK', NEW i \in Index, NEW p \in NextPieces,
           NEW c, Yields(c), UNCHANGED bedrockVars, c # NoChunk,
           \/ c.text = p /\ p # NoPiece /\ c.id = NoId
           \/ c.text = NoPiece /\ c.args = p /\ c.id = i
           \/ c.text = NoPiece /\ c.args = p /\ c.id = NoId,
           c.id = NoId => LastBlock' = i,
           \/ (\E k \in Kinds : Begins(k, p)) /\ i = begun
           \/ GoesOn(i, p) /\ i < begun
    PROVE  AnswerInv'
<1>1. TypeOK /\ ModelType /\ LangChainType
  BY DEF Inv, TypeOK
<1>2. provider' = provider
  BY DEF Begins, GoesOn
<1>3. /\ provider \in OpenAICompatible /\ phase = "reading" /\ chunk = NoChunk /\ chunk' = c
      /\ UNCHANGED <<wire, phase>>
  BY DEF Yields, encoderVars
<1>4. \/ /\ script'[i].deltas = script[i].deltas \o Content(p) /\ i < begun
         /\ script'[i].kind = script[i].kind
         /\ begun' = begun
      \/ /\ script'[i].deltas = Content(p) /\ i = begun
         /\ begun' = begun + 1 /\ LastBlock' = i
  BY <1>1, BeginsFacts, GoesOnFacts
<1>5. \A j \in Index \ {i} : script'[j] = script[j]
  BY <1>1, BeginsFacts, GoesOnFacts
<1>6. FromLangChain /\ FromLangChain'
  BY <1>1, <1>2, <1>3, LangChainPending, PendingNext
<1>7. ChunkBlock' = i /\ ChunkPiece' = p
  <2>1. i # NoId
    BY <1>1, ChunkFields
  <2> QED
    BY <1>3, <2>1 DEF ChunkBlock, ChunkPiece
<1>8. \A j \in Index : Pending(j)' = IF j = i THEN Content(p) ELSE <<>>
  BY <1>3, <1>6, <1>7 DEF FromLangChain
<1>9. NothingReceived /\ ~NothingReceived'
  BY <1>3, <1>6 DEF FromLangChain
<1> QED
  BY <1>3, <1>4, <1>5, <1>8, <1>9, ReceivedIsPending
LEMMA ChunkStepAnswer ==
    ASSUME Inv, AnswerInv, TypeOK', ChunkStep, UNCHANGED bedrockVars
    PROVE  AnswerInv'
<1>1. TypeOK /\ ModelType /\ LangChainType /\ NoId \notin Index
  BY ChunkFields DEF Inv, TypeOK
<1>2. NoId # NoPiece
  BY DEF NoId, NoPiece
<1>3. ASSUME NEW p \in NextPieces, SendsText(p) PROVE AnswerInv'
  <2>1. PICK c : c = [NoChunk EXCEPT !.text = p]
    OBVIOUS
  <2>2. p # NoPiece /\ Yields(c) /\ c.text = p /\ c.id = NoId /\ c # NoChunk
    BY <1>3, <2>1 DEF SendsText, NoChunk
  <2>3. CASE begun > 0 /\ script[LastBlock].kind = "text"
    <3>1. PICK i \in Index : i = LastBlock /\ i < begun
      BY <1>1, <2>3, SizesAssumption DEF ModelType, LastBlock, Index
    <3>2. GoesOn(i, p)
      BY <1>3, <2>3, <3>1 DEF SendsText
    <3>3. LastBlock' = i
      BY <3>1, <3>2 DEF GoesOn, LastBlock
    <3> QED
      BY <2>2, <3>1, <3>2, <3>3, ChunkAnswers
  <2>4. CASE ~(begun > 0 /\ script[LastBlock].kind = "text")
    <3>1. Begins("text", p) /\ "text" \in Kinds
      BY <1>3, <2>4 DEF SendsText, Kinds
    <3>2. PICK i \in Index : i = begun /\ LastBlock' = i
      BY <1>1, <3>1, BeginsFacts
    <3> QED
      BY <2>2, <3>1, <3>2, ChunkAnswers
  <2> QED
    BY <2>3, <2>4
<1>4. ASSUME NEW p \in NextPieces, SendsCall(p) PROVE AnswerInv'
  <2>1. Begins("tool", p) /\ "tool" \in Kinds
    BY <1>4 DEF SendsCall, Kinds
  <2>2. PICK i \in Index : i = begun
    BY <1>1, <2>1, BeginsFacts
  <2>3. PICK c : c = [text |-> NoPiece, id |-> i, args |-> p]
    OBVIOUS
  <2>4. Yields(c) /\ c.text = NoPiece /\ c.args = p /\ c.id = i /\ i # NoId /\ c # NoChunk
    BY <1>1, <1>4, <2>2, <2>3 DEF SendsCall, NoChunk
  <2> QED
    BY <2>1, <2>2, <2>4, ChunkAnswers
<1>5. ASSUME NEW i \in Index, NEW p \in NextPieces, SendsArguments(i, p) PROVE AnswerInv'
  <2>1. PICK c : c = [text |-> NoPiece, args |-> p, id |-> IF provider = "openai" THEN NoId ELSE i]
    OBVIOUS
  <2>2. /\ p # NoPiece /\ GoesOn(i, p) /\ Yields(c) /\ provider \in OpenAICompatible
        /\ script[i].kind = "tool" /\ (provider = "interleaving" \/ i = LastBlock)
    BY <1>5, <2>1 DEF SendsArguments, Yields
  <2>3. c.text = NoPiece /\ c.args = p /\ c.id \in {NoId, i} /\ c # NoChunk
    BY <2>1, <2>2 DEF NoChunk
  <2>4. c.id = NoId => LastBlock' = i
    BY <1>1, <2>1, <2>2 DEF GoesOn, LastBlock
  <2>5. i < begun
    BY <2>2 DEF Inv, LangChainInv
  <2> QED
    BY <2>2, <2>3, <2>4, <2>5, ChunkAnswers
<1>6. CASE SendsLast
  <2>1. /\ UNCHANGED <<script, begun, wire, phase, event, chunk>> /\ chunk = NoChunk
    BY <1>6 DEF SendsLast, Completes, encoderVars, langchainVars, bedrockVars
  <2>2. /\ \A j \in Index : Pending(j)' = Pending(j)
        /\ NothingReceived' <=> NothingReceived
    BY <2>1 DEF Pending, LastBlock, ChunkBlock, ChunkPiece, NothingReceived
  <2> QED
    BY <2>1, <2>2, SilenceKeeps DEF AnswerInv
<1> QED
  BY <1>3, <1>4, <1>5, <1>6 DEF ChunkStep

LEMMA LangChainStepAnswer ==
    ASSUME Inv, AnswerInv, TypeOK', LangChainStep, UNCHANGED bedrockVars
    PROVE  AnswerInv'
<1>1. /\ TypeOK /\ ModelType /\ LangChainType /\ NoIndex \notin Index
      /\ wire \in WireType /\ sseOpen \in SUBSET Index
  BY ChunkFields DEF Inv, TypeOK, EncoderType
<1>2. /\ provider \in OpenAICompatible /\ phase = "reading"
      /\ UNCHANGED <<provider, script, begun, event, LastBlock>>
  BY GeneratesFacts
     DEF LangChainStep, ClosesOpenBlock, OpensText, OpensCall, ForwardsText,
         ForwardsArguments, EndOfChunks, modelVars, bedrockVars, LastBlock
<1>3. FromLangChain /\ FromLangChain'
  BY <1>1, <1>2, LangChainPending, PendingNext
<1>4. chunk' = chunk => /\ \A j \in Index : Pending(j)' = Pending(j)
                        /\ NothingReceived' <=> NothingReceived
  BY <1>2 DEF Pending, ChunkBlock, ChunkPiece, NothingReceived
<1>5. ASSUME BlockStop(open_index), open_index # NoIndex, chunk' = chunk PROVE AnswerInv'
  <2>1. PICK i \in Index : i = open_index
    BY <1>1, <1>5 DEF LangChainType
  <2>2. Status(i) # "none"
    BY <1>1, <1>2, <2>1 DEF Inv, LangChainInv, IsOpen
  <2> QED
    BY <1>2, <1>4, <1>5, <2>1, <2>2, StopAnswer
<1>6. CASE ClosesOpenBlock
  BY <1>5, <1>6 DEF ClosesOpenBlock
<1>7. CASE OpensText \/ OpensCall
  <2>1. /\ Generates /\ (NewText \/ NewCall)
        /\ OpensText => NewText /\ BlockStart(next_index, "text") /\ chunk' = chunk
        /\ OpensCall => /\ NewCall /\ BlockStart(next_index, "tool")
                        /\ chunk' = IF chunk.args = NoPiece THEN NoChunk ELSE chunk
    BY <1>7 DEF OpensText, OpensCall
  <2>2. /\ next_index = LastBlock /\ LastBlock \in Index /\ chunk # NoChunk
        /\ NewText => script[LastBlock].kind = "text"
        /\ NewCall => chunk.text = NoPiece /\ chunk.id = LastBlock /\ script[LastBlock].kind = "tool"
    BY <2>1, NewBlockFacts, GeneratesFacts
  <2>3. PICK i \in Index, k \in Kinds : i = LastBlock /\ k = script[i].kind /\ BlockStart(i, k)
    BY <1>7, <2>1, <2>2 DEF Kinds
  <2>4. /\ Status(i)' = "open" /\ wire'[i].kind = k /\ wire'[i].deltas = wire[i].deltas
        /\ \A j \in Index \ {i} : wire'[j] = wire[j]
        /\ phase' = phase
    BY <1>1, <2>3, StartOpens
  <2>5. \A j \in Index : Pending(j)' = Pending(j)
    <3>1. CASE chunk' = chunk
      BY <1>4, <3>1
    <3>2. CASE chunk' # chunk
      <4>1. NewCall /\ chunk.args = NoPiece /\ chunk' = NoChunk
        BY <1>7, <2>1, <3>2
      <4>2. ChunkPiece = NoPiece
        BY <2>2, <4>1 DEF ChunkPiece
      <4> QED
        BY <1>3, <4>1, <4>2, NoPieceIsEmpty DEF FromLangChain
    <3> QED
      BY <3>1, <3>2
  <2>6. \A j \in Index : \/ Status(j)' # "none" /\ wire'[j].kind = script[j].kind
                         \/ wire'[j] = wire[j]
    BY <2>3, <2>4
  <2>7. Status(LastBlock)' # "none"
    BY <1>2, <2>3, <2>4 DEF Status
  <2> QED
    BY <1>2, <2>4, <2>5, <2>6, <2>7, SentOrPending
<1>8. CASE ForwardsText \/ ForwardsArguments
  <2>1. chunk' = NoChunk /\ Generates
    BY <1>8 DEF ForwardsText, ForwardsArguments
  <2>2. PICK i \in Index, p \in Pieces :
          /\ Delta(i, p) /\ i < next_index /\ next_index = begun
          /\ chunk.text # NoPiece => p = chunk.text /\ i = LastBlock
          /\ chunk.text = NoPiece =>
               p = chunk.args /\ i = (IF chunk.id = NoId THEN LastBlock ELSE chunk.id)
    BY <1>8, ForwardsFacts
  <2>3. chunk # NoChunk /\ ChunkInv /\ begun > 0 /\ LastBlock \in Index /\ LastBlock < begun
    BY <1>1, <2>1, GeneratesFacts DEF LastBlock, ModelType
  <2>4. ChunkBlock = i /\ ChunkPiece = p
    BY <2>2, <2>3 DEF ChunkBlock, ChunkPiece, ChunkInv
  <2>5. Content(p) = <<p>>
    <3>1. p # NoPiece
      BY SizesAssumption DEF Pieces, NoPiece
    <3> QED
      BY <3>1 DEF Content
  <2>6. \A j \in Index : Pending(j) = (IF j = i THEN <<p>> ELSE <<>>) /\ Pending(j)' = <<>>
    BY <1>3, <2>1, <2>3, <2>4, <2>5 DEF FromLangChain
  <2>7. \A j \in Index : j < next_index => Status(j) # "none"
    BY <1>1, <1>2, SizesAssumption DEF Inv, LangChainInv, LangChainType, Index
  <2>8. Status(LastBlock)' # "none"
    BY <1>1, <1>2, <2>2, <2>3, <2>7, DeltaAdds DEF Status
  <2> QED
    BY <1>2, <2>2, <2>6, <2>7, <2>8, DeltaAnswer
<1>9. CASE EndOfChunks
  <2>1. chunk' = chunk /\ complete
    BY <1>9 DEF EndOfChunks
  <2>2. CASE open_index # NoIndex
    BY <1>5, <1>9, <2>1, <2>2 DEF EndOfChunks
  <2>3. CASE open_index = NoIndex
    <3>1. wire' = wire /\ phase' = "closing"
      BY <1>9, <2>3 DEF EndOfChunks, LastChunk
    <3>2. NothingReceived
      BY <1>2, <1>3, <2>1 DEF Inv, LangChainInv, ChunkInv, FromLangChain
    <3> QED
      BY <1>2, <1>4, <2>1, <3>1, <3>2, SilenceKeeps
  <2> QED
    BY <2>2, <2>3
<1> QED
  BY <1>6, <1>7, <1>8, <1>9 DEF LangChainStep

LEMMA AnswerInit == Init => AnswerInv
<1> SUFFICES ASSUME Init PROVE AnswerInv
  OBVIOUS
<1>1. /\ NothingReceived /\ phase = "reading" /\ begun = 0
      /\ \A i \in Index : script[i] = NoBlock /\ Status(i) = "none"
                          /\ wire[i].kind = "none" /\ wire[i].deltas = <<>>
  BY DEF Init, ModelInit, EncoderInit, BedrockInit, LangChainInit, NothingReceived, Status
<1>2. <<>> \o <<>> = <<>>
  <2>1. <<>> \in Seq(Pieces)
    OBVIOUS
  <2> QED
    BY <2>1, ConcatEmptySeq
<1>3. \A i \in Index : script[i].deltas = wire[i].deltas \o Pending(i)
  <2> SUFFICES ASSUME NEW i \in Index PROVE script[i].deltas = wire[i].deltas \o Pending(i)
    OBVIOUS
  <2>1. Pending(i) = <<>>
    BY <1>1, NothingPending
  <2>2. script[i].deltas = <<>> /\ wire[i].deltas = <<>>
    BY <1>1 DEF NoBlock
  <2> QED
    BY <1>2, <2>1, <2>2
<1>4. \A i \in Index : ~(i < begun)
  BY <1>1, SizesAssumption DEF Index
<1> QED
  BY <1>1, <1>3, <1>4 DEF AnswerInv

LEMMA AnswerNext == Inv /\ Inv' /\ AnswerInv /\ [Next]_vars => AnswerInv'
<1> SUFFICES ASSUME Inv, Inv', AnswerInv, [Next]_vars PROVE AnswerInv'
  OBVIOUS
<1>1. TypeOK /\ ModelType /\ TypeOK'
  BY DEF Inv, TypeOK
<1>2. CASE BedrockNext
  <2>1. UNCHANGED langchainVars
    BY <1>2 DEF BedrockNext
  <2>2. NoPiece \in NextPieces
    BY DEF NextPieces
  <2>3. ASSUME NEW k \in Kinds, SendsStart(k) PROVE AnswerInv'
    <3>1. Begins(k, NoPiece) /\ Receives("start", begun, k, NoPiece)
      BY <2>3 DEF SendsStart
    <3>2. PICK i \in Index : i = begun
      BY <1>1, <2>2, <3>1, BeginsFacts
    <3> QED
      BY <1>1, <2>1, <2>2, <3>1, <3>2, ConverseAnswers
  <2>4. ASSUME NEW k \in Kinds, NEW p \in NextPieces, SendsFirstDelta(k, p) PROVE AnswerInv'
    <3>1. Begins(k, p) /\ Receives("delta", begun, k, p)
      BY <2>4 DEF SendsFirstDelta
    <3>2. PICK i \in Index : i = begun
      BY <1>1, <3>1, BeginsFacts
    <3> QED
      BY <1>1, <2>1, <3>1, <3>2, ConverseAnswers
  <2>5. ASSUME NEW p \in NextPieces, SendsDelta(p) PROVE AnswerInv'
    <3>1. /\ inside /\ GoesOn(LastBlock, p)
          /\ Receives("delta", LastBlock, script[LastBlock].kind, p)
      BY <2>5 DEF SendsDelta
    <3>2. begun > 0
      BY <3>1 DEF Receives, Inv, BedrockInv, EventInv
    <3>3. PICK i \in Index : i = LastBlock
      BY <1>1, <3>2, SizesAssumption DEF ModelType, LastBlock, Index
    <3>4. PICK k \in Kinds \cup {"none"} : k = script[i].kind
      BY <1>1 DEF ModelType, Block
    <3> QED
      BY <1>1, <2>1, <3>1, <3>3, <3>4, ConverseAnswers
  <2> QED
    BY <1>1, <1>2, <2>1, <2>3, <2>4, <2>5, SendsStopAnswer, OpensAnswer,
       ContentBlockDeltaAnswer, ContentBlockStopAnswer, FinallyAnswer
       DEF BedrockNext, ConverseStep, BedrockStep
<1>3. CASE LangChainNext
  BY <1>1, <1>3, ChunkStepAnswer, LangChainStepAnswer DEF LangChainNext
<1>4. CASE EncoderNext \/ Dropped \/ Raises \/ UNCHANGED vars
  <2>1. UNCHANGED <<script, begun, event, chunk>>
    BY <1>4 DEF EncoderNext, Dropped, Raises, vars, modelVars, bedrockVars, langchainVars
  <2>2. /\ \A j \in Index : Pending(j)' = Pending(j)
        /\ NothingReceived' <=> NothingReceived
    BY <2>1 DEF Pending, LastBlock, ChunkBlock, ChunkPiece, NothingReceived
  <2>3. wire' = wire
    BY <1>4 DEF EncoderNext, Finish, Dropped, Raises, vars, encoderVars, Inv, WireInv
  <2>4. \/ phase' = phase \/ phase' \notin {"reading", "closing", "stopped"}
        \/ phase = "closing" /\ phase' = "stopped"
    BY <1>4 DEF EncoderNext, Finish, Dropped, Raises, vars, encoderVars, Inv, WireInv
  <2>5. phase \in {"closing", "stopped"} => NothingReceived
    BY DEF AnswerInv
  <2> QED
    BY <2>1, <2>2, <2>3, <2>4, <2>5, SilenceKeeps
<1> QED
  BY <1>2, <1>3, <1>4 DEF Next

LEMMA AnswerInvHolds == Spec => []AnswerInv
  BY AnswerInit, AnswerNext, InvHolds, PTL DEF Spec

\* When message_stop has been sent, the client has every block of the answer under its
\* index, with its kind and all of its pieces in order.
THEOREM WholeAnswerArrives == Spec => []AnswerArrives
<1>1. Inv /\ AnswerInv => AnswerArrives
  <2> SUFFICES ASSUME Inv, AnswerInv, phase = "stopped", NEW i \in Index
               PROVE  wire[i].kind = script[i].kind /\ wire[i].deltas = script[i].deltas
    BY DEF AnswerArrives
  <2>1. NothingReceived /\ Pending(i) = <<>>
    BY NothingPending DEF AnswerInv
  <2>2. wire[i].deltas \in Seq(Pieces) /\ begun \in Nat /\ i \in Int
    BY SizesAssumption DEF Inv, TypeOK, EncoderType, WireType, ModelType, Index
  <2>3. script[i].deltas = wire[i].deltas
    BY <2>1, <2>2, ConcatEmptySeq DEF AnswerInv
  <2>4. CASE Status(i) = "none"
    <3>1. i >= begun
      BY <2>1, <2>2, <2>4 DEF AnswerInv
    <3> QED
      BY <2>3, <2>4, <3>1 DEF AnswerInv, NoBlock
  <2>5. CASE Status(i) # "none"
    BY <2>3, <2>5 DEF AnswerInv
  <2> QED
    BY <2>4, <2>5
<1> QED
  BY <1>1, InvHolds, AnswerInvHolds, PTL

-----------------------------------------------------------------------------
(* Joining sequences: what FlattenSeq returns, by induction over their number. *)

\* A non-empty set of natural numbers has a least element: the sets of the numbers
\* up to each have a smallest one.
LEMMA LeastNatural ==
    ASSUME NEW T \in SUBSET Nat, T # {}
    PROVE  \E x \in T : \A y \in T : x <= y
<1> DEFINE Below == {0..n : n \in T}
           R == StrictSubsetOrdering(Nat)
<1>1. Below \subseteq FiniteSubsetsOf(Nat)
  <2> SUFFICES ASSUME NEW n \in T
               PROVE  0..n \in FiniteSubsetsOf(Nat)
    OBVIOUS
  <2>1. IsFiniteSet(0..n)
    BY FS_Interval
  <2>2. 0..n \in SUBSET Nat
    OBVIOUS
  <2> QED
    BY <2>1, <2>2, Zenon DEF FiniteSubsetsOf
<1>2. Below # {}
  OBVIOUS
<1>3. IsWellFoundedOn(R, FiniteSubsetsOf(Nat))
  BY FS_StrictSubsetOrderingWellFounded
<1>4. PICK X \in Below : \A Y \in Below : <<Y, X>> \notin R
  <2> HIDE DEF Below, R
  <2> QED
    BY <1>1, <1>2, <1>3, WFMin
<1>5. PICK x \in T : X = 0..x
  OBVIOUS
<1>6. ASSUME NEW y \in T, y < x
      PROVE  FALSE
  <2>1. x \in 0..x /\ x \notin 0..y
    BY <1>6
  <2>2. 0..y \subseteq 0..x /\ 0..y # 0..x
    BY <1>6, <2>1
  <2>3. <<0..y, X>> \in R
    BY <2>2, <1>5 DEF StrictSubsetOrdering
  <2> QED
    BY <2>3, <1>4
<1> QED
  BY <1>6

\* Induction over the natural numbers.
LEMMA Induction ==
    ASSUME NEW T \in SUBSET Nat, 0 \in T, \A n \in T : n + 1 \in T
    PROVE  T = Nat
<1> SUFFICES ASSUME Nat \ T # {}
             PROVE  FALSE
  OBVIOUS
<1>1. PICK x \in Nat \ T : \A y \in Nat \ T : x <= y
  BY LeastNatural
<1>2. x - 1 \in Nat /\ ~ (x <= x - 1)
  OBVIOUS
<1>3. x - 1 \in T
  BY <1>1, <1>2
<1> QED
  BY <1>2, <1>3

\* f joins the sequences s[1], s[2], ... s[n] one by one, as FlattenSeq does.
Joins(f, s, n) == f = [i \in 1..n |-> IF i = 1 THEN s[i] ELSE f[i - 1] \o s[i]]

\* The function FlattenSeq recurs through exists, for every sequence of sequences.
LEMMA JoinsExists ==
    ASSUME NEW s, NEW n \in Nat
    PROVE  \E f : Joins(f, s, n)
<1> DEFINE T == {m \in Nat : \E f : Joins(f, s, m)}
<1>1. 0 \in T
  <2> DEFINE f == [i \in 1..0 |-> s[i]]
  <2>1. Joins(f, s, 0)
    BY DEF Joins
  <2> QED
    BY <2>1
<1>2. ASSUME NEW m \in T
      PROVE  m + 1 \in T
  <2>1. PICK f : Joins(f, s, m)
    OBVIOUS
  <2> DEFINE g == [i \in 1..(m + 1) |-> IF i = m + 1 THEN IF i = 1 THEN s[i] ELSE f[m] \o s[i] ELSE f[i]]
  <2>2. ASSUME NEW i \in 1..(m + 1)
        PROVE  g[i] = IF i = 1 THEN s[i] ELSE g[i - 1] \o s[i]
    <3>1. CASE i = m + 1
      BY <3>1
    <3>2. CASE i # m + 1
      <4>1. i \in 1..m /\ g[i] = f[i]
        BY <3>2
      <4>2. i # 1 => i - 1 \in 1..m /\ g[i - 1] = f[i - 1]
        BY <4>1
      <4> HIDE DEF g
      <4> QED
        BY <2>1, <4>1, <4>2 DEF Joins
    <3> QED
      BY <3>1, <3>2
  <2>3. g = [i \in 1..(m + 1) |-> g[i]]
    OBVIOUS
  <2> HIDE DEF g
  <2>4. Joins(g, s, m + 1)
    BY <2>2, <2>3 DEF Joins
  <2> QED
    BY <2>4
<1>3. T = Nat
  <2> HIDE DEF T
  <2>1. T \in SUBSET Nat
    BY DEF T
  <2> QED
    BY <1>1, <1>2, <2>1, Induction
<1> QED
  BY <1>3

\* The joins are sequences of the same elements.
LEMMA JoinsType ==
    ASSUME NEW S, NEW n \in Nat, NEW s \in [1..n -> Seq(S)], NEW f, Joins(f, s, n)
    PROVE  f \in [1..n -> Seq(S)]
<1>1. f = [i \in 1..n |-> f[i]] /\ \A i \in 1..n : f[i] = IF i = 1 THEN s[i] ELSE f[i - 1] \o s[i]
  BY DEF Joins
<1>2. n > 0 => f[1] = s[1]
  <2>1. n > 0 => 1 \in 1..n
    OBVIOUS
  <2> QED
    BY <1>1, <2>1
<1>3. \A i \in 2..n : f[i] = f[i - 1] \o s[i]
  <2>1. \A i \in 2..n : i \in 1..n /\ i # 1
    OBVIOUS
  <2> QED
    BY <1>1, <2>1
<1> DEFINE T == {m \in Nat : m + 1 \in 1..n => f[m + 1] \in Seq(S)}
<1>4. 0 \in T
  BY <1>2
<1>5. ASSUME NEW m \in T
      PROVE  m + 1 \in T
  <2> SUFFICES ASSUME m + 2 \in 1..n
               PROVE  f[m + 2] \in Seq(S)
    OBVIOUS
  <2>1. m + 1 \in 1..n /\ m + 2 \in 2..n /\ (m + 2) - 1 = m + 1
    OBVIOUS
  <2>2. f[m + 1] \in Seq(S) /\ s[m + 2] \in Seq(S)
    BY <2>1
  <2>3. f[m + 2] = f[m + 1] \o s[m + 2]
    BY <1>3, <2>1
  <2> QED
    BY <2>2, <2>3
<1>6. T = Nat
  <2> HIDE DEF T
  <2>1. T \in SUBSET Nat
    BY DEF T
  <2> QED
    BY <1>4, <1>5, <2>1, Induction
<1>7. ASSUME NEW i \in 1..n
      PROVE  f[i] \in Seq(S)
  <2>1. i - 1 \in Nat /\ (i - 1) + 1 = i
    OBVIOUS
  <2>2. i - 1 \in T
    <3> HIDE DEF T
    <3> QED
      BY <1>6, <2>1
  <2> QED
    BY <2>1, <2>2
<1> QED
  BY <1>1, <1>7

\* FlattenSeq returns the last of the joins.
LEMMA FlattenIsLastJoin ==
    ASSUME NEW S, NEW n \in Nat \ {0}, NEW s \in [1..n -> Seq(S)]
    PROVE  \E f : Joins(f, s, n) /\ FlattenSeq(s) = f[n]
<1>1. s \in Seq(Seq(S)) /\ Len(s) = n
  OBVIOUS
<1> DEFINE f == CHOOSE g : g = [i \in 1..Len(s) |-> IF i = 1 THEN s[i] ELSE g[i - 1] \o s[i]]
<1>2. Joins(f, s, n)
  BY JoinsExists, <1>1 DEF Joins
<1>3. FlattenSeq(s) = f[n]
  BY <1>1 DEF FlattenSeq
<1> QED
  BY <1>2, <1>3

\* Nothing but empty sequences joins to the empty sequence.
LEMMA FlattenEmpty ==
    ASSUME NEW n \in Nat, NEW s \in [1..n -> {<<>>}]
    PROVE  FlattenSeq(s) = <<>>
<1>1. CASE n = 0
  <2>1. s = <<>> /\ Len(s) = 0
    BY <1>1
  <2> QED
    BY <2>1 DEF FlattenSeq
<1>2. CASE n # 0
  <2> <<>> \in Seq({})
    OBVIOUS
  <2>1. s \in [1..n -> Seq({})] /\ n \in Nat \ {0} /\ n \in 1..n
    <3>1. {<<>>} \subseteq Seq({})
      OBVIOUS
    <3> QED
      <4>1. \A i \in 1..n : s[i] \in Seq({})
        BY <3>1
      <4>2. n \in Nat \ {0} /\ n \in 1..n
        BY <1>2
      <4> QED
        BY <4>1, <4>2
  <2>2. PICK f : Joins(f, s, n) /\ FlattenSeq(s) = f[n]
    BY <2>1, FlattenIsLastJoin
  <2>3. f \in [1..n -> Seq({})]
    BY <2>1, <2>2, JoinsType
  <2>4. FlattenSeq(s) \in Seq({})
    BY <2>1, <2>2, <2>3
  <2> QED
    BY <2>4
<1> QED
  BY <1>1, <1>2

LEMMA AppendJoin ==
    ASSUME NEW S, NEW p \in S, NEW u \in Seq(S), NEW v \in Seq(S)
    PROVE  u \o Append(v, p) = Append(u \o v, p)
<1> DEFINE last == <<p>>
<1>1. u \o v \in Seq(S) /\ last \in Seq(S)
  OBVIOUS
<1>2. v \o last = Append(v, p) /\ (u \o v) \o last = Append(u \o v, p)
  <2> DEFINE w == u \o v
  <2>1. w \in Seq(S)
    OBVIOUS
  <2> HIDE DEF w
  <2>2. v \o <<p>> = Append(v, p) /\ w \o <<p>> = Append(w, p)
    BY <2>1, AppendIsConcat, Zenon
  <2> QED
    BY <2>2 DEF w
<1> HIDE DEF last
<1>3. (u \o v) \o last = u \o (v \o last)
  BY <1>1, ConcatAssociative
<1> QED
  BY <1>1, <1>2, <1>3

\* An element appended to the last sequence that is not empty is appended to the whole.
EmptyAfter(s, k, n) == \A i \in 1..n : i > k => s[i] = <<>>
Appends(t, s, k, p, n, S) ==
    /\ t \in [1..n -> Seq(S)] /\ t[k] = Append(s[k], p)
    /\ \A i \in 1..n : i # k => t[i] = s[i]

LEMMA FlattenAppend ==
    ASSUME NEW S, NEW p \in S, NEW n \in Nat, NEW s \in [1..n -> Seq(S)], NEW k \in 1..n,
           EmptyAfter(s, k, n), NEW t, Appends(t, s, k, p, n, S)
    PROVE  FlattenSeq(t) = Append(FlattenSeq(s), p)
<1>1. /\ t \in [1..n -> Seq(S)] /\ t[k] = Append(s[k], p)
      /\ \A i \in 1..n : /\ i # k => t[i] = s[i]
                         /\ i > k => s[i] = <<>>
  BY DEF EmptyAfter, Appends
<1>2. n \in Nat \ {0} /\ n > 0
  OBVIOUS
<1>3. PICK f : Joins(f, s, n) /\ FlattenSeq(s) = f[n]
  BY <1>2, FlattenIsLastJoin
<1>4. PICK g : Joins(g, t, n) /\ FlattenSeq(t) = g[n]
  BY <1>1, <1>2, FlattenIsLastJoin
<1>5. /\ f \in [1..n -> Seq(S)] /\ f[1] = s[1]
      /\ \A i \in 2..n : f[i] = f[i - 1] \o s[i]
  <2>1. f \in [1..n -> Seq(S)]
    BY <1>3, JoinsType
  <2>2. \A i \in 1..n : f[i] = IF i = 1 THEN s[i] ELSE f[i - 1] \o s[i]
    BY <1>3 DEF Joins
  <2>3. 1 \in 1..n /\ \A i \in 2..n : i \in 1..n /\ i # 1
    BY <1>2
  <2> QED
    BY <2>1, <2>2, <2>3
<1>6. /\ g \in [1..n -> Seq(S)] /\ g[1] = t[1]
      /\ \A i \in 2..n : g[i] = g[i - 1] \o t[i]
  <2>1. g \in [1..n -> Seq(S)]
    BY <1>1, <1>4, JoinsType
  <2>2. \A i \in 1..n : g[i] = IF i = 1 THEN t[i] ELSE g[i - 1] \o t[i]
    BY <1>4 DEF Joins
  <2>3. 1 \in 1..n /\ \A i \in 2..n : i \in 1..n /\ i # 1
    BY <1>2
  <2> QED
    BY <2>1, <2>2, <2>3
<1> DEFINE Joined(i) == g[i] = IF i < k THEN f[i] ELSE Append(f[i], p)
<1>7. Joined(1)
  <2>1. 1 \in 1..n
    OBVIOUS
  <2>2. CASE k = 1
    BY <1>1, <1>5, <1>6, <2>1, <2>2
  <2>3. CASE k # 1
    BY <1>1, <1>5, <1>6, <2>1, <2>3
  <2> QED
    BY <2>2, <2>3
<1>8. ASSUME NEW j \in Nat, NEW i \in 2..n, j = i - 1, Joined(j)
      PROVE  Joined(i)
  <2>1. j \in 1..n /\ i \in 1..n
    BY <1>8
  <2>2. f[j] \in Seq(S) /\ s[i] \in Seq(S) /\ t[i] \in Seq(S)
    BY <1>1, <1>5, <2>1
  <2>3. f[i] = f[j] \o s[i] /\ g[i] = g[j] \o t[i]
    BY <1>5, <1>6, <1>8
  <2>4. CASE i < k
    <3>1. t[i] = s[i] /\ g[j] = f[j]
      BY <1>1, <1>8, <2>1, <2>4
    <3> QED
      BY <2>3, <2>4, <3>1
  <2>5. CASE i = k
    <3>1. t[i] = Append(s[i], p) /\ g[j] = f[j]
      BY <1>1, <1>8, <2>1, <2>5
    <3>2. f[j] \o Append(s[i], p) = Append(f[j] \o s[i], p)
      BY <2>2, AppendJoin
    <3>3. g[i] = Append(f[i], p)
      BY <2>3, <3>1, <3>2
    <3> QED
      BY <2>5, <3>3
  <2>6. CASE i > k
    <3>1. t[i] = <<>> /\ s[i] = <<>>
      BY <1>1, <2>1, <2>6
    <3>2. g[j] = Append(f[j], p)
      BY <1>8, <2>6
    <3>3. Append(f[j], p) \in Seq(S)
      BY <2>2
    <3>4. Append(f[j], p) \o <<>> = Append(f[j], p) /\ f[j] \o <<>> = f[j]
      BY <2>2, <3>3, ConcatEmptySeq
    <3>5. g[i] = Append(f[i], p)
      BY <2>3, <3>1, <3>2, <3>4
    <3> QED
      BY <2>6, <3>5
  <2> QED
    BY <2>1, <2>4, <2>5, <2>6
<1> HIDE DEF Joined
<1> DEFINE T == {m \in Nat : m + 1 \in 1..n => Joined(m + 1)}
<1>9. 0 \in T
  BY <1>7
<1>10. ASSUME NEW m \in T
       PROVE  m + 1 \in T
  <2> SUFFICES ASSUME m + 2 \in 1..n
               PROVE  Joined(m + 2)
    OBVIOUS
  <2>1. m + 1 \in Nat /\ m + 2 \in 2..n /\ m + 1 = (m + 2) - 1 /\ Joined(m + 1)
    OBVIOUS
  <2> QED
    BY <1>8, <2>1
<1>11. T = Nat
  <2> HIDE DEF T
  <2>1. T \in SUBSET Nat
    BY DEF T
  <2> QED
    BY <1>9, <1>10, <2>1, Induction
<1>12. n - 1 \in Nat /\ (n - 1) + 1 = n /\ n \in 1..n /\ ~ (n < k)
  BY <1>2
<1>13. Joined(n)
  <2>1. n - 1 \in T
    <3> HIDE DEF T
    <3> QED
      BY <1>11, <1>12
  <2> QED
    BY <1>12, <2>1
<1> QED
  BY <1>3, <1>4, <1>12, <1>13 DEF Joined

\* What joins to a sequence of elements, and one sequence more.
LEMMA FlattenType ==
    ASSUME NEW S, NEW n \in Nat, NEW s \in [1..n -> Seq(S)]
    PROVE  FlattenSeq(s) \in Seq(S)
<1>1. CASE n = 0
  <2>1. s \in [1..n -> {<<>>}] /\ <<>> \in Seq(S)
    BY <1>1
  <2>2. FlattenSeq(s) = <<>>
    BY <2>1, FlattenEmpty
  <2> QED
    BY <2>1, <2>2
<1>2. CASE n # 0
  <2>1. n \in Nat \ {0} /\ n \in 1..n
    BY <1>2
  <2>2. PICK f : Joins(f, s, n) /\ FlattenSeq(s) = f[n]
    BY <2>1, FlattenIsLastJoin
  <2>3. f \in [1..n -> Seq(S)]
    BY <2>2, JoinsType
  <2> QED
    BY <2>1, <2>2, <2>3
<1> QED
  BY <1>1, <1>2

LEMMA FlattenMore ==
    ASSUME NEW S, NEW n \in Nat, NEW s \in [1..n -> Seq(S)], NEW t \in [1..(n + 1) -> Seq(S)],
           \A i \in 1..n : t[i] = s[i]
    PROVE  FlattenSeq(t) = FlattenSeq(s) \o t[n + 1]
<1> DEFINE N == n + 1
<1>1. N \in Nat \ {0} /\ N \in 1..N /\ n + 1 = N
  OBVIOUS
<1> HIDE DEF N
<1>2. PICK g : Joins(g, t, N) /\ FlattenSeq(t) = g[N]
  BY <1>1, FlattenIsLastJoin
<1>3. \A i \in 1..N : g[i] = IF i = 1 THEN t[i] ELSE g[i - 1] \o t[i]
  BY <1>2 DEF Joins
<1>4. CASE n = 0
  <2>1. s \in [1..n -> {<<>>}]
    BY <1>4
  <2>2. FlattenSeq(s) = <<>>
    BY <2>1, FlattenEmpty
  <2>3. FlattenSeq(t) = t[1] /\ t[1] \in Seq(S) /\ N = 1
    BY <1>1, <1>2, <1>3, <1>4
  <2> QED
    BY <1>1, <2>2, <2>3, ConcatEmptySeq
<1>5. CASE n # 0
  <2>1. n \in Nat \ {0} /\ n \in 1..n
    BY <1>5
  <2>2. PICK f : Joins(f, s, n) /\ FlattenSeq(s) = f[n]
    BY <2>1, FlattenIsLastJoin
  <2>3. \A i \in 1..n : f[i] = IF i = 1 THEN s[i] ELSE f[i - 1] \o s[i]
    BY <2>2 DEF Joins
  <2> DEFINE T == {m \in Nat : m + 1 \in 1..n => g[m + 1] = f[m + 1]}
  <2>4. 0 \in T
    BY <1>1, <1>3, <2>1, <2>3
  <2>5. ASSUME NEW m \in T
        PROVE  m + 1 \in T
    <3> SUFFICES ASSUME m + 2 \in 1..n
                 PROVE  g[m + 2] = f[m + 2]
      OBVIOUS
    <3>1. /\ m \in Nat /\ m + 1 \in 1..n /\ m + 2 \in 1..N /\ m + 2 # 1
          /\ (m + 2) - 1 = m + 1 /\ t[m + 2] = s[m + 2]
      BY <1>1
    <3>2. g[m + 1] = f[m + 1]
      BY <3>1
    <3>3. g[m + 2] = g[m + 1] \o t[m + 2] /\ f[m + 2] = f[m + 1] \o s[m + 2]
      BY <1>3, <2>3, <3>1
    <3> QED
      BY <3>1, <3>2, <3>3
  <2>6. T = Nat
    <3> HIDE DEF T
    <3>1. T \in SUBSET Nat
      BY DEF T
    <3> QED
      BY <2>4, <2>5, <3>1, Induction
  <2>7. n - 1 \in T /\ (n - 1) + 1 = n
    <3> HIDE DEF T
    <3> QED
      BY <2>1, <2>6
  <2>8. g[n] = f[n]
    BY <2>1, <2>7
  <2>9. g[N] = g[n] \o t[N]
    <3>1. N # 1 /\ N - 1 = n
      BY <1>1, <2>1
    <3> QED
      BY <1>1, <1>3, <3>1
  <2> QED
    BY <1>1, <1>2, <2>2, <2>8, <2>9
<1> QED
  BY <1>4, <1>5

-----------------------------------------------------------------------------
(* What the audit log is given. *)

\* What the text of the whole answer has from block i.
TextOf(i) == IF wire[i].kind = "text" THEN wire[i].deltas ELSE <<>>

\* The parts built for the audit log say what the client has seen, and so do the text
\* and the arguments of the calls gathered from a LangChain stream.
BlankInv == \A i \in Index : Status(i) = "none" => wire[i].kind = "none" /\ wire[i].deltas = <<>>
Builds(b, w) ==
    /\ b.kind = w.kind
    /\ IF w.kind = "thinking"
       THEN b.deltas = Unsigned(w.deltas) /\ SignatureOf(b.signature, w.deltas)
       ELSE b.deltas = w.deltas
Rebuilds == [i \in Index |-> Rebuilt(assembled[i])]
PartsInv ==
    provider \in Converse =>
        /\ \A i \in Index : Builds(assembled[i], wire[i])
        /\ saved => content_parts = Rebuilds
TextInv == provider \in OpenAICompatible => TextStored
\* The arguments being handled name their call, or the server is one that names it with
\* the first piece only.
NameInv ==
    chunk.args # NoPiece =>
        IF chunk.id = NoId THEN provider = "openai"
        ELSE provider = "openai" => script[chunk.id].deltas = <<chunk.args>>
\* What is gathered of a call: all that was sent, or of such a server the first at most.
Gathers(s, d) ==
    IF provider = "openai" THEN s = <<>> \/ (d # <<>> /\ s = <<d[1]>>) ELSE s = d
CallsInv ==
    provider \in OpenAICompatible =>
        /\ NameInv
        /\ \A i \in Index : tool_indices[i] = NoIndex => tool_acc[i] = <<>>
        /\ \A i \in Index : tool_indices[i] # NoIndex => Gathers(tool_acc[i], wire[i].deltas)
StoredInv == BlankInv /\ PartsInv /\ TextInv /\ CallsInv

\* The first element of a sequence is a prefix of it.
LEMMA FirstIsPrefix ==
    ASSUME NEW S, NEW d \in Seq(S), d # <<>>
    PROVE  IsPrefix(<<d[1]>>, d)
  BY DEF IsPrefix

LEMMA AppendKeepsFirst ==
    ASSUME NEW S, NEW d \in Seq(S), NEW p \in S
    PROVE  Append(d, p) # <<>> /\ (d # <<>> => Append(d, p)[1] = d[1])
<1>1. Len(Append(d, p)) = Len(d) + 1 /\ Len(d) \in Nat
  OBVIOUS
<1>2. Append(d, p) # <<>>
  BY <1>1
<1>3. d # <<>> => 1 \in 1..Len(d)
  OBVIOUS
<1>4. \A i \in 1..Len(d) : Append(d, p)[i] = d[i]
  OBVIOUS
<1> QED
  BY <1>2, <1>3, <1>4

\* The pieces of thinking d that are no signature, one by one.
Spoken(d) == [n \in 1..Len(d) |-> IF d[n] \in Signatures THEN <<>> ELSE <<d[n]>>]

LEMMA SpokenType ==
    ASSUME NEW d \in Seq(Pieces)
    PROVE  Spoken(d) \in [1..Len(d) -> Seq(Pieces)] /\ Unsigned(d) = FlattenSeq(Spoken(d))
  BY DEF Spoken, Unsigned

\* Nothing has been said yet.
LEMMA NothingUnsigned == Unsigned(<<>>) = <<>> /\ SignatureOf(NoPiece, <<>>)
<1>1. Spoken(<<>>) \in [1..0 -> {<<>>}]
  BY DEF Spoken
<1>2. Unsigned(<<>>) = FlattenSeq(Spoken(<<>>))
  BY DEF Spoken, Unsigned
<1>3. FlattenSeq(Spoken(<<>>)) = <<>>
  BY <1>1, FlattenEmpty
<1> QED
  BY <1>2, <1>3 DEF SignatureOf

\* A piece that is taken in is a signature, and the last, or it follows the thinking.
LEMMA TakenIn ==
    ASSUME NEW d \in Seq(Pieces), NEW p \in Pieces
    PROVE  IF p \in Signatures
           THEN Unsigned(Append(d, p)) = Unsigned(d) /\ SignatureOf(p, Append(d, p))
           ELSE /\ Unsigned(Append(d, p)) = Append(Unsigned(d), p)
                /\ \A s : SignatureOf(s, d) => SignatureOf(s, Append(d, p))
<1> DEFINE e == Append(d, p)
           n == Len(d)
<1>1. /\ e \in Seq(Pieces) /\ Len(e) = n + 1 /\ n \in Nat /\ e[n + 1] = p
      /\ \A i \in 1..n : e[i] = d[i]
  OBVIOUS
<1> HIDE DEF e
<1>2. Unsigned(e) = Unsigned(d) \o (IF p \in Signatures THEN <<>> ELSE <<p>>)
  <2>1. /\ Spoken(d) \in [1..n -> Seq(Pieces)] /\ Spoken(e) \in [1..(n + 1) -> Seq(Pieces)]
        /\ Unsigned(d) = FlattenSeq(Spoken(d)) /\ Unsigned(e) = FlattenSeq(Spoken(e))
    BY <1>1, SpokenType
  <2>2. \A i \in 1..n : Spoken(e)[i] = Spoken(d)[i]
    BY <1>1 DEF Spoken
  <2>3. Spoken(e)[n + 1] = IF p \in Signatures THEN <<>> ELSE <<p>>
    BY <1>1 DEF Spoken
  <2>4. FlattenSeq(Spoken(e)) = FlattenSeq(Spoken(d)) \o Spoken(e)[n + 1]
    <3> HIDE DEF n
    <3> QED
      BY <1>1, <2>1, <2>2, FlattenMore
  <2> QED
    BY <2>1, <2>3, <2>4
<1>3. Unsigned(d) \in Seq(Pieces)
  BY <1>1, SpokenType, FlattenType
<1>4. CASE p \in Signatures
  <2>1. Unsigned(e) = Unsigned(d)
    BY <1>2, <1>3, <1>4, ConcatEmptySeq
  <2>2. SignatureOf(p, e)
    <3>1. n + 1 \in 1..Len(e) /\ \A m \in (n + 2)..Len(e) : FALSE
      BY <1>1
    <3> QED
      BY <1>1, <1>4, <3>1 DEF SignatureOf
  <2> QED
    BY <1>4, <2>1, <2>2 DEF e
<1>5. CASE p \notin Signatures
  <2>1. Unsigned(e) = Append(Unsigned(d), p)
    BY <1>2, <1>3, <1>5, AppendIsConcat, Zenon
  <2>2. ASSUME NEW s, SignatureOf(s, d)
        PROVE  SignatureOf(s, e)
    <3>1. CASE s = NoPiece /\ \A m \in 1..Len(d) : d[m] \notin Signatures
      BY <1>1, <1>5, <3>1 DEF SignatureOf
    <3>2. ASSUME NEW m \in 1..Len(d), s = d[m] /\ s \in Signatures,
                 \A l \in (m + 1)..Len(d) : d[l] \notin Signatures
          PROVE  SignatureOf(s, e)
      <4>1. \A l \in (m + 1)..Len(e) : e[l] \notin Signatures
        BY <1>1, <1>5, <3>2
      <4>2. m \in 1..Len(e) /\ s = e[m]
        BY <1>1, <3>2
      <4> QED
        BY <3>2, <4>1, <4>2 DEF SignatureOf
    <3> QED
      BY <2>2, <3>1, <3>2 DEF SignatureOf
  <2> QED
    BY <1>5, <2>1, <2>2 DEF e
<1> QED
  BY <1>4, <1>5

LEMMA StoredInit == Init => StoredInv
<1> SUFFICES ASSUME Init
             PROVE  StoredInv
  OBVIOUS
<1> USE DEF Init, EncoderInit, BedrockInit, LangChainInit
<1>1. BlankInv /\ PartsInv
  <2>1. ASSUME NEW i \in Index
        PROVE  Builds(assembled[i], wire[i])
    BY DEF Builds, NewPart, NoBlock
  <2>2. ~saved
    OBVIOUS
  <2> QED
    BY <2>1, <2>2 DEF BlankInv, PartsInv, NoBlock
<1>2. TextInv
  <2> DEFINE texts == [n \in 1..MaxBlocks |-> TextOf(n - 1)]
  <2>1. \A n \in 1..MaxBlocks : n - 1 \in Index
    BY SizesAssumption DEF Index
  <2>2. texts \in [1..MaxBlocks -> {<<>>}]
    BY <2>1 DEF TextOf
  <2>3. FlattenSeq(texts) = <<>>
    <3> HIDE DEF texts
    <3> QED
      BY <2>2, SizesAssumption, FlattenEmpty
  <2> QED
    BY <2>3 DEF TextInv, TextStored, TextOf
<1>3. CallsInv
  BY DEF CallsInv, NameInv, NoChunk
<1> QED
  BY <1>1, <1>2, <1>3 DEF StoredInv

\* Text that stays as it is in every block stays as it is in all.
LEMMA TextStays ==
    ASSUME TextStored, text_acc' = text_acc, \A i \in Index : TextOf(i)' = TextOf(i)
    PROVE  TextStored'
<1>1. \A n \in 1..MaxBlocks : n - 1 \in Index
  BY SizesAssumption DEF Index
<1>2. [n \in 1..MaxBlocks |-> TextOf(n - 1)]' = [n \in 1..MaxBlocks |-> TextOf(n - 1)]
  BY <1>1
<1> QED
  BY <1>2 DEF TextStored, TextOf

\* A step that leaves what is stored alone, and of the wire at most closes a block.
LEMMA StoredStays ==
    ASSUME TypeOK, StoredInv, provider' = provider,
           \A i \in Index : /\ wire'[i].kind = wire[i].kind /\ wire'[i].deltas = wire[i].deltas
                            /\ Status(i)' = "none" => Status(i) = "none",
           provider \in Converse =>
              assembled' = assembled /\ (saved' => content_parts' = Rebuilds),
           provider \in OpenAICompatible =>
              UNCHANGED <<text_acc, tool_acc, tool_indices>> /\ NameInv'
    PROVE  StoredInv'
<1>1. BlankInv' /\ PartsInv'
  <2>1. BlankInv'
    BY DEF StoredInv, BlankInv, Status
  <2>2. CASE provider \in Converse
    <3>1. \A i \in Index : Builds(assembled'[i], wire'[i])
      BY <2>2 DEF StoredInv, PartsInv, Builds
    <3>2. Rebuilds' = Rebuilds
      BY <2>2 DEF Rebuilds
    <3> QED
      BY <2>1, <2>2, <3>1, <3>2 DEF PartsInv
  <2> QED
    BY <2>1, <2>2 DEF PartsInv
<1>2. TextInv'
  BY TextStays DEF StoredInv, TextInv, TextOf
<1>3. CallsInv'
  BY DEF StoredInv, CallsInv, Gathers
<1> QED
  BY <1>1, <1>2, <1>3 DEF StoredInv

\* The Bedrock generator builds its parts with the events it sends.
LEMMA OpensStored ==
    ASSUME Inv, StoredInv, ContentBlockStart \/ OpensLazily
    PROVE  StoredInv'
<1>1. PICK type \in {"start", "delta", "stop"} : Handles(type)
  BY DEF ContentBlockStart, OpensLazily
<1>2. /\ provider \in Converse /\ EventIndex = LastBlock /\ LastBlock \in Index /\ EventInv
      /\ ~saved /\ UNCHANGED <<modelVars, saved>>
  BY <1>1, HandlesFacts
<1> DEFINE i == LastBlock
<1>3. /\ BlockStart(i, event.kind)
      /\ assembled' = [assembled EXCEPT ![i] = NewPart(event.kind)]
  BY <1>2 DEF ContentBlockStart, OpensLazily
<1>4. Status(i) = "none"
  <2>1. CASE ContentBlockStart
    BY <1>2, <2>1 DEF ContentBlockStart, Handles, EventInv
  <2>2. CASE OpensLazily
    <3>1. i \notin IsOpen
      BY <1>2, <2>2 DEF OpensLazily, Inv, BedrockInv
    <3> QED
      BY <1>2, <2>2, <3>1 DEF OpensLazily, Handles, EventInv, IsOpen
  <2> QED
    BY <2>1, <2>2
<1>5. /\ wire \in WireType /\ assembled \in [Index -> Part]
      /\ event.kind \in Kinds \cup {"none"}
  BY DEF Inv, TypeOK, EncoderType, BedrockType
<1>6. /\ wire'[i].kind = event.kind /\ wire'[i].deltas = <<>> /\ Status(i)' = "open"
      /\ \A j \in Index \ {i} : wire'[j] = wire[j] /\ assembled'[j] = assembled[j]
      /\ assembled'[i] = NewPart(event.kind)
  <2>1. wire[i].deltas = <<>>
    BY <1>2, <1>4 DEF StoredInv, BlankInv
  <2>2. /\ wire'[i].kind = event.kind /\ wire'[i].deltas = <<>> /\ wire'[i].status = "open"
        /\ \A j \in Index \ {i} : wire'[j] = wire[j]
    BY <1>2, <1>3, <1>5, <2>1 DEF BlockStart, WireType
  <2>3. /\ \A j \in Index \ {i} : assembled'[j] = assembled[j]
        /\ assembled'[i] = NewPart(event.kind)
    BY <1>2, <1>3, <1>5
  <2>4. Status(i)' = "open"
    BY <1>2, <2>2 DEF Status, modelVars, LastBlock
  <2> QED
    BY <2>2, <2>3, <2>4
<1>7. BlankInv'
  <2> SUFFICES ASSUME NEW j \in Index, Status(j)' = "none"
               PROVE  wire'[j].kind = "none" /\ wire'[j].deltas = <<>>
    BY DEF BlankInv
  <2>1. j # i /\ LastBlock' = LastBlock
    BY <1>2, <1>6 DEF modelVars, LastBlock
  <2>2. wire'[j] = wire[j] /\ Status(j) = "none"
    BY <1>6, <2>1 DEF Status
  <2> QED
    BY <2>2 DEF StoredInv, BlankInv
<1>8. PartsInv'
  <2>1. Builds(assembled'[i], wire'[i])
    <3>1. /\ assembled'[i].kind = event.kind /\ assembled'[i].deltas = <<>>
          /\ assembled'[i].signature = NoPiece
      BY <1>5, <1>6, NewPartFacts
    <3> QED
      BY <1>6, <3>1, NothingUnsigned DEF Builds
  <2>2. \A j \in Index \ {i} : Builds(assembled'[j], wire'[j])
    BY <1>2, <1>6 DEF StoredInv, PartsInv
  <2> QED
    BY <1>2, <2>1, <2>2 DEF PartsInv
<1>9. provider' \in Converse /\ provider' \notin OpenAICompatible
  BY <1>2, Families DEF modelVars
<1> QED
  BY <1>7, <1>8, <1>9 DEF StoredInv, TextInv, CallsInv

LEMMA ContentBlockDeltaStored ==
    ASSUME Inv, AnswerInv, StoredInv, ContentBlockDelta
    PROVE  StoredInv'
<1>1. /\ provider \in Converse /\ EventIndex = LastBlock /\ LastBlock \in Index
      /\ ~saved /\ UNCHANGED <<modelVars, saved>> /\ event.piece \in Pieces \cup {NoPiece}
  BY HandlesFacts DEF ContentBlockDelta
<1>2. wire \in WireType /\ assembled \in [Index -> Part] /\ TypeOK
  BY DEF Inv, TypeOK, EncoderType, BedrockType
<1>3. provider' = provider /\ provider \notin OpenAICompatible
  BY <1>1, Families DEF modelVars
<1>4. CASE event.piece = NoPiece
  <2>1. UNCHANGED <<wire, assembled>>
    BY <1>4 DEF ContentBlockDelta, encoderVars
  <2> QED
    BY <1>1, <1>2, <1>3, <2>1, StoredStays DEF Status
<1>5. CASE event.piece # NoPiece
  <2> DEFINE i == LastBlock
             p == event.piece
  <2>1. /\ p \in Pieces /\ Delta(i, p)
        /\ assembled' = [assembled EXCEPT ![i] = Takes(assembled[i], p)]
    BY <1>1, <1>5 DEF ContentBlockDelta
  <2>2. /\ \A j \in Index : Status(j)' = Status(j) /\ wire'[j].kind = wire[j].kind
        /\ wire'[i].deltas = Append(wire[i].deltas, p)
        /\ \A j \in Index \ {i} : wire'[j] = wire[j]
    BY <1>1, <1>2, <2>1, DeltaAdds
  <2>3. /\ assembled'[i] = Takes(assembled[i], p)
        /\ \A j \in Index \ {i} : assembled'[j] = assembled[j]
    BY <1>1, <1>2, <2>1
  <2>4. Status(i) # "none"
    BY <1>1 DEF ContentBlockDelta, Inv, BedrockInv, IsOpen
  <2>5. BlankInv'
    BY <1>1, <2>2, <2>4 DEF StoredInv, BlankInv
  <2>6. event.kind = wire[i].kind
    <3>1. Handles("delta") /\ EventInv /\ phase = "reading" /\ event.type = "delta"
      BY HandlesFacts DEF ContentBlockDelta
    <3> QED
      BY <1>1, <2>4, <3>1 DEF EventInv, AnswerInv
  <2>7. Builds(assembled'[i], wire'[i])
    <3>1. wire[i].deltas \in Seq(Pieces) /\ assembled[i] \in Part
      BY <1>1, <1>2 DEF WireType
    <3>2. Builds(assembled[i], wire[i])
      BY <1>1 DEF StoredInv, PartsInv
    <3>3. /\ wire'[i].kind = wire[i].kind /\ wire'[i].deltas = Append(wire[i].deltas, p)
          /\ assembled'[i] = Takes(assembled[i], p) /\ p \in Pieces
      BY <1>1, <2>1, <2>2, <2>3
    <3>4. assembled'[i].kind = wire'[i].kind
      BY <3>1, <3>2, <3>3, TakesFacts DEF Builds
    <3>5. CASE wire[i].kind # "thinking"
      <4>1. assembled'[i].deltas = Append(assembled[i].deltas, p)
        BY <2>6, <3>1, <3>3, <3>5, TakesFacts
      <4> QED
        BY <3>2, <3>3, <3>4, <3>5, <4>1 DEF Builds
    <3>6. CASE wire[i].kind = "thinking"
      <4>1. /\ assembled[i].deltas = Unsigned(wire[i].deltas)
            /\ SignatureOf(assembled[i].signature, wire[i].deltas)
        BY <3>2, <3>6 DEF Builds
      <4>2. CASE p \in Signatures
        <5>1. assembled'[i].signature = p /\ assembled'[i].deltas = assembled[i].deltas
          BY <2>6, <3>1, <3>3, <3>6, <4>2, TakesFacts
        <5>2. /\ Unsigned(wire'[i].deltas) = Unsigned(wire[i].deltas)
              /\ SignatureOf(p, wire'[i].deltas)
          BY <3>1, <3>3, <4>2, TakenIn
        <5> QED
          BY <3>3, <3>4, <3>6, <4>1, <5>1, <5>2 DEF Builds
      <4>3. CASE p \notin Signatures
        <5>1. /\ assembled'[i].signature = assembled[i].signature
              /\ assembled'[i].deltas = Append(assembled[i].deltas, p)
          BY <3>1, <3>3, <4>3, TakesFacts
        <5>2. /\ Unsigned(wire'[i].deltas) = Append(Unsigned(wire[i].deltas), p)
              /\ SignatureOf(assembled[i].signature, wire'[i].deltas)
          BY <3>1, <3>3, <4>1, <4>3, TakenIn
        <5> QED
          BY <3>3, <3>4, <3>6, <4>1, <5>1, <5>2 DEF Builds
      <4> QED
        BY <4>2, <4>3
    <3> QED
      BY <3>5, <3>6
  <2>8. PartsInv'
    <3>1. \A j \in Index \ {i} : Builds(assembled'[j], wire'[j])
      BY <1>1, <2>2, <2>3 DEF StoredInv, PartsInv
    <3> QED
      BY <1>1, <1>3, <2>7, <3>1 DEF PartsInv
  <2> QED
    BY <1>3, <2>5, <2>8 DEF StoredInv, TextInv, CallsInv
<1> QED
  BY <1>4, <1>5

\* A block is closed.
LEMMA StopStored ==
    ASSUME TypeOK, StoredInv, provider' = provider, script' = script, NEW i \in Index, BlockStop(i),
           provider \in Converse => UNCHANGED <<assembled, saved, content_parts>>,
           provider \in OpenAICompatible => UNCHANGED <<text_acc, tool_acc, tool_indices, chunk>>
    PROVE  StoredInv'
<1>1. /\ Status(i)' = "closed" /\ wire'[i].kind = wire[i].kind /\ wire'[i].deltas = wire[i].deltas
      /\ \A j \in Index \ {i} : wire'[j] = wire[j]
  BY StopCloses DEF TypeOK, EncoderType
<1>2. \A j \in Index : /\ wire'[j].kind = wire[j].kind /\ wire'[j].deltas = wire[j].deltas
                       /\ Status(j)' = "none" => Status(j) = "none"
  BY <1>1 DEF Status
<1>3. provider \in Converse =>
         assembled' = assembled /\ (saved' => content_parts' = Rebuilds)
  BY DEF StoredInv, PartsInv
<1>4. provider \in OpenAICompatible =>
         NameInv'
  BY DEF StoredInv, CallsInv, NameInv
<1> QED
  BY <1>2, <1>3, <1>4, StoredStays

LEMMA BedrockStored ==
    ASSUME Inv, AnswerInv, StoredInv, BedrockNext
    PROVE  StoredInv'
<1>1. TypeOK /\ (provider \in Converse => provider \notin OpenAICompatible)
  BY Families DEF Inv
<1>2. provider \in Converse => (saved => content_parts = Rebuilds)
  BY DEF StoredInv, PartsInv
<1>3. CASE ConverseStep
  <2>1. /\ provider \in Converse
        /\ UNCHANGED <<provider, wire, saved, assembled, content_parts>>
    BY <1>3 DEF ConverseStep, SendsStart, SendsFirstDelta, SendsDelta, SendsStop, SendsEnd,
       Begins, GoesOn, Completes, Receives, encoderVars, bedrockVars
  <2> QED
    BY <1>1, <1>2, <2>1, StoredStays DEF Status
<1>4. CASE ContentBlockStart \/ OpensLazily \/ ContentBlockDelta
  BY <1>4, OpensStored, ContentBlockDeltaStored
<1>5. CASE ContentBlockStop
  <2>1. /\ EventIndex \in Index /\ provider \in Converse /\ BlockStop(EventIndex)
        /\ UNCHANGED <<provider, script, saved, assembled, content_parts>>
    BY <1>5, HandlesFacts DEF ContentBlockStop, Handles, modelVars
  <2> QED
    BY <1>1, <2>1, StopStored
<1>6. CASE StreamFails
  <2>1. provider \in Converse /\ UNCHANGED <<provider, wire, saved, assembled, content_parts>>
    BY <1>6 DEF StreamFails, Error, modelVars, bedrockVars
  <2> QED
    BY <1>1, <1>2, <2>1, StoredStays DEF Status
<1>7. CASE Finally
  <2>1. /\ provider \in Converse /\ UNCHANGED <<provider, wire, assembled>>
        /\ content_parts' = Rebuilds
    BY <1>7 DEF Finally, Rebuilds, modelVars, encoderVars
  <2> QED
    BY <1>1, <2>1, StoredStays DEF Status
<1>8. CASE ClosesBlocks
  <2>1. provider \in Converse /\ UNCHANGED <<provider, script, saved, assembled, content_parts>>
    BY <1>8 DEF ClosesBlocks, modelVars
  <2>2. CASE open_blocks = {}
    <3>1. UNCHANGED wire
      BY <1>8, <2>2 DEF ClosesBlocks, LastChunk
    <3> QED
      BY <1>1, <1>2, <2>1, <3>1, StoredStays DEF Status
  <2>3. CASE open_blocks # {}
    <3>1. PICK i \in open_blocks : BlockStop(i)
      BY <1>8, <2>3 DEF ClosesBlocks
    <3>2. i \in Index
      BY <1>1 DEF TypeOK, BedrockType
    <3> QED
      BY <1>1, <2>1, <3>1, <3>2, StopStored
  <2> QED
    BY <2>2, <2>3
<1> QED
  BY <1>3, <1>4, <1>5, <1>6, <1>7, <1>8 DEF BedrockNext, BedrockStep

\* A block of a LangChain stream is opened: nothing was stored for it yet.
LEMMA OpensNextStored ==
    ASSUME Inv, StoredInv, OpensText \/ OpensCall
    PROVE  StoredInv'
<1>1. Generates /\ (NewText \/ NewCall) /\ UNCHANGED <<text_acc, tool_acc>>
  BY DEF OpensText, OpensCall
<1>2. /\ TypeOK /\ LangChainType /\ wire \in WireType
      /\ provider \in OpenAICompatible /\ LastBlock \in Index /\ UNCHANGED <<modelVars, LastBlock>>
  BY <1>1, GeneratesFacts DEF EncoderType
<1>3. next_index = LastBlock /\ (NewCall => chunk.id = LastBlock /\ chunk.text = NoPiece)
  BY <1>1, NewBlockFacts
<1> PICK i \in Index : i = LastBlock
  BY <1>2
<1>4. Status(i) = "none" /\ wire[i].kind = "none" /\ wire[i].deltas = <<>>
  <2>1. i >= next_index
    BY <1>2, <1>3 DEF Index
  <2>2. Status(i) = "none"
    BY <1>2, <2>1 DEF Inv, LangChainInv
  <2> QED
    BY <2>2 DEF StoredInv, BlankInv
<1>5. tool_indices[i] = NoIndex
  BY <1>2, <1>3 DEF Inv, LangChainInv, Index
<1>6. PICK k \in {"text", "tool"} : BlockStart(i, k)
  BY <1>3 DEF OpensText, OpensCall
<1>7. /\ wire'[i].status = "open" /\ wire'[i].kind = k /\ wire'[i].deltas = <<>>
      /\ \A j \in Index \ {i} : wire'[j] = wire[j]
  BY <1>2, <1>4, <1>6 DEF BlockStart, WireType
<1>8. BlankInv'
  BY <1>7 DEF StoredInv, BlankInv, Status
<1>9. TextInv'
  <2>1. \A j \in Index : TextOf(j)' = TextOf(j)
    BY <1>4, <1>7 DEF TextOf
  <2> QED
    BY <1>1, <1>2, <2>1, TextStays DEF StoredInv, TextInv
<1>10. CallsInv'
  <2>1. chunk'.args # NoPiece => chunk' = chunk
    BY DEF OpensText, OpensCall, NoChunk
  <2>2. \A j \in Index \ {i} : tool_indices'[j] = tool_indices[j]
    BY <1>2, <1>3 DEF OpensText, OpensCall, LangChainType, NewCall
  <2>3. tool_acc'[i] = <<>>
    BY <1>1, <1>2, <1>5 DEF StoredInv, CallsInv
  <2>4. NameInv'
    BY <1>2, <2>1 DEF StoredInv, CallsInv, NameInv, modelVars
  <2>5. Gathers(tool_acc[i], wire[i].deltas)' /\ tool_acc' = tool_acc
    BY <1>1, <1>7, <2>3 DEF Gathers
  <2>6. ASSUME NEW j \in Index \ {i}, tool_indices'[j] # NoIndex
        PROVE  Gathers(tool_acc[j], wire[j].deltas)'
    BY <1>2, <1>7, <2>2, <2>5, <2>6 DEF StoredInv, CallsInv, Gathers, modelVars
  <2>7. ASSUME NEW j \in Index, tool_indices'[j] = NoIndex
        PROVE  tool_acc'[j] = <<>>
    BY <1>2, <2>2, <2>3, <2>5, <2>7 DEF StoredInv, CallsInv
  <2> QED
    BY <1>2, <2>4, <2>5, <2>6, <2>7 DEF CallsInv, modelVars
<1>11. PartsInv'
  BY <1>2, Families DEF PartsInv, modelVars
<1> QED
  BY <1>8, <1>9, <1>10, <1>11 DEF StoredInv

\* A piece of text is appended to the text of its block, which is the last one with text.
LEMMA ForwardsTextStored ==
    ASSUME Inv, AnswerInv, StoredInv, ForwardsText
    PROVE  StoredInv'
<1>1. /\ TypeOK /\ LangChainType /\ wire \in WireType /\ phase = "reading"
      /\ provider \in OpenAICompatible /\ LastBlock \in Index /\ UNCHANGED <<modelVars, LastBlock>>
      /\ ChunkInv /\ begun > 0
  BY GeneratesFacts DEF ForwardsText, EncoderType
<1> PICK i \in Index : i = LastBlock
  BY <1>1
<1>2. PICK p \in Pieces : Delta(i, p) /\ p = chunk.text /\ next_index = begun
  BY <1>1, ForwardsFacts DEF ForwardsText
<1>3. /\ \A j \in Index : Status(j)' = Status(j) /\ wire'[j].kind = wire[j].kind
      /\ wire'[i].deltas = Append(wire[i].deltas, p)
      /\ \A j \in Index \ {i} : wire'[j] = wire[j]
  BY <1>1, <1>2, DeltaAdds
<1>4. script[i].kind = "text"
  BY <1>1, <1>2 DEF ForwardsText, ChunkInv
<1>5. Status(i) # "none" /\ wire[i].kind = "text"
  <2>1. i < next_index /\ next_index \in Int
    BY <1>1, <1>2, SizesAssumption DEF LastBlock, TypeOK, ModelType
  <2>2. Status(i) # "none"
    BY <1>1, <2>1 DEF Inv, LangChainInv, Index
  <2> QED
    BY <1>1, <1>4, <2>2 DEF AnswerInv
<1>6. \A j \in Index : j > i => TextOf(j) = <<>>
  <2> SUFFICES ASSUME NEW j \in Index, j > i
               PROVE  TextOf(j) = <<>>
    OBVIOUS
  <2>1. j >= next_index
    BY <1>1, <1>2, SizesAssumption DEF LastBlock, TypeOK, ModelType, Index
  <2>2. Status(j) = "none"
    BY <1>1, <2>1 DEF Inv, LangChainInv
  <2> QED
    BY <2>2 DEF StoredInv, BlankInv, TextOf
<1>7. BlankInv'
  BY <1>3, <1>5 DEF StoredInv, BlankInv
<1>8. TextStored'
  <2> DEFINE texts == [n \in 1..MaxBlocks |-> TextOf(n - 1)]
             k == i + 1
  <2>1. /\ \A n \in 1..MaxBlocks : n - 1 \in Index
        /\ k \in 1..MaxBlocks /\ k - 1 = i
        /\ \A n \in 1..MaxBlocks : n # k => n - 1 # i
        /\ \A n \in 1..MaxBlocks : n > k => n - 1 > i
    BY SizesAssumption DEF Index
  <2>2. texts \in [1..MaxBlocks -> Seq(Pieces)]
    <3>1. \A j \in Index : TextOf(j) \in Seq(Pieces)
      BY <1>1 DEF TextOf, WireType
    <3> QED
      BY <2>1, <3>1
  <2>3. EmptyAfter(texts, k, MaxBlocks)
    BY <1>6, <2>1 DEF EmptyAfter
  <2>4. Appends(texts', texts, k, p, MaxBlocks, Pieces)
    <3>1. TextOf(i)' = Append(TextOf(i), p) /\ \A j \in Index \ {i} : TextOf(j)' = TextOf(j)
      BY <1>3, <1>5 DEF TextOf
    <3>2. \A n \in 1..MaxBlocks :
             TextOf(n - 1)' = IF n = k THEN Append(TextOf(n - 1), p) ELSE TextOf(n - 1)
      BY <2>1, <3>1
    <3>3. texts' = [n \in 1..MaxBlocks |-> IF n = k THEN Append(TextOf(n - 1), p) ELSE TextOf(n - 1)]
      BY <3>2
    <3>4. \A n \in 1..MaxBlocks : TextOf(n - 1) \in Seq(Pieces)
      BY <2>2
    <3>5. \A n \in 1..MaxBlocks :
             (IF n = k THEN Append(TextOf(n - 1), p) ELSE TextOf(n - 1)) \in Seq(Pieces)
      BY <1>2, <3>4
    <3> QED
      BY <2>1, <3>3, <3>5 DEF Appends
  <2>5. FlattenSeq(texts') = Append(FlattenSeq(texts), p)
    <3>1. MaxBlocks \in Nat /\ k \in 1..MaxBlocks
      BY <2>1, SizesAssumption
    <3> HIDE DEF texts, k
    <3> QED
      BY <2>2, <2>3, <2>4, <3>1, FlattenAppend
  <2>6. FlattenSeq(texts) = text_acc
    BY <1>1 DEF StoredInv, TextInv, TextStored, TextOf
  <2>7. text_acc' = Append(text_acc, p)
    BY <1>2 DEF ForwardsText
  <2>8. text_acc' = FlattenSeq(texts')
    <3> HIDE DEF texts, k
    <3> QED
      BY <2>5, <2>6, <2>7
  <2> QED
    BY <2>8 DEF TextStored, TextOf
<1>9. CallsInv'
  <2>1. chunk' = NoChunk /\ UNCHANGED <<tool_acc, tool_indices>>
    BY DEF ForwardsText
  <2>2. tool_indices[i] = NoIndex
    BY <1>1, <1>4 DEF Inv, LangChainInv
  <2> QED
    BY <1>1, <1>3, <2>1, <2>2 DEF StoredInv, CallsInv, Gathers, NameInv, modelVars, NoChunk
<1>10. PartsInv'
  BY <1>1, Families DEF PartsInv, modelVars
<1> QED
  BY <1>1, <1>7, <1>8, <1>9, <1>10 DEF StoredInv, TextInv

\* A piece of a call's arguments is appended to the call's: no text changes.
LEMMA ForwardsArgumentsStored ==
    ASSUME Inv, AnswerInv, StoredInv, ForwardsArguments
    PROVE  StoredInv'
<1>1. /\ TypeOK /\ LangChainType /\ wire \in WireType /\ phase = "reading"
      /\ provider \in OpenAICompatible /\ LastBlock \in Index /\ UNCHANGED <<modelVars, LastBlock>>
      /\ ChunkInv /\ chunk # NoChunk
  BY GeneratesFacts DEF ForwardsArguments, EncoderType
<1>2. /\ chunk.args # NoPiece /\ ~NewCall /\ chunk' = NoChunk /\ chunk.text = NoPiece
      /\ UNCHANGED <<text_acc, tool_indices>>
  BY <1>1 DEF ForwardsArguments, ChunkInv
<1>3. PICK i \in Index, p \in Pieces :
         /\ Delta(i, p) /\ i < next_index /\ p = chunk.args
         /\ i = (IF chunk.id = NoId THEN LastBlock ELSE chunk.id)
  BY <1>2, ForwardsFacts
<1>4. /\ \A j \in Index : Status(j)' = Status(j) /\ wire'[j].kind = wire[j].kind
      /\ wire'[i].deltas = Append(wire[i].deltas, p)
      /\ \A j \in Index \ {i} : wire'[j] = wire[j]
  BY <1>1, <1>3, DeltaAdds
<1>5. Status(i) # "none" /\ wire[i].kind = "tool"
  <2>1. script[i].kind = "tool"
    BY <1>1, <1>2, <1>3 DEF ChunkInv
  <2>2. i < next_index /\ next_index \in Int /\ i \in Int
    BY <1>1, <1>3 DEF LangChainType, Index
  <2>3. Status(i) # "none"
    BY <1>1, <2>2 DEF Inv, LangChainInv
  <2> QED
    BY <1>1, <2>1, <2>3 DEF AnswerInv
<1>6. BlankInv'
  BY <1>4, <1>5 DEF StoredInv, BlankInv
<1>7. TextInv'
  <2>1. \A j \in Index : TextOf(j)' = TextOf(j)
    BY <1>4, <1>5 DEF TextOf
  <2> QED
    BY <1>1, <1>2, <2>1, TextStays DEF StoredInv, TextInv
<1>8. CallsInv'
  <2> wire[i].deltas \in Seq(Pieces)
    BY <1>1 DEF WireType
  <2>0. NameInv' /\ NameInv /\ provider' = provider
    BY <1>1, <1>2 DEF StoredInv, CallsInv, NameInv, NoChunk, modelVars
  <2>1. CASE chunk.id = NoId
    <3>1. provider = "openai" /\ tool_acc' = tool_acc
      BY <1>2, <2>0, <2>1 DEF NameInv, ForwardsArguments
    <3>2. Gathers(tool_acc[i], wire[i].deltas) => Gathers(tool_acc[i], wire[i].deltas)'
      <4>1. wire'[i].deltas # <<>>
            /\ (wire[i].deltas # <<>> => wire'[i].deltas[1] = wire[i].deltas[1])
        BY <1>4, AppendKeepsFirst
      <4> QED
        BY <2>0, <3>1, <4>1 DEF Gathers
    <3>3. ASSUME NEW j \in Index, tool_indices'[j] # NoIndex
          PROVE  Gathers(tool_acc[j], wire[j].deltas)'
      <4>1. Gathers(tool_acc[j], wire[j].deltas)
        BY <1>1, <1>2, <3>3 DEF StoredInv, CallsInv
      <4>2. CASE j = i
        BY <3>2, <4>1, <4>2
      <4>3. CASE j # i
        BY <1>4, <2>0, <3>1, <4>1, <4>3 DEF Gathers
      <4> QED
        BY <4>2, <4>3
    <3> QED
      BY <1>1, <1>2, <2>0, <3>1, <3>3 DEF StoredInv, CallsInv
  <2>2. CASE chunk.id # NoId
    <3>1. /\ tool_acc \in [Index -> Seq(Pieces)] /\ i = chunk.id
          /\ tool_acc' = [tool_acc EXCEPT ![i] = Append(@, p)]
      BY <1>1, <1>3, <2>2 DEF ForwardsArguments, LangChainType
    <3>2. /\ tool_acc'[i] = Append(tool_acc[i], p)
          /\ \A j \in Index \ {i} : tool_acc'[j] = tool_acc[j]
      BY <3>1
    <3>3. tool_indices[i] # NoIndex
      BY <1>1, <1>2, <2>2, <3>1 DEF NewCall
    <3>4. Gathers(tool_acc[i], wire[i].deltas)
      BY <1>1, <3>3 DEF StoredInv, CallsInv
    <3>5. provider = "openai" => wire[i].deltas = <<>> /\ tool_acc[i] = <<>>
      <4> SUFFICES ASSUME provider = "openai"
                   PROVE  wire[i].deltas = <<>> /\ tool_acc[i] = <<>>
        OBVIOUS
      <4>1. script[i].deltas = <<p>>
        BY <1>2, <1>3, <2>0, <2>2, <3>1 DEF NameInv
      <4>2. event.type # "delta" /\ i = ChunkBlock /\ ChunkPiece = p /\ p # NoPiece
        <5>1. provider \notin Converse /\ event.type = "none"
          BY <1>1, Families DEF TypeOK, BedrockType, NoEvent
        <5> QED
          BY <1>2, <1>3, <2>2, <3>1, <5>1 DEF ChunkBlock, ChunkPiece
      <4>3. Pending(i) = <<p>>
        BY <1>1, <4>2 DEF Pending, Content
      <4>4. <<p>> = wire[i].deltas \o <<p>>
        BY <1>1, <4>1, <4>3 DEF AnswerInv
      <4>5. wire[i].deltas = <<>>
        <5>1. Len(wire[i].deltas \o <<p>>) = Len(wire[i].deltas) + 1 /\ Len(<<p>>) = 1
          BY <1>3
        <5> QED
          BY <4>4, <5>1
      <4> QED
        BY <3>4, <4>5 DEF Gathers
    <3>6. Gathers(tool_acc[i], wire[i].deltas)'
      <4>1. CASE provider = "openai"
        <5>0. Append(<<>>, p) = <<p>>
          OBVIOUS
        <5>1. tool_acc'[i] = <<p>> /\ wire'[i].deltas = <<p>>
          BY <1>4, <3>2, <3>5, <4>1, <5>0
        <5> QED
          BY <1>3, <2>0, <4>1, <5>1 DEF Gathers
      <4>2. CASE provider # "openai"
        BY <1>4, <2>0, <3>2, <3>4, <4>2 DEF Gathers
      <4> QED
        BY <4>1, <4>2
    <3>7. ASSUME NEW j \in Index \ {i}, tool_indices'[j] # NoIndex
          PROVE  Gathers(tool_acc[j], wire[j].deltas)'
      BY <1>1, <1>2, <1>4, <2>0, <3>2, <3>7 DEF StoredInv, CallsInv, Gathers
    <3>8. ASSUME NEW j \in Index, tool_indices'[j] = NoIndex
          PROVE  tool_acc'[j] = <<>>
      BY <1>1, <1>2, <3>2, <3>3, <3>8 DEF StoredInv, CallsInv
    <3> QED
      BY <1>1, <2>0, <3>6, <3>7, <3>8 DEF CallsInv
  <2> QED
    BY <2>1, <2>2
<1>9. PartsInv'
  BY <1>1, Families DEF PartsInv, modelVars
<1> QED
  BY <1>6, <1>7, <1>8, <1>9 DEF StoredInv

\* The next message chunk: it names its call, unless the server is one that does not.
LEMMA ChunkStepStored ==
    ASSUME Inv, StoredInv, ChunkStep
    PROVE  StoredInv'
<1>1. TypeOK
  BY DEF Inv
<1>2. ASSUME NEW c, Yields(c), provider' = provider, NameInv'
      PROVE  StoredInv'
  <2>1. /\ provider \in OpenAICompatible /\ chunk' = c
        /\ UNCHANGED <<wire, text_acc, tool_acc, tool_indices>>
    BY <1>2 DEF Yields, encoderVars
  <2>2. provider \notin Converse
    BY <2>1, Families
  <2> QED
    BY <1>1, <1>2, <2>1, <2>2, StoredStays DEF Status
<1>3. ASSUME NEW p \in NextPieces, SendsText(p)
      PROVE  StoredInv'
  <2>1. provider' = provider /\ Yields([NoChunk EXCEPT !.text = p])
    BY <1>3 DEF SendsText, GoesOn, Begins
  <2>2. [NoChunk EXCEPT !.text = p].args = NoPiece
    BY DEF NoChunk
  <2>3. NameInv'
    BY <2>1, <2>2 DEF NameInv, Yields
  <2> QED
    BY <1>2, <2>1, <2>3
<1>4. ASSUME NEW p \in NextPieces, SendsCall(p)
      PROVE  StoredInv'
  <2> DEFINE c == [text |-> NoPiece, id |-> begun, args |-> p]
  <2>1. provider' = provider /\ Yields(c) /\ c.id = begun /\ begun # NoId /\ c.args = p
    BY <1>1, <1>4 DEF SendsCall, Begins, TypeOK, ModelType, NoId
  <2>2. p # NoPiece => script'[begun].deltas = <<p>>
    <3>1. script \in [Index -> Block] /\ begun \in Index
      BY <1>1, <1>4, SizesAssumption DEF SendsCall, Begins, TypeOK, ModelType, Index
    <3> QED
      BY <1>4, <3>1 DEF SendsCall, Begins, Content
  <2> HIDE DEF c
  <2>3. NameInv'
    BY <2>1, <2>2 DEF NameInv, Yields
  <2> QED
    BY <1>2, <2>1, <2>3
<1>5. ASSUME NEW i \in Index, NEW p \in NextPieces, SendsArguments(i, p)
      PROVE  StoredInv'
  <2> DEFINE c == [text |-> NoPiece, args |-> p, id |-> IF provider = "openai" THEN NoId ELSE i]
  <2>1. provider' = provider /\ Yields(c)
    BY <1>5 DEF SendsArguments, GoesOn
  <2>2. c.id = NoId <=> provider = "openai"
    BY DEF NoId, Index
  <2> HIDE DEF c
  <2>3. NameInv'
    BY <2>1, <2>2 DEF NameInv, Yields
  <2> QED
    BY <1>2, <2>1, <2>3
<1>6. CASE SendsLast
  <2>1. /\ provider \in OpenAICompatible /\ provider' = provider
        /\ UNCHANGED <<wire, script, chunk, text_acc, tool_acc, tool_indices>>
    BY <1>6 DEF SendsLast, Completes, encoderVars, langchainVars
  <2>2. provider \notin Converse
    BY <2>1, Families
  <2>3. NameInv'
    BY <2>1 DEF StoredInv, CallsInv, NameInv
  <2> QED
    BY <1>1, <2>1, <2>2, <2>3, StoredStays DEF Status
<1> QED
  BY <1>3, <1>4, <1>5, <1>6 DEF ChunkStep

LEMMA LangChainStepStored ==
    ASSUME Inv, AnswerInv, StoredInv, LangChainStep
    PROVE  StoredInv'
<1>1. TypeOK /\ LangChainType /\ (provider \in OpenAICompatible => provider \notin Converse)
  BY Families DEF Inv, TypeOK
<1>2. CASE ClosesOpenBlock
  <2>1. /\ provider \in OpenAICompatible /\ open_index \in Index /\ BlockStop(open_index)
        /\ UNCHANGED <<provider, script, text_acc, tool_acc, tool_indices, chunk>>
    BY <1>1, <1>2, GeneratesFacts DEF ClosesOpenBlock, LangChainType, modelVars
  <2> QED
    BY <1>1, <2>1, StopStored
<1>3. CASE OpensText \/ OpensCall
  BY <1>3, OpensNextStored
<1>4. CASE ForwardsText
  BY <1>4, ForwardsTextStored
<1>5. CASE ForwardsArguments
  BY <1>5, ForwardsArgumentsStored
<1>6. CASE EndOfChunks
  <2>1. /\ provider \in OpenAICompatible
        /\ UNCHANGED <<provider, script, text_acc, tool_acc, tool_indices, chunk>>
    BY <1>6 DEF EndOfChunks, modelVars
  <2>2. CASE open_index # NoIndex
    <3>1. open_index \in Index /\ BlockStop(open_index)
      BY <1>1, <1>6, <2>2 DEF EndOfChunks, LangChainType
    <3> QED
      BY <1>1, <2>1, <3>1, StopStored
  <2>3. CASE open_index = NoIndex
    <3>1. wire' = wire
      BY <1>6, <2>3 DEF EndOfChunks, LastChunk
    <3>2. NameInv'
      BY <2>1 DEF StoredInv, CallsInv, NameInv
    <3> QED
      BY <1>1, <2>1, <3>1, <3>2, StoredStays DEF Status
  <2> QED
    BY <2>2, <2>3
<1> QED
  BY <1>2, <1>3, <1>4, <1>5, <1>6 DEF LangChainStep

LEMMA StoredNext == Inv /\ AnswerInv /\ StoredInv /\ [Next]_vars => StoredInv'
<1> SUFFICES ASSUME Inv, AnswerInv, StoredInv, [Next]_vars
             PROVE  StoredInv'
  OBVIOUS
<1>1. CASE BedrockNext \/ LangChainNext
  BY <1>1, BedrockStored, ChunkStepStored, LangChainStepStored DEF LangChainNext
<1>2. CASE EncoderNext \/ Dropped \/ Raises \/ UNCHANGED vars
  <2>1. /\ UNCHANGED <<provider, script, wire, assembled, content_parts, saved>>
        /\ UNCHANGED <<text_acc, tool_acc, tool_indices, chunk>>
    <3>1. CASE EncoderNext
      <4>1. sseOpen = {}
        BY <3>1 DEF EncoderNext, Finish, Inv, WireInv
      <4> QED
        BY <3>1, <4>1 DEF EncoderNext, Finish, modelVars, bedrockVars, langchainVars
    <3>2. CASE Dropped \/ Raises
      BY <3>2 DEF Dropped, Raises, modelVars, bedrockVars, langchainVars
    <3>3. CASE UNCHANGED vars
      BY <3>3 DEF vars, encoderVars, modelVars, bedrockVars, langchainVars
    <3> QED
      BY <1>2, <3>1, <3>2, <3>3
  <2>2. provider \in Converse => (saved => content_parts = Rebuilds)
    BY DEF StoredInv, PartsInv
  <2>3. provider \in OpenAICompatible => NameInv'
    BY <2>1 DEF StoredInv, CallsInv, NameInv
  <2> QED
    BY <2>1, <2>2, <2>3, StoredStays DEF Inv, Status
<1> QED
  BY <1>1, <1>2 DEF Next

\* What is written for the audit log when a stream ends is what the client was sent,
\* wherever it ended: of a Bedrock answer each block, of a LangChain answer the text of
\* all blocks taken together and each call under its id; a call's arguments only if they
\* were complete, and {} if they were cut off.
THEOREM AuditLogIsWhatWasStreamed == Spec => []StoredIsStreamed
<1>1. ASSUME Inv, StoredInv
      PROVE  StoredIsStreamed
  <2>1. CASE saved /\ provider \in Converse
    <3> SUFFICES ASSUME NEW i \in Index
                 PROVE  PartStored(content_parts[i], wire[i])
      BY <2>1 DEF StoredIsStreamed
    <3>1. assembled[i] \in Part /\ Builds(assembled[i], wire[i])
      BY <1>1, <2>1 DEF Inv, TypeOK, BedrockType, StoredInv, PartsInv
    <3>2. content_parts[i] = Rebuilt(assembled[i])
      BY <1>1, <2>1 DEF StoredInv, PartsInv, Rebuilds
    <3> QED
      BY <3>1, <3>2, RebuiltFacts DEF PartStored, Builds, InputOf, Parsed
  <2>2. CASE saved /\ provider \notin Converse
    <3>1. provider \in OpenAICompatible
      BY <1>1, <2>2, ProvidersAssumption DEF Inv, TypeOK, ModelType
    <3>2. TextStored
      BY <1>1, <3>1 DEF StoredInv, TextInv
    <3>3. CallsStored
      <4> SUFFICES ASSUME NEW i \in Index, tool_indices[i] # NoIndex
                   PROVE  CallStored(StoredCall(i), wire[tool_indices[i]].deltas)
        BY DEF CallsStored
      <4>1. Gathers(tool_acc[i], wire[i].deltas) /\ wire[i].deltas \in Seq(Pieces)
        BY <1>1, <3>1 DEF StoredInv, CallsInv, Inv, TypeOK, EncoderType, WireType
      <4>2. tool_indices[i] = i
        BY <1>1, <3>1 DEF Inv, LangChainInv
      <4>3. CASE provider = "openai"
        <5>1. StoredCall(i) # <<>> => Whole(StoredCall(i)) /\ StoredCall(i) = tool_acc[i]
          BY DEF StoredCall, Parsed
        <5>2. tool_acc[i] # <<>> => IsPrefix(tool_acc[i], wire[i].deltas)
          BY <4>1, <4>3, FirstIsPrefix DEF Gathers
        <5> QED
          BY <4>2, <4>3, <5>1, <5>2 DEF CallStored
      <4>4. CASE provider # "openai"
        BY <4>1, <4>2, <4>4 DEF Gathers, CallStored, InputOf, StoredCall, Parsed
      <4> QED
        BY <4>3, <4>4
    <3> QED
      BY <2>2, <3>2, <3>3 DEF StoredIsStreamed
  <2> QED
    BY <2>1, <2>2 DEF StoredIsStreamed
<1> QED
  BY <1>1, StoredInit, StoredNext, InvHolds, AnswerInvHolds, PTL DEF Spec
=============================================================================
