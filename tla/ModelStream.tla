---------------------------- MODULE ModelStream ----------------------------
(***************************************************************************)
(* What a model answers, as the two chunk generators meet it (external).   *)
(* An answer is a sequence of content blocks; script says what the         *)
(* provider has put in each so far.  Pieces of content are numbered in the *)
(* order they are sent.                                                    *)
(*                                                                         *)
(* Kinds of provider: Bedrock Converse streams number their blocks; they   *)
(* stop each block ("converse"), or only tool calls ("unstopped", the form *)
(* tests/test_bedrock.py describes), or stop each and leave the numbers    *)
(* out, for which the code has a default ("unnumbered").  OpenAI-          *)
(* compatible servers give the id of a tool call with its first piece      *)
(* only ("openai") or with each ("echoing"), or give it with each and      *)
(* answer several calls side by side ("interleaving").                     *)
(***************************************************************************)
EXTENDS Integers, Sequences

CONSTANTS Providers,  \* the kinds of provider to consider
          MaxBlocks,  \* blocks in an answer, at most
          MaxPieces,  \* pieces of content, at most
          Closing,    \* pieces that, in a tool call, complete its arguments
          Signatures  \* pieces that, in a thinking block, are its signature

Converse == {"converse", "unstopped", "unnumbered"}
OpenAICompatible == {"openai", "echoing", "interleaving"}

ASSUME ProvidersAssumption == Providers \subseteq Converse \cup OpenAICompatible
ASSUME SizesAssumption == MaxBlocks \in Nat /\ MaxPieces \in Nat

Index == 0..(MaxBlocks - 1)
NoIndex == -1
Pieces == 1..MaxPieces
NoPiece == 0

ASSUME ClosingAssumption == Closing \subseteq Pieces
ASSUME SignaturesAssumption == Signatures \subseteq Pieces

Kinds == {"text", "thinking", "tool"}
NoBlock == [kind |-> "none", deltas |-> <<>>]

\* The pieces of a call's arguments are one JSON object: the last completes it, and no
\* piece before does.  A call that is cut off, as by max_tokens, never has a last one.
Whole(d) ==
    /\ d # <<>> /\ d[Len(d)] \in Closing
    /\ \A n \in 1..(Len(d) - 1) : d[n] \notin Closing

\* What json.loads makes of them; what does not parse is taken for {}, which is <<>>.
Parsed(d) == IF Whole(d) THEN d ELSE <<>>

VARIABLES
    provider,  \* the kind of provider, which never changes
    script,    \* the blocks of its answer
    begun,     \* how many it has begun
    inside,    \* it is in the middle of the last one
    pieces,    \* how many pieces it has sent
    complete   \* its answer is complete

modelVars == <<provider, script, begun, inside, pieces, complete>>

ModelInit ==
    /\ provider \in Providers
    /\ script = [i \in Index |-> NoBlock]
    /\ begun = 0 /\ inside = FALSE /\ pieces = 0 /\ complete = FALSE

LastBlock == begun - 1

\* The sequence of the one piece p, or of none.
Content(p) == IF p = NoPiece THEN <<>> ELSE <<p>>

\* The next piece of content, or an event that carries none that is passed on.
NextPieces == {NoPiece} \cup (IF pieces < MaxPieces THEN {pieces + 1} ELSE {})
Count(p) == pieces' = IF p = NoPiece THEN pieces ELSE p

\* The last block is over without having been stopped.
RunsOn == provider = "unstopped" /\ begun > 0 /\ script[LastBlock].kind # "tool"

\* The next block begins, of kind k, with p.
Begins(k, p) ==
    /\ ~complete /\ begun < MaxBlocks
    /\ script' = [script EXCEPT ![begun] = [kind |-> k, deltas |-> Content(p)]]
    /\ begun' = begun + 1
    /\ Count(p)
    /\ UNCHANGED <<provider, complete>>

\* Block i goes on with p.
GoesOn(i, p) ==
    /\ ~complete
    /\ script' = [script EXCEPT ![i].deltas = @ \o Content(p)]
    /\ Count(p)
    /\ UNCHANGED <<provider, begun, inside, complete>>

Completes ==
    /\ ~complete /\ (inside => RunsOn)
    /\ complete' = TRUE
    /\ UNCHANGED <<provider, script, begun, inside, pieces>>

Block == [kind : Kinds \cup {"none"}, deltas : Seq(Pieces)]

ModelType ==
    /\ provider \in Providers
    /\ script \in [Index -> Block]
    /\ begun \in 0..MaxBlocks /\ inside \in BOOLEAN
    /\ pieces \in 0..MaxPieces /\ complete \in BOOLEAN
=============================================================================
