---------------------------- MODULE Conversation ----------------------------
(***************************************************************************)
(* A conversation through the gateway: a client sends its history, the     *)
(* adapter translates it (AnthropicAdapter), the provider sends it on      *)
(* (BedrockTranslation, LangChainTranslation) and the model answers; the   *)
(* client puts the answer into its history, with the results of the tools  *)
(* the model called, and asks again.  A request that is refused ends it.   *)
(*                                                                         *)
(* Providers, the client and the model are the environment: the model      *)
(* answers with one of Answers, of the provider's own shape.               *)
(***************************************************************************)
EXTENDS BedrockTranslation, LangChainTranslation

CONSTANTS
    Backends,    \* "bedrock", "langchain"
    Contents,    \* what the user may say in a turn, a sequence of blocks
    FollowUps,   \* what the user, or a tool, may say after an answer
    Asides,      \* the system messages that may come with it
    Settings,    \* the rest of a request: system, tools, tool_choice, ...
    Answers,     \* of a provider, what the model may answer
    MaxTurns

\* Blocks, how deep they go, and what is said: a sequence of blocks, in a tool
\* result one more level deep.  Inside of a document are texts and images, of a
\* search result texts, and of nothing else anything (ContentSource,
\* SearchResultBlock).
IsSeq(s) == Len(s) \in Nat /\ s = [i \in 1..Len(s) |-> s[i]]
IsBlock(b) ==
    /\ b = [f \in DOMAIN Block |-> b[f]]
    /\ IsSeq(b.body) /\ IsSeq(b.content) /\ IsSeq(b.cites)
    /\ b.title \in DOMAIN Cleaned /\ b.cache \in BOOLEAN
Simple(b) == IsBlock(b) /\ b.content = <<>>
ChunkTypes == [document |-> {"text", "image"}, search_result |-> {"text"}]
Chunk(b, c) == Simple(c) /\ b.type \in DOMAIN ChunkTypes /\ c.type \in ChunkTypes[b.type]
Flatly(b) == IsBlock(b) /\ \A i \in DOMAIN b.content : Chunk(b, b.content[i])
Says(content) == IsSeq(content) /\ \A i \in DOMAIN content : Flatly(content[i])

ASSUME CleanedAssumption == <<>> \in DOMAIN Cleaned /\ \A t \in DOMAIN Cleaned : IsSeq(Cleaned[t])

\* The client: only answers to calls are tool results, thinking is the model's
\* (_convert_parts_to_langchain: in a valid conversation it is in no turn of
\* the user), and an inline system message holds texts (_message_system_text).
ASSUME ClientAssumption ==
    /\ \A c \in Contents \cup FollowUps : Says(c) /\ \A i \in DOMAIN c : c[i].type \notin {"tool_result", "thinking"}
    /\ \A aside \in Asides : IsSeq(aside) /\ \A i \in DOMAIN aside :
          /\ aside[i] = [role |-> "system", content |-> aside[i].content]
          /\ IsSeq(aside[i].content)
          /\ \A j \in DOMAIN aside[i].content :
                Simple(aside[i].content[j]) /\ aside[i].content[j].type = "text"

SettingNames == {"system", "messages", "tools", "server_tools", "tool_choice", "thinking", "safeguards"}
ASSUME SettingsAssumption == \A s \in Settings :
    /\ s = [f \in SettingNames |-> s[f]]
    /\ s.messages = <<>> /\ IsSeq(s.system)
    /\ \A i \in DOMAIN s.system : Simple(s.system[i]) /\ s.system[i].type = "text"

\* The model: what an answer holds has no parts of its own, only calls have an id
\* and only thinking has a signature, and the verdicts on its calls are in
\* their order, if there is one on each.
Named == [bedrock |-> {"toolUse", "reasoningContent"}, langchain |-> {"tool_call"}]
ASSUME AnswersAssumption ==
    /\ Backends \subseteq {"bedrock", "langchain"} /\ Backends \subseteq DOMAIN Answers
    /\ \A p \in Backends : \A a \in Answers[p] :
          /\ a = [content |-> a.content, stop |-> a.stop, verdicts |-> a.verdicts]
          /\ IsSeq(a.content) /\ IsSeq(a.verdicts)
          /\ \A i \in DOMAIN a.content :
                /\ Simple(a.content[i])
                /\ a.content[i].type \notin Named[p] => a.content[i].id = ""
          /\ LET calls == OfType(a.content, {"toolUse"}) IN
             Len(a.verdicts) = Len(calls) => \A i \in DOMAIN calls : a.verdicts[i] = calls[i].body

ASSUME MaxTurnsAssumption == MaxTurns \in Nat \ {0}

VARIABLES
    provider, phase,
    request,     \* MessagesRequest: the settings and the messages so far
    internal,    \* InternalRequest
    sent,        \* the parameters of Converse, or the LangChain messages
    raw,         \* the provider's response
    result,      \* InternalResult
    response,    \* MessagesResponse
    said,        \* ghost: the provider's responses so far
    turns

convVars == <<provider, phase, request, internal, sent, raw, result, response, said, turns>>

Nothing == [messages |-> <<>>, system |-> <<>>, content |-> <<>>, safeguards |-> <<>>]
User(content) == [role |-> "user", content |-> content]

ConvInit ==
    /\ provider \in Backends /\ phase = "request"
    /\ \E s \in Settings, c \in Contents : request = [s EXCEPT !.messages = Append(@, User(c))]
    /\ internal = Nothing /\ sent = Nothing
    /\ raw = Nothing /\ result = Nothing /\ response = Nothing
    /\ said = <<>> /\ turns = 1

\* create_message converts the request, or answers 400.
Adapt ==
    /\ phase = "request"
    /\ IF RefusedByAdapter(request)
       THEN phase' = "refused" /\ UNCHANGED internal
       ELSE phase' = "internal" /\ internal' = ToInternal(request)
    /\ UNCHANGED <<provider, request, sent, raw, result, response, said, turns>>

Refuses == IF provider = "bedrock" THEN RefusedByBedrock(internal) ELSE RefusedByLangChain(internal)
Translated == IF provider = "bedrock" THEN ToBedrock(internal) ELSE ToLangChain(internal)

\* BedrockProvider.invoke, LangChainProvider._runnable.
Send ==
    /\ phase = "internal"
    /\ IF Refuses
       THEN phase' = "refused" /\ UNCHANGED sent
       ELSE phase' = "sent" /\ sent' = Translated
    /\ UNCHANGED <<provider, request, internal, raw, result, response, said, turns>>

\* The model answers; safeguards are only looked at when they were asked for.
Answer(a) ==
    /\ phase = "sent"
    /\ phase' = "answered" /\ raw' = a
    /\ said' = Append(said, a)
    /\ UNCHANGED <<provider, request, internal, sent, result, response, turns>>

\* parse_converse_response, from_langchain_response.
Parse ==
    /\ phase = "answered"
    /\ phase' = "result"
    /\ result' = IF provider = "bedrock" THEN FromBedrock(raw) ELSE FromLangChain(raw)
    /\ UNCHANGED <<provider, request, internal, sent, raw, response, said, turns>>

Respond ==
    /\ phase = "result"
    /\ phase' = "response" /\ response' = ToResponse(result)
    /\ UNCHANGED <<provider, request, internal, sent, raw, result, said, turns>>

\* The result of every tool the model called, which the client makes up.
ResultsOf(content, inner) ==
    LET calls == OfType(content, {"tool_use"}) IN
    [i \in DOMAIN calls |-> [Block EXCEPT !.type = "tool_result", !.id = calls[i].id,
                                          !.content = inner, !.cache = i = Len(calls)]]

\* The client goes on: results and what the user says, in either order.
Continue(c, inner, first, aside) ==
    /\ phase = "response" /\ turns < MaxTurns
    /\ LET results == ResultsOf(response.content, inner) IN
       request' = [request EXCEPT !.messages = @ \o
           <<[role |-> "assistant", content |-> response.content],
             User(IF first THEN results \o c ELSE c \o results)>> \o aside]
    /\ phase' = "request" /\ turns' = turns + 1
    /\ UNCHANGED <<provider, internal, sent, raw, result, response, said>>

ConvNext ==
    \/ Adapt \/ Send \/ Parse \/ Respond
    \/ \E a \in Answers[provider] : Answer(a)
    \/ \E c, inner \in FollowUps, first \in BOOLEAN, aside \in Asides :
          Continue(c, inner, first, aside)

ConvSpec == ConvInit /\ [][ConvNext]_convVars

-----------------------------------------------------------------------------
\* The facts in a sequence of blocks, in order, as deep as blocks go.
Chunks(s) == FlattenSeq([i \in DOMAIN s |-> s[i].body \o Bodies(s[i].content)])
Flow(s) == FlattenSeq([i \in DOMAIN s |-> s[i].body \o Chunks(s[i].content)])

Spoken == Turns(request.messages)
Told == request.system \o
    FlattenSeq([i \in DOMAIN request.messages |->
        IF request.messages[i].role = "system" THEN request.messages[i].content ELSE <<>>])
Representable(content) == NotOfType(content, {"redacted_thinking"})

\* What LangChain has no place for and is left out without a word: an image
\* among the chunks of a document, and an image in a turn of the assistant.
Within(blocks, type) == UNION {ToSet(b.content) : b \in {d \in blocks : d.type = type}}
Images(blocks) == UNION {ToSet(b.body) : b \in {d \in blocks : d.type = "image"}}
Unplaced(m) ==
    LET blocks == ToSet(m.content) IN
    Images(Within(blocks \cup Within(blocks, "tool_result"), "document")) \cup
    IF m.role = "user" THEN {} ELSE Images(blocks)

\* A request that is accepted reaches the model whole.  Converse gets what every
\* turn says in its order, and the system texts in the order of the
\* conversation; LangChain, which reorders and joins, gets all of it but what
\* it has no place for (docs/content-mapping.md: dropping content is never
\* acceptable if there was information in it).
NothingLost ==
    phase = "sent" =>
        /\ Flow(sent.system) = Flow(Told)
        /\ provider = "bedrock" =>
              /\ Len(sent.messages) = Len(Spoken)
              /\ \A k \in DOMAIN Spoken :
                    Flow(sent.messages[k].content) = Flow(Representable(Spoken[k].content))
        /\ provider = "langchain" =>
              \A k \in DOMAIN Spoken :
                  ToSet(Flow(Representable(Spoken[k].content))) \ Unplaced(Spoken[k]) \subseteq
                      UNION {ToSet(Flow(m.content)) : m \in ToSet(sent.messages)}

\* The documents of messages, in them or in the tool results in them, by where they are:
\* message, item, and item of the item or 0.
ItemAt(messages, at) ==
    LET item == messages[at[1]].content[at[2]] IN
    IF at[3] = 0 THEN item ELSE item.content[at[3]]
Documents(messages) ==
    {at \in UNION {UNION {{<<k, j, i>> : i \in 0..Len(messages[k].content[j].content)} :
                         j \in DOMAIN messages[k].content} : k \in DOMAIN messages} :
        ItemAt(messages, at).type = "document"}

\* No two documents of a request have the same name, wherever in it they are
\* and whatever their titles (_DocumentNames: Converse refuses duplicates).
NamesUnique ==
    phase = "sent" /\ provider = "bedrock" =>
        \A a, b \in Documents(sent.messages) :
            ItemAt(sent.messages, a).title = ItemAt(sent.messages, b).title => a = b

\* A marker anywhere in a block but in the chunks of a document.
MarkedDeep(b) ==
    \/ b.cache
    \/ b.type \in {"tool_result", "search_result"} /\ Marked(b.content)
    \/ /\ b.type = "tool_result"
       /\ \E c \in ToSet(b.content) : c.type = "search_result" /\ Marked(c.content)

\* What Converse may cache are the prefixes the client marked, no more and no
\* less: a breakpoint stands behind what its block says, also when the marker
\* was inside of a tool or search result, where Converse takes none.
BreakpointsKept ==
    phase = "sent" /\ provider = "bedrock" =>
        \A k \in DOMAIN Spoken :
            LET items == sent.messages[k].content
                blocks == Representable(Spoken[k].content)
                points == {j \in DOMAIN items : items[j].type = "cachePoint"}
                marks == {j \in DOMAIN blocks : MarkedDeep(blocks[j])} IN
            /\ Cardinality(points) = Cardinality(marks)
            /\ {Flow(SubSeq(items, 1, j)) : j \in points} = {Flow(SubSeq(blocks, 1, j)) : j \in marks}

\* What the client is told of a call by the safeguards is the verdict on that
\* call, though Converse has renamed it (_remap_safeguard_results).
VerdictsBelong ==
    phase = "response" =>
        \A v \in ToSet(response.safeguards) :
            \E b \in ToSet(response.content) : b.type = "tool_use" /\ b.id = v[1] /\ b.body = v[2]

\* What identifies a piece of an answer, with the signature of its thinking; and as
\* what it is to come back.
Piece(p) == <<p.type, p.body, p.id>>
Taken(b) ==
    CASE b.type \in {"toolUse", "reasoningContent", "image"} -> Piece(b)
      [] b.type = "redactedContent" -> <<"reasoningContent", Printed(b.body), "">>
      [] OTHER -> <<"text", b.body, "">>
AssistantTurns ==
    Kept(sent.messages, {k \in DOMAIN sent.messages : sent.messages[k].role \in {"assistant", "ai"}})

\* The model gets back what it said: through the result, the response, the
\* client and the next request, every piece of an answer keeps its content, its
\* place and its id, and thinking that is text its signature.  Redacted reasoning does
\* not: it comes back in its place, but printed, as reasoning nobody has signed.
AnswerComesBack ==
    phase = "sent" =>
        /\ Len(AssistantTurns) = Len(said)
        /\ \A k \in DOMAIN said :
              LET back == NotOfType(AssistantTurns[k].content, {"cachePoint"}) IN
              IF provider = "bedrock"
              THEN said[k].content # <<>> =>
                      [i \in DOMAIN back |-> Piece(back[i])] =
                          [i \in DOMAIN said[k].content |-> Taken(said[k].content[i])]
              ELSE LET calls == OfType(said[k].content, {"tool_call"}) IN
                   /\ back[1].body = Bodies(Texts(said[k].content))
                   /\ Tail(back) = calls

\* A tool's result follows the turn that called it: in Converse the next
\* message holds it, in LangChain only other results come between.
ResultsFollowCalls ==
    phase = "sent" =>
        \A k \in DOMAIN sent.messages :
            /\ provider = "bedrock" =>
                  \A p \in ToSet(sent.messages[k].content) : p.type = "toolResult" =>
                      k > 1 /\ \E c \in ToSet(sent.messages[k - 1].content) :
                                   c.type = "toolUse" /\ c.id = p.id
            /\ provider = "langchain" /\ sent.messages[k].role = "tool" =>
                  \E j \in 1..(k - 1) :
                      /\ \E c \in ToSet(sent.messages[j].content) :
                            c.type = "tool_call" /\ c.id = sent.messages[k].id
                      /\ \A i \in (j + 1)..(k - 1) : sent.messages[i].role = "tool"

\* What a provider may cache a prefix of: the system part stands in front of all
\* messages.
Prompt(s) == s.system \o s.messages

\* A message of the system came in with the last turn of the user.
AsideCame ==
    \E i \in DOMAIN request.messages :
        /\ request.messages[i].role = "system"
        /\ \A j \in DOMAIN request.messages : j > i => request.messages[j].role # "assistant"

\* What was sent is sent again when the conversation goes on, name for name and
\* breakpoint for breakpoint: the whole prompt in front of what is new, so that every
\* prefix the provider has cached stays valid.  When a message of the system came in,
\* which goes to the end of the system part, the prompt changes in front of the
\* messages: then only what was cached of the system part itself stays valid, with its
\* breakpoints (of LangChain, which sends it as one text, the beginning of that text).
PrefixStable ==
    [][sent' # sent /\ sent # Nothing =>
          /\ ~AsideCame => IsPrefix(Prompt(sent), Prompt(sent'))
          /\ IsPrefix(sent.messages, sent'.messages)
          /\ IF provider = "bedrock" THEN IsPrefix(sent.system, sent'.system)
                                     ELSE IsPrefix(Flow(sent.system), Flow(sent'.system))]_convVars
=============================================================================
