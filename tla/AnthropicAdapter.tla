-------------------------- MODULE AnthropicAdapter --------------------------
(***************************************************************************)
(* core/adapters/anthropic.py: from the Messages API to the internal       *)
(* representation (core/model.py) and back.                                *)
(*                                                                         *)
(* Blocks of the wire and internal parts are records of one shape.  body   *)
(* is the information a piece carries, as the sequence of the facts in it: *)
(* text, image bytes, the arguments of a call.  Joining texts joins the    *)
(* bodies; separators and labels are left out.                             *)
(***************************************************************************)
EXTENDS Naturals, Sequences, SequencesExt, FiniteSets

\* The fields of a block and their defaults (schemas/anthropic.py).  source is
\* where an image or a document is, id the id of a call or the signature of
\* thinking, cites the kinds of a text's citations (or that a document's are
\* enabled), cache whether the block carries cache_control.
Block == [type |-> "text", body |-> <<>>, source |-> "base64", media |-> "", title |-> <<>>,
          id |-> "", content |-> <<>>, cites |-> <<>>, error |-> FALSE, cache |-> FALSE]

ServerResults == {"web_search_tool_result", "web_fetch_tool_result", "mcp_tool_result"}
ServerParts == {"server_tool_call", "server_tool_result"}
InResults == {"text", "image", "document", "search_result"}

\* _get_content_type, _get_tool_result_content_type: the model a block is
\* parsed into; what the gateway does not know is an UnknownBlock.
ModelOf(b, inResult) ==
    IF b.type \in InResults THEN b.type
    ELSE IF inResult THEN "unknown"
    ELSE CASE b.type = "mcp_tool_use" -> "server_tool_use"
           [] b.type \in ServerResults -> "server_tool_result"
           [] b.type \in {"tool_use", "tool_result", "server_tool_use", "thinking", "redacted_thinking"} -> b.type
           [] OTHER -> "unknown"

\* _image_to_part, _document_to_part: a source the gateway does not fetch.
BadSource(b) ==
    \/ b.type \in {"image", "document"} /\ b.source \in {"url", "file"}
    \/ /\ b.type = "document" /\ b.source = "content"
       /\ \E c \in ToSet(b.content) : c.type = "image" /\ c.source # "base64"

\* UnsupportedContentError, also for what is inside of a tool result.
Rejected(b) ==
    \/ ModelOf(b, FALSE) = "unknown" \/ BadSource(b)
    \/ /\ b.type = "tool_result"
       /\ \E c \in ToSet(b.content) : ModelOf(c, TRUE) = "unknown" \/ BadSource(c)

\* _WIRE_CITATION_KIND.
CitationKind == [char_location |-> "char", page_location |-> "page",
                 content_block_location |-> "chunk", search_result_location |-> "search_result",
                 web_search_result_location |-> "web"]

\* The elements of s at these places, in order; its blocks of some types, and of others.
Kept(s, places) == FlattenSeq([i \in DOMAIN s |-> IF i \in places THEN <<s[i]>> ELSE <<>>])
OfType(s, types) == Kept(s, {i \in DOMAIN s : s[i].type \in types})
NotOfType(s, types) == Kept(s, {i \in DOMAIN s : s[i].type \notin types})

\* _text_to_part: a citation of an unknown kind is left out.
TextPart(b) ==
    LET known == Kept(b.cites, {i \in DOMAIN b.cites : b.cites[i] \in DOMAIN CitationKind}) IN
    [b EXCEPT !.cites = [i \in DOMAIN known |-> CitationKind[known[i]]]]

Marked(s) == \E i \in DOMAIN s : s[i].cache

\* _search_result_to_part: the markers of its texts become its own.
SearchResult(b) ==
    [b EXCEPT !.content = [i \in DOMAIN @ |-> [@[i] EXCEPT !.cache = FALSE]],
              !.cache = @ \/ Marked(b.content)]

\* _tool_result_content_to_parts: one block inside a tool result.
InnerPart(b) ==
    CASE b.type = "text" -> TextPart(b) [] b.type = "search_result" -> SearchResult(b) [] OTHER -> b

\* A slip of ToolResult: a marker inside of it is not looked at.
ToolResultAlone(b) == [b EXCEPT !.content = [i \in DOMAIN @ |-> InnerPart(@[i])]]

\* The marker of a tool result, or of a block in it, is the part's.
ToolResult(b) ==
    LET inner == [i \in DOMAIN b.content |-> InnerPart(b.content[i])] IN
    [b EXCEPT !.content = inner, !.cache = @ \/ Marked(inner)]

\* citation_to_wire.
CitationToWire(kind) == CHOOSE c \in DOMAIN CitationKind : CitationKind[c] = kind

\* _block_to_part: the wire type of a server tool is kept in media.
PartOf(b) ==
    CASE b.type = "text" -> TextPart(b)
      [] b.type = "search_result" -> SearchResult(b)
      [] b.type = "tool_result" -> ToolResult(b)
      [] b.type = "tool_use" -> [b EXCEPT !.type = "tool_call"]
      [] ModelOf(b, FALSE) = "server_tool_use" -> [b EXCEPT !.type = "server_tool_call", !.media = b.type]
      [] ModelOf(b, FALSE) = "server_tool_result" -> [b EXCEPT !.type = "server_tool_result", !.media = b.type]
      [] OTHER -> b

Bodies(s) == FlattenSeq([i \in DOMAIN s |-> s[i].body])

\* _message_system_text and the promotion of its markers: the texts of an
\* inline system message as one part, none if there are none.
InlineSystem(m) ==
    LET texts == OfType(m.content, {"text"}) IN
    IF Bodies(texts) = <<>> THEN <<>>
    ELSE <<[Block EXCEPT !.body = Bodies(texts), !.cache = Marked(texts)]>>

InlineTexts(r) ==
    FlattenSeq([i \in DOMAIN r.messages |->
        IF r.messages[i].role = "system" THEN InlineSystem(r.messages[i]) ELSE <<>>])

\* The turns of a conversation.
Turns(messages) == Kept(messages, {i \in DOMAIN messages : messages[i].role # "system"})

\* A slip of FlattenSystem: the inline messages go first.
InlineFirst(r) == InlineTexts(r) \o r.system

\* _flatten_system: the top-level blocks, then the inline messages in order.
FlattenSystem(r) == r.system \o InlineTexts(r)

\* request_to_internal raises: a block nobody can represent, or thinking
\* enabled without a budget (_thinking_to_internal).
RefusedByAdapter(r) ==
    \/ \E m \in ToSet(r.messages) : m.role # "system" /\ \E b \in ToSet(m.content) : Rejected(b)
    \/ r.thinking = "no_budget"

\* _thinking_to_internal, _tool_choice_to_internal,
\* _client_tools_to_internal and _server_tools_to_internal keep what they are
\* given, apart from each other.
ToInternal(r) ==
    [system |-> FlattenSystem(r),
     messages |-> LET said == Turns(r.messages) IN
                  [i \in DOMAIN said |->
                      [said[i] EXCEPT !.content = [j \in DOMAIN @ |-> PartOf(@[j])]]],
     tools |-> r.tools, server_tools |-> r.server_tools, tool_choice |-> r.tool_choice,
     thinking |-> r.thinking, safeguards |-> r.safeguards]

-----------------------------------------------------------------------------
\* _part_to_block, of the parts a provider's result can hold.
BlockOf(p) ==
    CASE p.type = "text" -> [p EXCEPT !.cites = [i \in DOMAIN @ |-> CitationToWire(@[i])]]
      [] p.type = "tool_call" -> [p EXCEPT !.type = "tool_use"]
      [] p.type \in {"server_tool_call", "server_tool_result"} -> [p EXCEPT !.type = p.media]
      [] OTHER -> p

\* result_to_response.
ToResponse(result) ==
    [content |-> IF result.content = <<>> THEN <<Block>>
                 ELSE [i \in DOMAIN result.content |-> BlockOf(result.content[i])],
     stop |-> result.stop, safeguards |-> result.safeguards]
=============================================================================
