------------------------- MODULE BedrockTranslation -------------------------
(***************************************************************************)
(* core/providers/bedrock/converse.py without its client and its stream:   *)
(* an internal request as Converse parameters, a Converse response as an   *)
(* internal result.  Items of Converse are records of the same shape as    *)
(* internal parts; a document's name is its title.                         *)
(***************************************************************************)
EXTENDS AnthropicAdapter

CONSTANT Cleaned    \* what is left of a title when _DOC_NAME_INVALID is gone

\* Some of each, which stand for the others.
ImageFormats == {"image/png", "image/jpeg", "image/jpg", "image/gif", "image/webp"}
DocumentFormats == {"application/pdf", "text/plain", "text/csv"}

\* _image_part_to_bedrock, _document_part_to_bedrock raise.
Unsendable(p) ==
    \/ p.type = "image" /\ p.media \notin ImageFormats
    \/ /\ p.type = "document"
       /\ \/ p.source = "base64" /\ p.media \notin DocumentFormats
          \/ p.source = "content" /\ \E c \in ToSet(p.content) : c.type # "text"

\* build_converse_request raises ServerToolError or UnsupportedContentError.
RefusedByBedrock(q) ==
    \/ q.server_tools
    \/ \E m \in ToSet(q.messages) : \E p \in ToSet(m.content) :
          \/ p.type \in ServerParts \/ Unsendable(p)
          \/ p.type = "tool_result" /\ \E c \in ToSet(p.content) : Unsendable(c)

\* The name of the n-th document that wants to be called base: "base (n)".
Numbered(base, n) == IF n = 1 THEN base ELSE Append(base, n)

Wanted(title) == IF Cleaned[title] = <<>> THEN <<"document">> ELSE Cleaned[title]

\* A slip of Take: a number is enough to tell two documents apart.
TakeNext(used, title) == Numbered(Wanted(title), Cardinality(used) + 1)

\* _DocumentNames.take: the first name of the title that is free.
Take(used, title) ==
    Numbered(Wanted(title),
        CHOOSE n \in 1..(Cardinality(used) + 1) :
            /\ Numbered(Wanted(title), n) \notin used
            /\ \A k \in 1..(n - 1) : Numbered(Wanted(title), k) \in used)

CachePoint == [Block EXCEPT !.type = "cachePoint"]
ItemType == [text |-> "text", image |-> "image", search_result |-> "searchResult",
             tool_call |-> "toolUse", thinking |-> "reasoningContent"]

\* _search_result_part_to_bedrock and the others that need no name: what is
\* inside of a search result is sent as it is.  Only a document and a search
\* result say that they may be cited.
Item(p) == [Block EXCEPT !.type = ItemType[p.type], !.body = p.body \o Bodies(p.content), !.id = p.id,
                         !.cites = IF p.type = "text" THEN <<>> ELSE p.cites]

\* _document_part_to_bedrock: the texts of a content source one after another.
Document(p, name) ==
    [Block EXCEPT !.type = "document", !.body = p.body \o Bodies(p.content), !.title = name,
                  !.cites = p.cites]

\* What is converted so far, and the names it took.
Started(names) == [out |-> <<>>, used |-> names]
With(acc, item, names) == [out |-> Append(acc.out, item), used |-> names]

Plain(acc, p) ==
    IF p.type = "document"
    THEN LET name == Take(acc.used, p.title) IN With(acc, Document(p, name), acc.used \cup {name})
    ELSE With(acc, Item(p), acc.used)

\* _tool_result_content_to_bedrock.
Inner(names, parts) ==
    LET done[i \in 0..Len(parts)] ==
            IF i = 0 THEN Started(names) ELSE Plain(done[i - 1], parts[i])
    IN done[Len(parts)]

\* _convert_part_to_bedrock.
Converted(acc, p) ==
    IF p.type # "tool_result" THEN Plain(acc, p)
    ELSE LET inner == Inner(acc.used, p.content) IN
         With(acc, [Block EXCEPT !.type = "toolResult", !.id = p.id, !.error = p.error,
                                 !.content = inner.out], inner.used)

\* A slip of AddPart: a breakpoint in front of what it is to close.
AddPartLate(acc, p) ==
    IF p.type = "redacted_thinking" THEN acc
    ELSE Converted(IF p.cache THEN With(acc, CachePoint, acc.used) ELSE acc, p)

\* _convert_message_to_bedrock: a breakpoint follows the part that is marked.
AddPart(acc, p) ==
    IF p.type = "redacted_thinking" THEN acc
    ELSE LET c == Converted(acc, p) IN
         IF p.cache THEN With(c, CachePoint, c.used) ELSE c

AddParts(names, parts) ==
    LET done[i \in 0..Len(parts)] ==
            IF i = 0 THEN Started(names) ELSE AddPart(done[i - 1], parts[i])
    IN done[Len(parts)]

AddMessage(acc, m) ==
    LET c == AddParts(acc.used, m.content) IN
    With(acc, [role |-> m.role, content |-> c.out], c.used)

AddMessages(messages) ==
    LET done[i \in 0..Len(messages)] ==
            IF i = 0 THEN Started({}) ELSE AddMessage(done[i - 1], messages[i])
    IN done[Len(messages)]

\* build_converse_request: without tools when they are not to be called, as
\* Converse has no such choice.
ToBedrock(q) ==
    [system |-> AddParts({}, q.system).out,
     messages |-> AddMessages(q.messages).out,
     tools |-> q.tools /\ q.tool_choice # "none",
     tool_choice |-> IF q.tools /\ q.tool_choice # "none" THEN q.tool_choice ELSE "auto",
     thinking |-> q.thinking, safeguards |-> q.safeguards]

-----------------------------------------------------------------------------
\* What str() makes of reasoning that is not text: its content, in the words of Python.
Printed(body) == <<"repr">> \o body

\* A slip of BedrockPart: the signature of the thinking is not kept.
BedrockPartBare(b) ==
    CASE b.type = "toolUse" -> [b EXCEPT !.type = "tool_call"]
      [] b.type = "reasoningContent" -> [b EXCEPT !.type = "thinking", !.id = ""]
      [] b.type = "redactedContent" ->
            [b EXCEPT !.type = "thinking", !.body = Printed(b.body), !.id = ""]
      [] b.type = "image" -> b
      [] OTHER -> [b EXCEPT !.type = "text"]

\* _parse_bedrock_content_block.  Reasoning without reasoningText (redactedContent
\* here) becomes thinking that is printed and has no signature; what the gateway does
\* not know becomes a text.
BedrockPart(b) ==
    CASE b.type = "toolUse" -> [b EXCEPT !.type = "tool_call"]
      [] b.type = "reasoningContent" -> [b EXCEPT !.type = "thinking"]
      [] b.type = "redactedContent" ->
            [b EXCEPT !.type = "thinking", !.body = Printed(b.body), !.id = ""]
      [] b.type = "image" -> b
      [] OTHER -> [b EXCEPT !.type = "text"]

ToolCallIds(parts) ==
    LET calls == OfType(parts, {"tool_call"}) IN
    [i \in DOMAIN calls |-> calls[i].id]

\* A slip of Remapped: as many verdicts as there are calls are taken.
RemappedShort(verdicts, ids) ==
    [i \in 1..(IF Len(verdicts) < Len(ids) THEN Len(verdicts) ELSE Len(ids)) |-> <<ids[i], verdicts[i]>>]

\* _remap_safeguard_results: by position, and none if the numbers disagree.
Remapped(verdicts, ids) ==
    IF Len(verdicts) = Len(ids) THEN [i \in DOMAIN ids |-> <<ids[i], verdicts[i]>>] ELSE <<>>

\* _BEDROCK_STOP_REASON_MAP.
BedrockStop(reason) ==
    CASE reason \in {"end_turn", "tool_use", "max_tokens", "stop_sequence"} -> reason
      [] reason \in {"content_filtered", "guardrail_intervened"} -> "refusal"
      [] OTHER -> "end_turn"

\* parse_converse_response.
FromBedrock(raw) ==
    LET parts == [i \in DOMAIN raw.content |-> BedrockPart(raw.content[i])] IN
    [content |-> IF parts = <<>> THEN <<Block>> ELSE parts,
     stop |-> BedrockStop(raw.stop),
     safeguards |-> Remapped(raw.verdicts, ToolCallIds(parts))]
=============================================================================
