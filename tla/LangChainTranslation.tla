------------------------ MODULE LangChainTranslation ------------------------
(***************************************************************************)
(* core/providers/langchain/translation.py: an internal request as         *)
(* LangChain messages and bound tools, an AIMessage as an internal result. *)
(* A message is its role, its content as items of the shape of an internal *)
(* part (the tool calls of an AIMessage last) and, of a ToolMessage, the   *)
(* call it answers.                                                        *)
(***************************************************************************)
EXTENDS AnthropicAdapter

TextItem(body) == [Block EXCEPT !.body = body]

\* _document_as_text raises: a document that is no text.
NoText(p) == p.type = "document" /\ p.source = "base64" /\ p.media \notin {"text/plain", "text/csv"}

\* to_langchain_messages raises ServerToolError or UnsupportedContentError.
RefusedByLangChain(q) ==
    \/ q.server_tools
    \/ \E m \in ToSet(q.messages) : \E p \in ToSet(m.content) :
          \/ p.type \in ServerParts \/ NoText(p)
          \/ p.type = "tool_result" /\ m.role = "user" /\ \E c \in ToSet(p.content) : NoText(c)

Texts(s) == OfType(s, {"text"})

\* _document_as_text, _search_result_as_text: of a content source the texts.
AsText(p) == p.body \o Bodies(Texts(p.content))

\* _convert_parts_to_langchain, of a turn of the user without tool results.
UserItem(p) ==
    CASE p.type = "image" -> <<[Block EXCEPT !.type = "image_url", !.body = p.body]>>
      [] p.type \in {"text", "document", "search_result", "tool_call"} -> <<TextItem(AsText(p))>>
      [] OTHER -> <<>>

\* A slip of ToolMessage: only the text of a result is answered.
ToolMessageText(p) ==
    [role |-> "tool", id |-> p.id, content |-> <<TextItem(Bodies(Texts(p.content)))>>]

\* _tool_result_content_to_langchain: one text, or a list if there is an image.
ToolMessage(p) ==
    LET items == FlattenSeq([i \in DOMAIN p.content |-> UserItem(p.content[i])]) IN
    [role |-> "tool", id |-> p.id,
     content |-> IF \A i \in DOMAIN items : items[i].type = "text"
                 THEN <<TextItem(Bodies(items))>> ELSE items]

\* A slip of UserMessages: what comes first is sent first.
InOrder(content) ==
    FlattenSeq([i \in DOMAIN content |->
        IF content[i].type = "tool_result" THEN <<ToolMessage(content[i])>>
        ELSE <<[role |-> "human", id |-> "", content |-> UserItem(content[i])]>>])

\* The results of a turn before what else the user says in it.
UserMessages(content) ==
    LET results == OfType(content, {"tool_result"})
        rest == NotOfType(content, {"tool_result"}) IN
    [i \in DOMAIN results |-> ToolMessage(results[i])] \o
        IF results # <<>> /\ rest = <<>> THEN <<>>
        ELSE <<[role |-> "human", id |-> "",
                content |-> FlattenSeq([i \in DOMAIN rest |-> UserItem(rest[i])])]>>

\* A turn of the assistant: its texts and thinking in one text, then its calls.
AIMessage(content) ==
    LET texts == OfType(content, {"text", "thinking", "document", "search_result"})
        calls == OfType(content, {"tool_call"}) IN
    [role |-> "ai", id |-> "",
     content |-> <<TextItem(FlattenSeq([i \in DOMAIN texts |-> AsText(texts[i])]))>> \o calls]

\* to_langchain_messages, bind_tools_to_model, convert_tool_choice: tools are
\* bound whatever the choice, which "none" leaves to the model.
ToLangChain(q) ==
    [system |-> IF q.system = <<>> THEN <<>> ELSE <<TextItem(Bodies(q.system))>>,
     messages |-> FlattenSeq([i \in DOMAIN q.messages |->
         IF q.messages[i].role = "user" THEN UserMessages(q.messages[i].content)
                                        ELSE <<AIMessage(q.messages[i].content)>>]),
     tools |-> q.tools,
     tool_choice |-> IF q.tool_choice = "none" THEN "auto" ELSE q.tool_choice]

-----------------------------------------------------------------------------
\* from_langchain_response: its texts (those of a list that are text), then its
\* tool calls.
LangChainParts(raw) ==
    Kept(raw.content, {i \in DOMAIN raw.content :
                          raw.content[i].type = "text" /\ raw.content[i].body # <<>>}) \o
    OfType(raw.content, {"tool_call"})

\* finish_reason, with which a backend that says "stop" has the last word.
LangChainStop(raw) ==
    IF raw.stop = "stop" THEN "end_turn"
    ELSE IF raw.stop = "tool_calls" \/ \E p \in ToSet(raw.content) : p.type = "tool_call" THEN "tool_use"
    ELSE CASE raw.stop = "length" -> "max_tokens"
           [] raw.stop = "content_filter" -> "refusal"
           [] OTHER -> "end_turn"

FromLangChain(raw) ==
    [content |-> IF LangChainParts(raw) = <<>> THEN <<Block>> ELSE LangChainParts(raw),
     stop |-> LangChainStop(raw), safeguards |-> <<>>]
=============================================================================
