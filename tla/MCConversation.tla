--------------------------- MODULE MCConversation ---------------------------
(* Two turns of a conversation, with every kind of block in the first one.  *)
EXTENDS Conversation, TLC

Titles == {<<>>, <<"doc">>, <<"doc.">>, <<"doc", 2>>, <<"...">>}
TheCleaned == [t \in Titles |-> IF t = <<"doc.">> THEN <<"doc">> ELSE IF t = <<"...">> THEN <<>> ELSE t]

Text(f, mark) == [Block EXCEPT !.body = <<f>>, !.cache = mark]
Image(media, source) ==
    [Block EXCEPT !.type = "image", !.body = <<"pixels">>, !.media = media, !.source = source]
Doc(f, title, media) ==
    [Block EXCEPT !.type = "document", !.body = <<f>>, !.title = title, !.media = media]
Chunked(c) == [Block EXCEPT !.type = "document", !.source = "content", !.content = c]
Search(mark) == [Block EXCEPT !.type = "search_result", !.content = <<Text("found", mark), Text("more", FALSE)>>]
Of(type) == [Block EXCEPT !.type = type, !.body = <<type>>, !.id = type]

\* Of every block the variants that are treated apart.
Blocks ==
    {Text("hello", TRUE), [Text("cited", FALSE) EXCEPT !.cites = <<"char_location", "other">>],
     Image("image/png", "base64"), Image("image/tiff", "base64"), Image("image/png", "url"),
     Doc("paper", <<>>, "application/pdf"), Doc("table", <<"doc">>, "text/csv"),
     Doc("again", <<"doc.">>, "text/plain"), Doc("third", <<"doc", 2>>, "text/plain"),
     Doc("odd", <<"...">>, "text/plain"), Doc("zip", <<"doc">>, "application/zip"),
     Chunked(<<Text("one", TRUE), Text("two", FALSE)>>),
     Chunked(<<Text("one", FALSE), Image("image/png", "base64")>>), Search(TRUE), Search(FALSE),
     Of("redacted_thinking"), Of("server_tool_use"), Of("mcp_tool_use"), Of("mcp_tool_result"),
     Of("container_upload")}

\* A turn: a block, or two of which the second is a document, a text or a search result.
TheContents ==
    {<<b>> : b \in Blocks} \cup
    {<<b, c>> : b \in Blocks, c \in {Doc("last", <<"doc">>, "text/plain"), Text("bye", TRUE), Search(TRUE)}}

TheFollowUps ==
    {<<Text("next", FALSE)>>, <<Doc("new", <<"doc">>, "text/plain"), Search(TRUE)>>,
     <<Image("image/png", "base64"), Doc("newer", <<>>, "application/pdf")>>}
TheAsides == {<<>>, <<[role |-> "system", content |-> <<Text("careful", TRUE)>>]>>}

Plainly == [system |-> <<>>, messages |-> <<>>, tools |-> FALSE, server_tools |-> FALSE,
            tool_choice |-> "auto", thinking |-> "off", safeguards |-> FALSE]
WithTools == [Plainly EXCEPT !.tools = TRUE, !.safeguards = TRUE, !.system = <<Text("be", TRUE), Text("kind", FALSE)>>]
TheSettings ==
    {Plainly, WithTools, [WithTools EXCEPT !.tool_choice = "none"],
     [Plainly EXCEPT !.server_tools = TRUE], [Plainly EXCEPT !.thinking = "no_budget"]}

Call(n) == [Block EXCEPT !.type = "toolUse", !.body = <<<<"first", "second">>[n]>>, !.id = <<"id1", "id2">>[n]]
Thought == [Block EXCEPT !.type = "reasoningContent", !.body = <<"hm">>, !.id = "signature"]
Redacted == [Block EXCEPT !.type = "redactedContent", !.body = <<"cipher">>]
Quote == [Block EXCEPT !.type = "citationsContent", !.body = <<"quote">>, !.cites = <<"char">>]
Reply(content, stop, verdicts) == [content |-> content, stop |-> stop, verdicts |-> verdicts]
LCCall(n) == [Call(n) EXCEPT !.type = "tool_call"]

TheAnswers == [bedrock |->
    {Reply(<<>>, "guardrail_intervened", <<>>), Reply(<<Quote>>, "end_turn", <<>>),
     Reply(<<Thought, Redacted, Text("ok", FALSE), Call(1)>>, "tool_use", <<Call(1).body>>),
     Reply(<<Call(1), Call(2), Image("image/png", "base64")>>, "tool_use", <<Call(2).body>>),
     Reply(<<Call(1), Call(2)>>, "tool_use", <<Call(1).body, Call(2).body>>)},
    langchain |->
    {Reply(<<>>, "content_filter", <<>>), Reply(<<Text("ok", FALSE)>>, "stop", <<>>),
     Reply(<<Text("ok", FALSE), LCCall(1), LCCall(2)>>, "tool_calls", <<>>)}]
=============================================================================
