----------------------------- MODULE ApiFormat -----------------------------
(***************************************************************************)
(* internal/apiformat: which API a request speaks, and what a user and an  *)
(* assistant say in it.                                                    *)
(***************************************************************************)
EXTENDS Document

CONSTANTS
    MaxToolArgRunes  \* cap of the argument shown beside a tool's name

Opened == {"<retrieved-context>", "<session-context>", "<global-guide>"}
Closed == {"</retrieved-context>", "</session-context>", "</global-guide>"}

\* The bracket of a marker becomes an entity, so that it is a tag no more.  The
\* source attribute of an opening marker is left where it was.
NeutralizeMarkers(t) == [i \in DOMAIN t |->
    IF t[i] \in Opened THEN "&lt;context source=muninn" ELSE IF t[i] \in Closed THEN "&lt;context" ELSE t[i]]

\* Everything from a <system-reminder> to the first closing tag after it goes;
\* one that is never closed stays.
StripSystemReminders(t) ==
    LET Step(s, w) ==
          IF s.held = <<>> /\ w # "<system-reminder>" THEN [s EXCEPT !.out = Append(@, w)]
          ELSE IF s.held # <<>> /\ w = "</system-reminder>" THEN [s EXCEPT !.held = <<>>]
          ELSE [s EXCEPT !.held = Append(@, w)]
        end == FoldLeft(Step, [out |-> <<>>, held |-> <<>>], t)
    IN Trim(end.out \o end.held)

\* At most max characters, cut at the last break in the final fifth of them.
TruncateAt(s, max, suffix, breaks) ==
    LET ends == {i \in (max - max \div 5 + 1)..max : s[i] \in breaks}
    IN IF max <= 0 THEN <<>>
       ELSE IF Len(s) <= max THEN s
       ELSE SubSeq(s, 1, IF ends = {} THEN max ELSE Max(ends) - 1) \o suffix
TruncateText(s, max)  == TruncateAt(s, max, <<"...">>, Blanks)
TruncateQuery(s, max) == TruncateAt(s, max, <<>>, {" "})

----------------------------------------------------------------------------
\* Anthropic's messages have typed content, no system role and no image_url.
IsAnthropicMessages(messages) ==
    LET blocks == Joined(LAMBDA m : Elements(m, "content"), messages)
    IN /\ \A i \in DOMAIN messages : Label(messages[i], "role") # "system"
       /\ \A i \in DOMAIN blocks : Label(blocks[i], "type") # "image_url"
       /\ \E i \in DOMAIN blocks : Has(blocks[i], "type")

\* The first of these that holds; "" for a body of no known format.
DetectFormat(doc) ==
    IF Has(doc, "contents") THEN "gemini"
    ELSE IF Has(Member(doc, "request"), "contents") THEN "gemini-cloudcode"
    ELSE IF Has(doc, "system") THEN "anthropic"
    ELSE IF IsAnthropicMessages(Elements(doc, "messages")) THEN "anthropic"
    ELSE IF Has(doc, "input") THEN "openai-responses"
    ELSE IF Has(doc, "messages") THEN "openai"
    ELSE ""

BlocksText(blocks) == Joined(LAMBDA b : IF Label(b, "type") = "text" THEN TextAt(b, "text") ELSE <<>>, blocks)
PartsText(parts)   == Joined(LAMBDA p : TextAt(p, "text"), parts)

\* What a message says: anthropicTextExtractor and openaiTextExtractor, and
\* their counterparts for a Gemini content and an item of the Responses API.
MessageText(m) == IF IsText(m, "content") THEN m.content.str ELSE BlocksText(Elements(m, "content"))
ItemText(item) == IF IsText(item, "content") THEN item.content.str ELSE PartsText(Elements(item, "content"))
ContentText(c) == PartsText(Elements(c, "parts"))

\* A content with a text part speaks, whatever is in it.  Its role defaults to
\* "user".
Speaks(c)   == \E i \in DOMAIN Elements(c, "parts") : IsText(c.parts.arr[i], "text")
GeminiRole(c) == IF Label(c, "role") = "" THEN "user" ELSE c.role

\* The text of the last element that Says something, "" if none does.
LastOf(s, Says(_), TextOf(_)) ==
    LET i == SelectLastInSeq(s, Says)
    IN IF i = 0 THEN <<>> ELSE TextOf(s[i])

GeminiQuery(doc) == LastOf(Elements(doc, "contents"), LAMBDA c : GeminiRole(c) = "user" /\ Speaks(c), ContentText)

\* The last thing the user said.
ExtractUserQuery(doc, format) ==
    CASE format \in {"anthropic", "openai"} ->
           LastOf(Elements(doc, "messages"), LAMBDA m : Label(m, "role") = "user" /\ MessageText(m) # <<>>, MessageText)
      [] format = "gemini" -> GeminiQuery(doc)
      [] format = "gemini-cloudcode" -> GeminiQuery(Member(doc, "request"))
      [] format = "openai-responses" ->
           IF IsText(doc, "input") THEN doc.input.str
           ELSE LastOf(Elements(doc, "input"), LAMBDA o : Label(o, "role") = "user" /\ ItemText(o) # <<>>, ItemText)
      [] OTHER -> <<>>

\* The last turns elements that Say something, each after its role.
Recent(s, turns, Says(_), RoleOf(_), TextOf(_)) ==
    LET spoken == SelectSeq(s, Says)
    IN Joined(LAMBDA m : <<RoleOf(m)>> \o TextOf(m),
              SubSeq(spoken, Max({1, Len(spoken) - turns + 1}), Len(spoken)))

RoleLabel(m) == Label(m, "role")
RecentGemini(doc, turns) ==
    Recent(Elements(doc, "contents"), turns,
           LAMBDA c : GeminiRole(c) \in {"user", "model", "assistant"} /\ Speaks(c), GeminiRole, ContentText)

\* The recall query when no turn of the user says anything.
ExtractRecentContext(doc, format, turns) ==
    CASE format \in {"anthropic", "openai"} ->
           Recent(Elements(doc, "messages"), turns,
                  LAMBDA m : Label(m, "role") \in {"user", "assistant", "model"} /\ MessageText(m) # <<>>,
                  RoleLabel, MessageText)
      [] format = "gemini" -> RecentGemini(doc, turns)
      [] format = "gemini-cloudcode" -> RecentGemini(Member(doc, "request"), turns)
      [] format = "openai-responses" ->
           IF IsText(doc, "input") THEN <<"user">> \o doc.input.str
           ELSE Recent(Elements(doc, "input"), turns,
                       LAMBDA o : Label(o, "role") \in {"user", "assistant"} /\ ItemText(o) # <<>>,
                       RoleLabel, ItemText)
      [] OTHER -> <<>>

----------------------------------------------------------------------------
UnwrapCloudCodeResponse(doc) ==
    IF Has(Member(doc, "response"), "candidates") THEN doc.response ELSE doc

\* The names of the tools a response calls stand for its summary of them,
\* "[Read main.go]", with the most telling argument of an Anthropic call.
Name(o) == IF Label(o, "name") = "" THEN <<>> ELSE <<o.name>>
NameIf(o, type) == IF Label(o, "type") = type THEN Name(o) ELSE <<>>
ToolInputKey(input) ==
    LET keys == SelectSeq(<<"file_path", "command", "pattern", "query", "url", "path">>,
                          LAMBDA k : TextAt(input, k) # <<>>)
    IN IF keys = <<>> THEN <<>> ELSE TextAt(input, Head(keys))
ToolUseSummary(blocks) ==
    Joined(LAMBDA b : IF Label(b, "type") # "tool_use" \/ Name(b) = <<>> THEN <<>>
                      ELSE Name(b) \o TruncateText(ToolInputKey(Member(b, "input")), MaxToolArgRunes), blocks)
OpenAIToolCallSummary(msg) == Joined(LAMBDA t : Name(Member(t, "function")), Elements(msg, "tool_calls"))

JoinParts(text, tools) == Trim(text) \o Trim(tools)

FirstSaid(texts) ==
    LET i == SelectInSeq(texts, LAMBDA t : t # <<>>)
    IN IF i = 0 THEN <<>> ELSE texts[i]

ChoiceText(c) ==
    LET msg == IF Has(c, "message") THEN c.message ELSE Member(c, "delta")
    IN JoinParts(TextAt(msg, "content"), OpenAIToolCallSummary(msg))
OutputText(output) ==
    JoinParts(Joined(LAMBDA o : IF Label(o, "type") = "message" THEN PartsText(Elements(o, "content")) ELSE <<>>, output),
              Joined(LAMBDA o : NameIf(o, "function_call"), output))
CandidateText(c) ==
    LET parts == Elements(Member(c, "content"), "parts")
    IN JoinParts(PartsText(parts), Joined(LAMBDA p : Name(Member(p, "functionCall")), parts))

\* What the assistant said and the tools it called, of a whole response.
ExtractAssistantText(body) ==
    LET doc == UnwrapCloudCodeResponse(body)
        Each(F(_), k) == [i \in DOMAIN Elements(doc, k) |-> F(doc[k].arr[i])]
    IN IF IsArray(doc, "content")
       THEN JoinParts(BlocksText(doc.content.arr), ToolUseSummary(doc.content.arr))
       ELSE FirstSaid(Each(ChoiceText, "choices")
                      \o <<OutputText(Elements(doc, "output"))>>
                      \o Each(CandidateText, "candidates"))

----------------------------------------------------------------------------
First(o, k) == IF Elements(o, k) = <<>> THEN Nothing ELSE Head(o[k].arr)

\* The text and the tool that one event of a streamed response carries: the
\* first of the four forms it has decides.
ExtractSSEDelta(event) ==
    LET doc == UnwrapCloudCodeResponse(event)
    IN IF Label(doc, "type") = "content_block_delta" THEN TextAt(Member(doc, "delta"), "text")
       ELSE IF Label(doc, "type") = "response.output_text.delta" THEN TextAt(doc, "delta")
       ELSE IF Elements(doc, "choices") # <<>> THEN TextAt(Member(First(doc, "choices"), "delta"), "content")
       ELSE TextAt(First(Member(First(doc, "candidates"), "content"), "parts"), "text")

ExtractSSEToolName(event) ==
    LET doc == UnwrapCloudCodeResponse(event)
        parts == Elements(Member(First(doc, "candidates"), "content"), "parts")
    IN IF Label(doc, "type") = "content_block_start" THEN NameIf(Member(doc, "content_block"), "tool_use")
       ELSE IF Label(doc, "type") = "response.output_item.added" THEN NameIf(Member(doc, "item"), "function_call")
       ELSE IF Elements(doc, "choices") # <<>>
            THEN Name(Member(First(Member(First(doc, "choices"), "delta"), "tool_calls"), "function"))
       ELSE FirstSaid([i \in DOMAIN parts |-> Name(Member(parts[i], "functionCall"))])
=============================================================================
