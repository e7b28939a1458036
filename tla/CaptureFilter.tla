---------------------------- MODULE CaptureFilter ----------------------------
(***************************************************************************)
(* internal/proxy/filter.go and prepareExchange: what is taken out of the  *)
(* two bodies of an exchange before it becomes a memory.  The blocks msc   *)
(* injected go, and so does the traffic of MuninnDB's own tools: a call,   *)
(* the result paired with it by its id, and the tool's definition.         *)
(***************************************************************************)
EXTENDS ApiFormat

CONSTANTS
    Ours,          \* the tool names that contain one of the filter patterns
    MaxTokenCount

\* The openers carry the attribute source="muninn" that marks any block, also
\* when their bracket is escaped.
HasInjectedMarker(t) == \E i \in DOMAIN t : t[i] \in Opened \cup {"&lt;context source=muninn"}
\* Mutant of InjectedBlockStart: the last opener, which may be of a later block.
LastOpener(t) == SelectLastInSeq(t, LAMBDA w : w \in Opened)
InjectedBlockStart(t) == SelectInSeq(t, LAMBDA w : w \in Opened)

Kept(s, Keep(_)) == SelectSeq(s, Keep)
TextPartClean(part) == ~HasInjectedMarker(TextAt(part, "text"))

\* o with the array at k filtered, or without k when nothing is left of it.
\* Nothing happens to o when nothing is removed.
Filtered(o, k, Keep(_)) ==
    LET kept == Kept(Elements(o, k), Keep)
    IN IF Len(kept) = Len(Elements(o, k)) THEN o
       ELSE IF kept = <<>> THEN Delete(o, k)
       ELSE Put(o, k, Array(kept))
\* The same, with an empty array left behind.
FilteredInPlace(o, k, Keep(_)) ==
    LET kept == Kept(Elements(o, k), Keep)
    IN IF Len(kept) = Len(Elements(o, k)) THEN o ELSE Put(o, k, Array(kept))

StripSystem(doc) ==
    IF IsText(doc, "system") /\ HasInjectedMarker(doc.system.str) THEN Delete(doc, "system")
    ELSE Filtered(doc, "system", TextPartClean)

StripMessages(doc) ==
    FilteredInPlace(doc, "messages",
        LAMBDA m : ~(Label(m, "role") = "system" /\ HasInjectedMarker(TextAt(m, "content"))))

\* No part left drops the whole systemInstruction.
StripMarkedParts(container) ==
    LET si == Member(container, "systemInstruction")
        stripped == Filtered(si, "parts", TextPartClean)
    IN IF stripped = si THEN container
       ELSE IF ~Has(stripped, "parts") THEN Delete(container, "systemInstruction")
       ELSE Put(container, "systemInstruction", stripped)

\* Everything from the first opener on was appended.
StripInstructions(doc) ==
    LET t == TextAt(doc, "instructions")
        start == InjectedBlockStart(t)
        before == SubSeq(t, 1, start - 1)
        words == {i \in DOMAIN before : before[i] # "\n"}
    IN IF ~HasInjectedMarker(t) THEN doc
       ELSE IF start <= 1 \/ Trim(before) = <<>> THEN Delete(doc, "instructions")
       ELSE Put(doc, "instructions", Text(SubSeq(before, 1, Max(words))))

StripRequest(doc) ==
    IF Has(doc, "request") THEN Put(doc, "request", StripMarkedParts(doc.request)) ELSE doc

StripInjectedContextDoc(doc) ==
    StripMarkedParts(StripInstructions(StripRequest(StripMessages(StripSystem(doc)))))

----------------------------------------------------------------------------
IsOurs(o) == Label(o, "name") \in Ours
OursToolUse(b) == Label(b, "type") = "tool_use" /\ IsOurs(b)
OursCall(t) == IsOurs(Member(t, "function"))

\* The ids under k of the elements that are ours; one may have none.
IdsOf(s, k, Match(_)) == {s[i][k] : i \in {j \in DOMAIN s : Has(s[j], k) /\ Match(s[j])}}

CollectMatchingToolIDs(messages) ==
    UNION {IdsOf(Elements(messages[i], "content"), "id", OursToolUse)
           \cup IdsOf(Elements(messages[i], "tool_calls"), "id", OursCall) : i \in DOMAIN messages}

\* The blocks that are not ours by name, and the calls and results whose id is
\* not of one that is.
FilterContentBlocks(content, removedIDs) ==
    LET ids == removedIDs \cup IdsOf(content, "id", OursToolUse)
    IN Kept(content, LAMBDA b :
            /\ ~OursToolUse(b)
            /\ ~(Label(b, "type") = "tool_use" /\ Label(b, "id") \in ids \ {""})
            /\ ~(Label(b, "type") = "tool_result" /\ Label(b, "tool_use_id") \in ids))

FilterOpenAIToolCalls(msg) == Filtered(msg, "tool_calls", LAMBDA t : ~OursCall(t))

\* A message of the history without ours, or none.
FilterMessage(m, removedIDs) ==
    LET content == FilterContentBlocks(Elements(m, "content"), removedIDs)
        rest == IF IsArray(m, "content") THEN Put(m, "content", Array(content)) ELSE m
        calls == FilterOpenAIToolCalls(rest)
    IN IF \/ Label(m, "role") = "tool" /\ Label(m, "tool_call_id") \in removedIDs
          \/ IsArray(m, "content") /\ content = <<>>
          \/ calls # rest /\ Absent(calls, "content") /\ ~Has(calls, "tool_calls")
       THEN <<>>
       ELSE <<calls>>

FilterMessages(doc) ==
    LET removedIDs == CollectMatchingToolIDs(Elements(doc, "messages"))
    IN IF removedIDs = {} THEN doc
       ELSE Put(doc, "messages", Array(Joined(LAMBDA m : FilterMessage(m, removedIDs), doc.messages.arr)))

FilterResponseContent(doc) ==
    IF IsArray(doc, "content") THEN Put(doc, "content", Array(FilterContentBlocks(doc.content.arr, {}))) ELSE doc

FilterChoices(doc) ==
    LET Choice(c) == <<IF Has(c, "message") THEN Put(c, "message", FilterOpenAIToolCalls(c.message)) ELSE c>>
    IN IF IsArray(doc, "choices") THEN Put(doc, "choices", Array(Joined(Choice, doc.choices.arr))) ELSE doc

OursItem(item) == Label(item, "type") = "function_call" /\ IsOurs(item)
FilterOutput(doc) == FilteredInPlace(doc, "output", LAMBDA o : ~OursItem(o))
FilterInput(doc) ==
    LET removedIDs == IdsOf(Elements(doc, "input"), "call_id", OursItem)
    IN FilteredInPlace(doc, "input",
           LAMBDA o : ~(Label(o, "type") \in {"function_call", "function_call_output"} /\ Label(o, "call_id") \in removedIDs))

ToolDefName(t) == IF Label(t, "name") = "" THEN Label(Member(t, "function"), "name") ELSE t.name
FilterToolDefs(doc) == FilteredInPlace(doc, "tools", LAMBDA t : ToolDefName(t) \notin Ours)

FilterMCPToolsDoc(doc) ==
    FilterToolDefs(FilterInput(FilterOutput(FilterChoices(FilterResponseContent(FilterMessages(doc))))))

----------------------------------------------------------------------------
\* A body is a parsed object, other JSON (null is one), or no JSON at all, which
\* is stored as a string.  Only an object has anything to take out or to read.
NoDoc == Nothing
SanitizeJSON(body) == IF body.kind \in {"none", "text"} THEN [kind |-> "json"] ELSE body
DocOf(body) == IF body.kind = "object" THEN body.doc ELSE NoDoc
CleanRequest(body)  == FilterMCPToolsDoc(StripInjectedContextDoc(DocOf(body)))
CleanResponse(body) == FilterMCPToolsDoc(DocOf(body))

\* The counters of a response.  A number no real response has counts nothing;
\* an absent one leaves what another format's field said.
TokenCount(n) == IF n <= 0 \/ n >= MaxTokenCount THEN 0 ELSE n
UsageNumber(u, k, else) == IF Has(u, k) THEN TokenCount(u[k]) ELSE else
ReadUsage(doc) ==
    LET u == Member(doc, "usage")
        g == Member(doc, "usageMetadata")
    IN [in |-> UsageNumber(g, "promptTokenCount", UsageNumber(u, "input_tokens", UsageNumber(u, "prompt_tokens", 0))),
        out |-> UsageNumber(g, "candidatesTokenCount", UsageNumber(u, "output_tokens", UsageNumber(u, "completion_tokens", 0))),
        cache |-> UsageNumber(u, "cache_creation_input_tokens", 0) + UsageNumber(u, "cache_read_input_tokens", 0)]

\* The exchange as the store gets it.  A body without a document has no text.
PrepareExchange(reqBody, respBody) ==
    LET req == CleanRequest(reqBody)
        resp == CleanResponse(SanitizeJSON(respBody))
    IN [request |-> req, usage |-> ReadUsage(resp),
        userText |-> ExtractUserQuery(req, DetectFormat(req)),
        assistantText |-> ExtractAssistantText(resp)]
=============================================================================
