---------------------------- MODULE Conversation ----------------------------
(***************************************************************************)
(* What an agent sends and is answered, before it is any API's JSON: the   *)
(* turns of a conversation, and how an agent's library writes them down in *)
(* each of the formats.  None of this is code of msc.                      *)
(*                                                                         *)
(* A turn has a text, in content blocks or plain, and acts: the tools an   *)
(* assistant calls, or those whose results a user's turn brings.  An act   *)
(* is [id, tool].                                                          *)
(***************************************************************************)
EXTENDS Document

Formats == {"anthropic", "openai", "openai-responses", "gemini", "gemini-cloudcode"}
Gemini  == {"gemini", "gemini-cloudcode"}

Said(type, t) == IF t.text = <<>> THEN <<>> ELSE <<[type |-> type, text |-> Text(t.text)]>>
Acts(F(_), t) == [i \in DOMAIN t.acts |-> F(t.acts[i])]
Content(type, t) == IF t.blocks THEN Array(Said(type, t)) ELSE Text(t.text)

ToolUse(a)    == [type |-> "tool_use", id |-> a.id, name |-> a.tool, input |-> [file_path |-> Text(<<"arg">>)]]
ToolResult(a) == [type |-> "tool_result", tool_use_id |-> a.id]
ToolCall(a)   == [id |-> a.id, function |-> [name |-> a.tool]]
CallItem(a)   == [type |-> "function_call", call_id |-> a.id, name |-> a.tool]
CallOutput(a) == [type |-> "function_call_output", call_id |-> a.id]
CallPart(a)     == [functionCall |-> [name |-> a.tool]]
ResponsePart(a) == [functionResponse |-> [name |-> a.tool]]

AnthropicTurn(t) ==
    <<[role |-> t.role,
       content |-> IF t.acts = <<>> THEN Content("text", t)
                   ELSE IF t.role = "user" THEN Array(Acts(ToolResult, t) \o Said("text", t))
                   ELSE Array(Said("text", t) \o Acts(ToolUse, t))]>>

OpenAITurn(t) ==
    LET said == [role |-> t.role, content |-> IF t.text = <<>> THEN Null ELSE Content("text", t)]
    IN IF t.role = "user"
       THEN [i \in DOMAIN t.acts |-> [role |-> "tool", tool_call_id |-> t.acts[i].id, content |-> Text(<<"out">>)]]
            \o (IF t.text = <<>> THEN <<>> ELSE <<said>>)
       ELSE <<IF t.acts = <<>> THEN said ELSE Put(said, "tool_calls", Array(Acts(ToolCall, t)))>>

ResponsesTurn(t) ==
    (IF t.role = "user" THEN Acts(CallOutput, t) ELSE <<>>)
    \o (IF t.text = <<>> THEN <<>> ELSE <<[type |-> "message", role |-> t.role, content |-> Content("input_text", t)]>>)
    \o (IF t.role = "user" THEN <<>> ELSE Acts(CallItem, t))

\* A user's content may go without its role.
GeminiTurn(t) ==
    LET parts == IF t.role = "user" THEN Acts(ResponsePart, t) \o Said("", t) ELSE Said("", t) \o Acts(CallPart, t)
        content == [parts |-> Array([i \in DOMAIN parts |-> Delete(parts[i], "type")])]
    IN <<IF t.role = "assistant" THEN Put(content, "role", "model")
         ELSE IF t.blocks THEN Put(content, "role", "user") ELSE content>>

\* The system prompt under k, in a shape of the API's or one that is not.
WithSystem(doc, k, system, ShapeOf(_)) ==
    IF system.shape = "none" THEN doc ELSE Put(doc, k, ShapeOf(system))

AnthropicSystem(s) ==
    CASE s.shape = "text" -> Text(s.text)
      [] s.shape = "list" -> Array(<<[type |-> "text", text |-> Text(s.text)]>>)
      [] s.shape = "null" -> Null
      [] OTHER -> Number
GeminiSystem(s) ==
    CASE s.shape = "text" -> [parts |-> Array(<<[text |-> Text(s.text)]>>)]
      [] s.shape = "list" -> [role |-> "user", parts |-> Array(<<>>)]
      [] s.shape = "null" -> Null
      [] OTHER -> Number
Instructions(s) ==
    CASE s.shape = "text" -> Text(s.text)
      [] s.shape = "list" -> Text(s.text \o <<"\n">>)
      [] s.shape = "null" -> Null
      [] OTHER -> Number

RenderGemini(c) ==
    WithSystem([contents |-> Array(Joined(GeminiTurn, c.turns))], "systemInstruction", c.system, GeminiSystem)

ToolDef(name) == [name |-> name]
FunctionDef(name) == [type |-> "function", function |-> [name |-> name]]
Tools(F(_), c) == Array([i \in DOMAIN c.tools |-> F(c.tools[i])])

\* The request, as the agent sends it.
Render(c) ==
    CASE c.format = "anthropic" ->
           WithSystem([messages |-> Array(Joined(AnthropicTurn, c.turns)), tools |-> Tools(ToolDef, c)],
                      "system", c.system, AnthropicSystem)
      [] c.format = "openai" ->
           [messages |-> Array((IF c.system.shape \in {"text", "list"}
                                THEN <<[role |-> "system", content |-> Text(c.system.text)]>> ELSE <<>>)
                               \o Joined(OpenAITurn, c.turns)),
            tools |-> Tools(FunctionDef, c)]
      [] c.format = "openai-responses" ->
           WithSystem([input |-> IF Len(c.turns) = 1 /\ ~Head(c.turns).blocks THEN Text(Head(c.turns).text)
                                 ELSE Array(Joined(ResponsesTurn, c.turns)),
                       tools |-> Tools(ToolDef, c)],
                      "instructions", c.system, Instructions)
      [] c.format = "gemini" -> RenderGemini(c)
      [] c.format = "gemini-cloudcode" -> [request |-> RenderGemini(c)]
      [] OTHER -> Nothing

\* The whole response to it, of one assistant's turn.
RenderAnswer(format, t) ==
    LET candidate == [content |-> [parts |-> Head(GeminiTurn(t)).parts]]
    IN CASE format = "anthropic" ->
              [content |-> Array(Said("text", t) \o Acts(ToolUse, t)), usage |-> [input_tokens |-> 2, output_tokens |-> 1]]
         [] format = "openai" ->
              [choices |-> Array(<<[message |-> Head(OpenAITurn([t EXCEPT !.blocks = FALSE]))]>>), usage |-> [prompt_tokens |-> 2, completion_tokens |-> 1]]
         [] format = "openai-responses" ->
              [output |-> Array((IF t.text = <<>> THEN <<>> ELSE <<[type |-> "message", content |-> Array(Said("output_text", t))]>>)
                                \o Acts(CallItem, t)),
               usage |-> [input_tokens |-> 2, output_tokens |-> 1]]
         [] format = "gemini" -> [candidates |-> Array(<<candidate>>)]
         [] format = "gemini-cloudcode" -> [response |-> [candidates |-> Array(<<candidate>>)]]

----------------------------------------------------------------------------
\* The conversation without the tools of a set: what they were called for and
\* answered is gone, and so is a turn that had nothing else.
WithoutActs(tools, t) == [t EXCEPT !.acts = SelectSeq(@, LAMBDA a : a.tool \notin tools)]
WithoutTools(tools, c) ==
    [c EXCEPT !.turns = Joined(LAMBDA t : IF t.acts # <<>> /\ WithoutActs(tools, t).acts = <<>> /\ t.text = <<>> THEN <<>>
                                         ELSE <<WithoutActs(tools, t)>>, @),
              !.tools = SelectSeq(@, LAMBDA name : name \notin tools)]

\* Two requests say the same if they differ only in how they are written: a
\* system prompt that is absent, null, empty or without parts; one that is plain
\* or a list of one; an input that is plain or a list of one.
Without(o, k, Empty(_)) == IF Has(o, k) /\ Empty(o[k]) THEN Delete(o, k) ELSE o
Rewritten(o, k, F(_)) == IF IsText(o, k) THEN Put(o, k, F(o[k])) ELSE o
NoPrompt(v) == v = Null
NoParts(v)  == v = Null \/ (IsObject(v) /\ Elements(v, "parts") = <<>>)
NoWords(v)  == v = Null \/ ("str" \in DOMAIN v /\ Trim(v.str) = <<>>)
Listed(v)   == Array(<<[type |-> "text", text |-> v]>>)
Item(v)     == Array(<<[type |-> "message", role |-> "user", content |-> v]>>)
Trimmed(v)  == Text(SubSeq(v.str, 1, Max({i \in DOMAIN v.str : v.str[i] # "\n"})))
Normal(doc) ==
    LET inner == IF Has(doc, "request") THEN Put(doc, "request", Without(doc.request, "systemInstruction", NoParts)) ELSE doc
        bare == Without(Without(Without(inner, "system", NoPrompt), "systemInstruction", NoParts), "instructions", NoWords)
    IN Rewritten(Rewritten(Rewritten(bare, "system", Listed), "instructions", Trimmed), "input", Item)
=============================================================================
