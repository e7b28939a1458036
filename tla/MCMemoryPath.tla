---------------------------- MODULE MCMemoryPath ----------------------------
(***************************************************************************)
(* Small instances of MemoryPath and FrameAssembler: an exchange over HTTP,*)
(* or one direction of an upgraded connection.                             *)
(***************************************************************************)
EXTENDS MemoryPath, FrameAssembler

\* Words have one byte, the rest two or more.  A secret is shorter than what
\* replaces it, and an escaped marker longer than the marker.
MCWide == [w \in Opened |-> 4] @@ [w \in Closed |-> 4]
          @@ ("&lt;context source=muninn" :> 7) @@ ("&lt;context" :> 5)
          @@ ("notice" :> 3) @@ ("] (relevance: " :> 3) @@ (")\n" :> 2) @@ ("0.9" :> 2)
          @@ ("[REDACTED]" :> 4) @@ ("sk-1" :> 2) @@ ("eacute" :> 2) @@ ("..." :> 3)
MCRunes == {"eacute"}

\* The events of the streams: of each format a text, a tool call and the usage,
\* and lines that are no payload, no JSON or too long.
Delta(d) == [choices |-> Array(<<[delta |-> d]>>)]
Candidate(part) == [candidates |-> Array(<<[content |-> [parts |-> Array(<<part>>)]]>>)]
MCEventDoc ==
    [a_text |-> [type |-> "content_block_delta", delta |-> [text |-> Text(<<"t1">>)]],
     a_ours |-> [type |-> "content_block_start", content_block |-> [type |-> "tool_use", name |-> "muninn_recall"]],
     a_tool |-> [type |-> "content_block_start", content_block |-> [type |-> "tool_use", name |-> "Read"]],
     a_start |-> [type |-> "message_start", message |-> [usage |-> [input_tokens |-> 3]]],
     a_usage |-> [type |-> "message_delta", usage |-> [output_tokens |-> 2]],
     o_text |-> Delta([content |-> Text(<<"t2">>)]),
     o_tool |-> Delta([tool_calls |-> Array(<<[function |-> [name |-> "Read"]]>>)]),
     r_text |-> [type |-> "response.output_text.delta", delta |-> Text(<<"t3", "t4">>)],
     r_tool |-> [type |-> "response.output_item.added", item |-> [type |-> "function_call", name |-> "Read"]],
     r_done |-> [type |-> "response.completed", response |-> [usage |-> [output_tokens |-> 4]]],
     r_rune |-> [type |-> "response.output_text.delta", delta |-> Text(<<"eacute", "t6">>)],
     g_text |-> [response |-> Candidate([text |-> Text(<<"t5">>)])],
     g_tool |-> Candidate([functionCall |-> [name |-> "muninn_recall"]]),
     g_usage |-> [usageMetadata |-> [promptTokenCount |-> 5]],
     long   |-> [type |-> "content_block_delta", delta |-> [text |-> Text(<<"lost">>)]],
     plain  |-> Nothing,
     event  |-> Nothing,
     done   |-> Nothing]
MCLineLen == [e \in DOMAIN MCEventDoc |-> IF e = "long" THEN 6 ELSE IF e \in {"a_text", "o_text"} THEN 4 ELSE 2]
MCControl == {"event", "done"}
MCOpensObject == {[ev |-> "long", at |-> 6]}

Lf(e)   == Line(e) \o <<NewLine>>
CrLf(e) == Line(e) \o <<Return, NewLine>>
MCStreams ==
    {CrLf("event") \o Lf("a_start") \o Lf("a_text") \o Lf("a_tool") \o Lf("a_usage") \o Line("a_text"),
     Lf("a_ours") \o Lf("a_tool") \o Lf("done"),
     CrLf("a_text") \o Lf("a_text") \o Lf("a_text"),
     Lf("long") \o Lf("o_text") \o Lf("long"),
     Lf("o_text") \o CrLf("o_tool") \o Lf("o_tool") \o Lf("o_tool") \o Lf("done"),
     CrLf("r_text") \o Lf("r_text") \o Lf("r_tool") \o Lf("r_done"),
     Lf("r_text") \o Lf("r_rune") \o Lf("a_text") \o Lf("a_text"),
     Lf("g_text") \o Lf("g_tool") \o Lf("g_usage"),
     Lf("plain") \o Lf("event"), Lf("a_start") \o Lf("long"), Lf("event"), <<>>}

----------------------------------------------------------------------------
Fix == <<"fix", "bug">>
Reminder == <<"<system-reminder>", "ctx", "</system-reminder>">>
User(text, blocks) == [role |-> "user", text |-> text, blocks |-> blocks, acts |-> <<>>]
Assistant(text, acts) == [role |-> "assistant", text |-> text, blocks |-> acts # <<>>, acts |-> acts]
Results(text, acts) == [User(text, TRUE) EXCEPT !.acts = acts]
Recall == [id |-> "c1", tool |-> "muninn_recall"]
File   == [id |-> "c2", tool |-> "Read"]

AskTexts == {Fix, Reminder, Reminder \o Fix, <<"sk-1", " ", "fix", "it">>, <<"continued", "here">>,
             <<"see", "<retrieved-context>", "</retrieved-context>">>}
MCTurns ==
    {<<User(x, b)>> : x \in AskTexts, b \in BOOLEAN}
    \cup {<<User(Fix, FALSE), Assistant(say, acts), Results(more, acts)>> :
            say \in {<<>>, <<"ok">>}, acts \in {<<Recall>>, <<File>>, <<Recall, File>>}, more \in {<<>>, <<"go">>}}
    \cup {<<User(Fix, FALSE), Assistant(<<"ok">>, <<>>), User(<<"and">>, TRUE), User(Reminder, FALSE)>>}

Prompts == {[shape |-> s, text |-> <<"be", "kind">>] : s \in {"none", "null", "text", "list", "other"}}
Conv(format, prompt, turns, tools) == [format |-> format, system |-> prompt, turns |-> turns, tools |-> tools]

Prose(t) == [kind |-> "prose", text |-> t, memories |-> <<>>]
LeftOff(memories) == [kind |-> "memories", text |-> <<>>, memories |-> memories]
Silent == LeftOff(<<>>)
Mem(concept, content) == [concept |-> concept, content |-> content, score |-> "0.9"]
Found(memories, budget, leftOff, guide) ==
    [memories |-> memories, budget |-> budget, leftOff |-> leftOff, guide |-> guide]

One == <<Mem(<<"<session-context>">>, <<"w">>)>>
Both == Found(One, 20, LeftOff(<<[concept |-> <<>>, summary |-> <<"s">>], [concept |-> <<"</session-context>">>, summary |-> <<>>],
                                [concept |-> <<"c">>, summary |-> <<>>]>>), <<"guide">>)
Talk == Found(<<>>, 20, Prose(<<"sk-1", "<retrieved-context>">>), <<" ">>)
OnlyBlock == Found(One, 20, Silent, <<>>)
Odd == Found(<<>>, 20, [Silent EXCEPT !.kind = "other"], <<>>)
MCRecalls == {<<Both>>, <<Odd>>, <<Talk, OnlyBlock>>, <<Both, Both>>}

Whole(format, turn) == [kind |-> "turn", turn |-> turn, body |-> [kind |-> "object", doc |-> RenderAnswer(format, turn)]]
Scene(conv, recs, answer) == [conv |-> conv, recalls |-> recs, answer |-> answer]

Done == Assistant(<<"done", " ">>, <<Recall, File>>)
Plainly == Conv("anthropic", [shape |-> "none", text |-> <<>>], <<User(Fix, TRUE)>>, <<>>)

Conversations ==
    {Scene(Conv(f, p, t, tools), r, Whole(f, Done)) :
        f \in Formats, p \in Prompts, t \in MCTurns, tools \in {<<"Read", "muninn_recall">>}, r \in MCRecalls}
Unknown == {Scene(Conv("unknown", [shape |-> "none", text |-> <<>>], <<>>, <<>>), <<Both>>, [kind |-> "other", body |-> [kind |-> "text"]])}
Answers ==
    {Scene([Plainly EXCEPT !.format = f], <<OnlyBlock>>, Whole(f, Assistant(say, acts))) :
        f \in Formats, say \in {<<>>, <<"done", "sk-1">>}, acts \in {<<>>, <<Recall>>, <<File>>, <<Recall, File>>}}
    \cup {Scene(Plainly, <<OnlyBlock>>, [kind |-> "other", body |-> [kind |-> k]]) : k \in {"none", "text", "json"}}
    \cup {Scene(Plainly, <<OnlyBlock>>, [kind |-> "stream", units |-> u]) : u \in MCStreams}

Contents == {<<>>, <<"w", "w", "w", " ", "w", "w">>, <<"<retrieved-context>", "w", "</retrieved-context>">>,
             <<"sk-1", "eacute", "sk-1", "eacute">>}
Memories == {Mem(concept, content) : concept \in {<<"c">>, <<"<global-guide>">>}, content \in Contents}
Budgets ==
    {Scene(Plainly, <<Found(ms, b, Silent, <<>>)>>, Whole("anthropic", Done)) :
        ms \in {<<m>> : m \in Memories} \cup {<<m, n>> : m \in Memories, n \in Memories}, b \in 1..14 \cup {30}}

MCFragmentings == {<<1>>, <<2>>, <<1, 1>>, <<1, 2>>, <<3>>}
Upgraded == Scene(Plainly, <<>>, [kind |-> "upgraded"])
MCScenes == Conversations \cup Unknown \cup Answers \cup Budgets \cup {Upgraded}

Init == PathInit /\ FrameInit /\ (deflate => scene = Upgraded)
Next == \/ scene # Upgraded /\ PathNext /\ UNCHANGED frameVars
        \/ scene = Upgraded /\ FrameNext /\ UNCHANGED pathVars
Spec == Init /\ [][Next]_<<pathVars, frameVars>>
=============================================================================
