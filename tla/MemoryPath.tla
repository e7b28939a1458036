----------------------------- MODULE MemoryPath -----------------------------
(***************************************************************************)
(* What becomes of the words of one exchange.  A request passes one sidecar*)
(* or, from a session started inside a session, several.  Each puts the    *)
(* memories it recalls into the request; the upstream answers in one body  *)
(* or in a stream; then each stores what the agent and the model said.     *)
(*                                                                         *)
(* When a recall is due and which memories it yields are the subject of    *)
(* Injector and Selection; here every outcome of theirs is an input.       *)
(***************************************************************************)
EXTENDS ContextBlock, CaptureFilter, EventStream, Conversation

CONSTANTS
    Scenes,    \* conversation, recalls of the sidecars it passes, and answer
    ToolNames, \* the tools that are not MuninnDB's
    Noise,     \* the words that begin an agent's own housekeeping
    MaxQueryRunes, ConceptRunesBoth, ConceptRunesSingle, AssistantRunesPreview, SideRunesBody

\* What is recalled could be written into one text: an int holds its size.
ASSUME SceneAssumption ==
    \A s \in Scenes :
       /\ s.answer.kind = "stream" => IsStream(s.answer.units)
       /\ \A h \in 1..Len(s.recalls) :
             LET found == s.recalls[h]
             IN /\ found.memories \in Seq([concept : Seq(STRING), content : Seq(STRING), score : STRING])
                /\ found.budget \in Nat
                /\ ContextOverheadBytes + TotalBytes(found.memories) <= MaxInt

VARIABLES
    scene,
    bodies,    \* the request as each sidecar got it, and as the last sent it
    recalls,   \* of each sidecar: the query it sent and the block it formatted
    once, closed,  \* the stream's capture is done; its body is closed
    captured,  \* the response bodies handed to the store
    stored     \* what each sidecar stored

exchange == <<scene, bodies, recalls, once, closed, captured, stored>>
stream == <<coming, capture>>
pathVars == <<exchange, stream>>

Streamed == scene.answer.kind = "stream"
Sidecars == Len(scene.recalls)
Answering == Len(bodies) = Sidecars + 1 /\ captured = <<>>

PathInit ==
    /\ scene \in Scenes
    /\ bodies = <<Render(scene.conv)>>
    /\ recalls = <<>> /\ once = FALSE /\ closed = FALSE /\ captured = <<>> /\ stored = <<>>
    /\ StreamInit(IF Streamed THEN scene.answer.units ELSE <<>>)

----------------------------------------------------------------------------
\* Enrich.  The query is the user's last turn, the last few turns if that says
\* nothing, redacted before it is cut.
MaxRecallFallbackTurns == 3
UserQuery(doc, format) ==
    LET query == StripSystemReminders(ExtractUserQuery(doc, format))
    IN IF query # <<>> THEN query
       ELSE StripSystemReminders(ExtractRecentContext(doc, format, MaxRecallFallbackTurns))
Query(doc, format) == TruncateQuery(Redact(UserQuery(doc, format)), MaxQueryRunes)

\* The block with the session's context before it.
WithSession(session, block) ==
    Trim(IF session = <<>> THEN block ELSE session \o <<"\n">> \o block)

NotAsked == [query |-> <<>>, memories |-> <<>>, budget |-> 0, block |-> [text |-> <<>>, tokens |-> 0, dropped |-> 0]]

EnrichRequest ==
    /\ Len(bodies) <= Sidecars
    /\ LET doc == Last(bodies)
           format == DetectFormat(doc)
           found == scene.recalls[Len(bodies)]
           block == FormatContextBlock(found.memories, found.budget)
           text == WithSession(SessionContext(ParseWhereLeftOff(found.leftOff), ParseGuide(found.guide)), block.text)
           asked == format # "" /\ UserQuery(doc, format) # <<>>
       IN /\ bodies' = Append(bodies, IF asked /\ text # <<>> THEN InjectContext(doc, format, text) ELSE doc)
          /\ recalls' = Append(recalls,
                IF asked THEN [query |-> Query(doc, format), memories |-> found.memories,
                               budget |-> found.budget, block |-> block]
                ELSE NotAsked)
    /\ UNCHANGED <<scene, once, closed, captured, stored, stream>>

----------------------------------------------------------------------------
\* captureResponse: a whole body is captured when it is read.
CaptureResponse ==
    /\ Answering /\ ~Streamed
    /\ captured' = <<scene.answer.body>>
    /\ UNCHANGED <<scene, bodies, recalls, once, closed, stored, stream>>

\* finalize: by the end of the stream and by Close, whichever is first.
Finalize ==
    IF once THEN UNCHANGED <<once, captured>>
    ELSE once' = TRUE /\ captured' = Append(captured, BuildRespBody)

ReadStream ==
    /\ Answering /\ Streamed /\ ~closed
    /\ Read
    /\ UNCHANGED exchange

ReadEOF ==
    /\ Len(bodies) = Sidecars + 1 /\ Streamed /\ ~closed /\ coming = <<>>
    /\ Finalize
    /\ UNCHANGED <<scene, bodies, recalls, closed, stored, stream>>

Close ==
    /\ Len(bodies) = Sidecars + 1 /\ Streamed /\ ~closed
    /\ closed' = TRUE
    /\ Finalize
    /\ UNCHANGED <<scene, bodies, recalls, stored, stream>>

----------------------------------------------------------------------------
\* formatAndDedup: the texts of the memory; none if there is nothing to tell or
\* the agent was keeping house.
IsNoiseContent(msg) == msg # <<>> /\ Head(msg) \in Noise
Concept(user, assistant) ==
    IF user # <<>> /\ assistant # <<>>
    THEN TruncateText(user, ConceptRunesBoth) \o <<"->">> \o TruncateText(assistant, AssistantRunesPreview)
    ELSE TruncateText(user \o assistant, ConceptRunesSingle)
Side(label, msg) == IF msg = <<>> THEN <<>> ELSE <<label>> \o TruncateText(msg, SideRunesBody)
FormatMemory(ex) ==
    LET user == Redact(StripSystemReminders(ex.userText))
        assistant == Redact(ex.assistantText)
    IN IF IsNoiseContent(user) \/ (user = <<>> /\ assistant = <<>>) THEN <<>>
       ELSE <<[concept |-> Concept(user, assistant),
               content |-> Side("User:", user) \o Side("Assistant:", assistant)]>>

\* The worker of each store prepares and formats its copy of the exchange.
StoreExchange ==
    /\ captured # <<>> /\ Len(stored) < Sidecars
    /\ LET ex == PrepareExchange([kind |-> "object", doc |-> bodies[Len(stored) + 1]], Last(captured))
       IN stored' = Append(stored, [exchange |-> ex, texts |-> FormatMemory(ex)])
    /\ UNCHANGED <<scene, bodies, recalls, once, closed, captured, stream>>

PathNext == EnrichRequest \/ CaptureResponse \/ ReadStream \/ ReadEOF \/ Close \/ StoreExchange

PathSpec == PathInit /\ [][PathNext]_pathVars

----------------------------------------------------------------------------
\* What the user said last, and the names of tools in a text.
AskedLast(c) == LastOf(c.turns, LAMBDA t : t.role = "user" /\ t.text # <<>>, LAMBDA t : t.text)
Names(tools, t) == SelectSeq(t, LAMBDA w : w \in tools)
Called(tools, t) == SelectSeq([i \in DOMAIN t.acts |-> t.acts[i].tool], LAMBDA w : w \in tools)

\* What a capture keeps of a conversation.  The calls of a Gemini one have no
\* ids to pair them by, and stay.
KeptOf(c) == IF c.format \in Gemini THEN c ELSE WithoutTools(Ours, c)

\* What is stored is what the agent and the model said.  However many sidecars a
\* request passed, their blocks are gone from it and nothing else is, the traffic
\* of MuninnDB's tools excepted; each of them asked the store the same question,
\* free of secrets; the memory begins with the user's last words, and the answer
\* it is made of with the assistant's, followed by the tools it called.
RequestIsTheAgents ==
    \A h \in DOMAIN bodies : Normal(CleanRequest([kind |-> "object", doc |-> bodies[h]])) = Normal(Render(KeptOf(scene.conv)))
SameQuestion ==
    \A h \in DOMAIN recalls : recalls[h].query = recalls[1].query /\ Range(recalls[h].query) \cap Secrets = {}
NoUsage == [in |-> 0, out |-> 0, cache |-> 0]
AnswerIsTheModels(ex) ==
    LET hidden == IF scene.conv.format \in Gemini THEN {} ELSE Ours
    IN CASE scene.answer.kind = "turn" ->
              LET t == scene.answer.turn
              IN /\ IsPrefix(Trim(t.text), ex.assistantText)
                 /\ Names(ToolNames \cup Ours, ex.assistantText) = Called((ToolNames \cup Ours) \ hidden, t)
                 /\ ex.usage = IF scene.conv.format \in Gemini THEN NoUsage ELSE [in |-> 2, out |-> 1, cache |-> 0]
         [] scene.answer.kind = "other" -> ex.assistantText = <<>>
         [] scene.answer.kind = "stream" -> Names(Ours, ex.assistantText) = <<>>
MemoryIsOf(m) ==
    LET user == Redact(StripSystemReminders(AskedLast(scene.conv)))
    IN \A i \in DOMAIN m.texts :
          /\ user # <<>> => IsPrefix(<<"User:">> \o TruncateText(user, SideRunesBody), m.texts[i].content)
          /\ Range(m.texts[i].content \o m.texts[i].concept) \cap Secrets = {}
CaptureIsTheAgents ==
    /\ RequestIsTheAgents
    /\ SameQuestion
    /\ \A h \in DOMAIN stored : AnswerIsTheModels(stored[h].exchange) /\ MemoryIsOf(stored[h])

\* The block as it is written is as large as it was estimated, and that is no
\* more than the budget unless it is the first memory with nothing of its content
\* left; its memories are the first of those recalled, as many as fit.
Sized(r) ==
    LET n == Len(r.memories) - r.block.dropped
        size == Bytes(r.block.text)
        entries == Joined(Entry, SubSeq(r.memories, 1, n))
        bare == [Head(r.memories) EXCEPT !.content = <<>>]
    IN IF n = 0 THEN r.memories = <<>> /\ r.block.text = <<>>
       ELSE /\ r.block.tokens = Max({1, size \div CharPerToken})
            /\ size <= BudgetBytes(r.budget) \/ (n = 1 /\ r.block.text = Opening \o Entry(bare) \o Closing)
            /\ r.block.text = Opening \o entries \o Closing
               \/ (n = 1 /\ Bytes(Opening \o entries \o Closing) > r.budget * CharPerToken)
            /\ n < Len(r.memories) =>
                  Bytes(Opening \o Joined(Entry, SubSeq(r.memories, 1, n + 1)) \o Closing) > r.budget * CharPerToken
BlockFitsItsBudget == \A h \in DOMAIN recalls : Sized(recalls[h])

\* A streamed answer is put together alike wherever its chunks were cut: of the
\* complete lines read, those short enough count, in order and up to the caps, and
\* the rest do not.  Only of a line that is at the limit with its carriage return
\* does the cut decide; only after a line beyond it, what passes for the last
\* payload.  The stream is captured once, by its end or by its close.
StartOf(units, i) == Max({0} \cup {j \in 1..(i - 1) : units[j] = NewLine}) + 1
LinesOf(units) ==
    FlattenSeq([i \in DOMAIN units |->
        IF units[i] = NewLine THEN <<SubSeq(units, StartOf(units, i), i - 1)>> ELSE <<>>])
Bare(line) == IF line # <<>> /\ Last(line) = Return THEN Front(line) ELSE line
Payloads(lines) == Joined(LAMBDA l : IF HasPayload(Bare(l)) THEN <<Bare(l)>> ELSE <<>>, lines)
\* The text is cut delta by delta: what the end of a character leaves of the
\* room, a later delta may fill.
Accumulated(payloads) ==
    LET upTo[i \in 0..Len(payloads)] ==
          IF i = 0 THEN <<>>
          ELSE upTo[i - 1] \o Clamp(ExtractSSEDelta(DocOfLine(payloads[i])), MaxTextAccum - Bytes(upTo[i - 1]))
    IN upTo[Len(payloads)]
FirstOf(t, n) == SubSeq(t, 1, Min({Len(t), n}))
AnswerIndependentOfChunks ==
    Streamed =>
      LET units == scene.answer.units
          lines == LinesOf(SubSeq(units, 1, Len(units) - Len(coming)))
          Says(counted) ==
             LET payloads == Payloads(counted)
             IN /\ textAccum = Accumulated(payloads)
                /\ toolNames = FirstOf(Joined(LAMBDA l : ExtractSSEToolName(DocOfLine(l)), payloads), MaxToolNames)
          mentions == Joined(LAMBDA l : IF MentionsUsage(l) THEN <<l>> ELSE <<>>, Payloads(lines))
          atLimit == {j \in DOMAIN lines : Len(lines[j]) > MaxStreamBuf /\ Len(Bare(lines[j])) <= MaxStreamBuf}
      IN /\ \E kept \in SUBSET atLimit :
               Says(FlattenSeq([j \in DOMAIN lines |->
                    IF Len(lines[j]) <= MaxStreamBuf \/ j \in kept THEN <<lines[j]>> ELSE <<>>]))
         /\ (\A j \in DOMAIN lines : Len(lines[j]) <= MaxStreamBuf) =>
               /\ lastData = IF Payloads(lines) = <<>> THEN NoData ELSE [line |-> Last(Payloads(lines))]
               /\ usageJSON = IF mentions = <<>> THEN NoData ELSE [line |-> Last(mentions)]
         /\ Len(captured) <= 1
         /\ closed => captured = <<BuildRespBody>>
=============================================================================
