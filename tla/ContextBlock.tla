---------------------------- MODULE ContextBlock ----------------------------
(***************************************************************************)
(* internal/inject/format.go and mcp.go: the block of retrieved context,   *)
(* packed into its budget byte by byte, and its place in a request of each *)
(* format.                                                                 *)
(***************************************************************************)
EXTENDS ApiFormat

CONSTANTS
    Wide,              \* Wide[w]: the bytes of a token that has more than one
    Runes,             \* the tokens that are one character, which no cut divides
    Secrets,           \* the tokens redact.Secrets replaces
    CharPerToken,
    MinOversizedMemoryBytes,
    MaxInt,            \* the largest int
    MaxGuideRunes, MaxWhereLeftOffEntries, MaxWhereLeftOffLabelRunes

ASSUME BlockAssumption ==
    /\ Wide \in [DOMAIN Wide -> Nat]
    /\ CharPerToken \in Nat \ {0} /\ MinOversizedMemoryBytes \in Nat /\ MaxInt \in Nat

Sum(sizes) == LET upTo[i \in 0..Len(sizes)] == IF i = 0 THEN 0 ELSE upTo[i - 1] + sizes[i] IN upTo[Len(sizes)]
Bytes(t) == Sum([i \in DOMAIN t |-> IF t[i] \in DOMAIN Wide THEN Wide[t[i]] ELSE 1])
Redact(t) == [i \in DOMAIN t |-> IF t[i] \in Secrets THEN "[REDACTED]" ELSE t[i]]
Written(t) == NeutralizeMarkers(Redact(t))

\* The first n bytes of a longer s.  What a cut leaves of a token is text the
\* patterns know no more; of a character it leaves nothing.
FirstBytes(s, n) ==
    LET k == Max({i \in 0..Len(s) : Bytes(SubSeq(s, 1, i)) <= n})
        rest == n - Bytes(SubSeq(s, 1, k))
    IN SubSeq(s, 1, k) \o (IF s[k + 1] \in Runes THEN <<>> ELSE [i \in 1..rest |-> "."])

Ellipsis == <<"...">>
BreakWindowStart(n) == n - n \div 5
TruncateToBytes(s, max) ==
    LET cut == FirstBytes(s, Max({0, max - Bytes(Ellipsis)}))
        ends == {i \in DOMAIN cut : cut[i] \in Blanks /\ Bytes(SubSeq(cut, 1, i - 1)) >= BreakWindowStart(Bytes(cut))}
    IN IF max <= 0 THEN <<>>
       ELSE IF Bytes(s) <= max THEN s
       ELSE (IF ends = {} THEN cut ELSE SubSeq(cut, 1, Max(ends) - 1)) \o Ellipsis

----------------------------------------------------------------------------
\* The block as it is written, and its size as the packing estimates it.
Opening == <<"<retrieved-context>", "\n", "notice", "\n">>
Closing == <<"</retrieved-context>">>
Entry(m) == <<"[">> \o Written(m.concept) \o <<"] (relevance: ", m.score, ")\n">> \o Written(m.content) \o <<"\n", "\n">>

ContextOverheadBytes == Bytes(<<"<retrieved-context>", "notice", "</retrieved-context>", "\n", "\n">>)
EntryFraming == Bytes(<<"[", "] (relevance: ", ")\n", "\n", "\n">>)
EntryOverhead(m) == EntryFraming + Bytes(<<m.score>>)
ConceptBytes(m) == Bytes(Written(m.concept))
\* Mutant of ContentBytes: what was recalled, not what is written of it.
RecalledBytes(m) == Bytes(m.content)
ContentBytes(m) == Bytes(Written(m.content))
EntryBytes(m) == ConceptBytes(m) + ContentBytes(m) + EntryOverhead(m)
TotalBytes(memories) == Sum([i \in DOMAIN memories |-> EntryBytes(memories[i])])

\* budget * CharPerToken, which must not wrap around.
BudgetBytes(budget) == IF budget > MaxInt \div CharPerToken THEN MaxInt ELSE budget * CharPerToken

\* The content is clipped again for as long as what is written of it is too
\* much: a clip changes what is redacted and escaped.  Every pass takes a byte of
\* the room at least, so room passes are enough; one without room leaves nothing.
Reclip(m, room, spare) ==
    LET Clipped(left, to) == [memory |-> [left EXCEPT !.content = TruncateToBytes(@, to)], room |-> to]
        pass[k \in 0..room] ==
          IF k = 0 THEN Clipped(m, room)
          ELSE LET last == pass[k - 1]
                   excess == EntryBytes(last.memory) - spare
               IN IF excess <= 0 THEN last ELSE Clipped(last.memory, last.room - excess)
    IN pass[room].memory

\* The longest prefix that fits, or the first memory clipped to what fits.
WithinBudget(memories, budget) ==
    LET spare == BudgetBytes(budget) - ContextOverheadBytes
        fitting == {n \in 1..Len(memories) : TotalBytes(SubSeq(memories, 1, n)) <= spare}
        first == Head(memories)
        room == spare - ConceptBytes(first) - EntryOverhead(first)
    IN IF memories = <<>> THEN <<>>
       ELSE IF fitting # {} THEN SubSeq(memories, 1, Max(fitting))
       ELSE <<Reclip(first, Max({room, MinOversizedMemoryBytes}), spare)>>

\* The block, its estimated tokens and how many memories did not fit.
BlockOf(kept, recalled) ==
    [text |-> IF kept = <<>> THEN <<>> ELSE Opening \o Joined(Entry, kept) \o Closing,
     tokens |-> IF kept = <<>> THEN 0
                ELSE Max({1, (ContextOverheadBytes + TotalBytes(kept)) \div CharPerToken}),
     dropped |-> recalled - Len(kept)]
FormatContextBlock(memories, budget) == BlockOf(WithinBudget(memories, budget), Len(memories))

----------------------------------------------------------------------------
\* The answers of muninn_where_left_off and muninn_guide as blocks: prose as it
\* comes, memories by their labels, JSON of another shape not at all.
SessionBlock(body) ==
    <<"<session-context>", "\n", "notice", "\n", "previous", "\n">> \o body \o <<"</session-context>">>
ParseWhereLeftOff(reply) ==
    LET label == [i \in DOMAIN reply.memories |->
                    IF reply.memories[i].concept # <<>> THEN reply.memories[i].concept ELSE reply.memories[i].summary]
        labels == SelectSeq(label, LAMBDA l : l # <<>>)
        shown == SubSeq(labels, 1, Min({Len(labels), MaxWhereLeftOffEntries}))
    IN CASE reply.kind = "prose" ->
              IF Trim(reply.text) = <<>> THEN <<>>
              ELSE SessionBlock(NeutralizeMarkers(TruncateText(Trim(reply.text), MaxGuideRunes)) \o <<"\n">>)
         [] reply.kind = "memories" ->
              IF reply.memories = <<>> THEN <<>>
              ELSE SessionBlock(Joined(LAMBDA l : NeutralizeMarkers(TruncateText(l, MaxWhereLeftOffLabelRunes)) \o <<"\n">>,
                                       shown))
         [] OTHER -> <<>>
ParseGuide(text) ==
    IF Trim(text) = <<>> THEN <<>>
    ELSE <<"<global-guide>", "\n", "notice", "\n">>
         \o NeutralizeMarkers(TruncateText(Trim(text), MaxGuideRunes)) \o <<"\n", "</global-guide>">>

\* Both together, as the first enrichment puts them before its block.
SessionContext(wlo, guide) ==
    Redact(wlo \o (IF wlo # <<>> /\ guide # <<>> THEN <<"\n">> ELSE <<>>) \o guide)

----------------------------------------------------------------------------
\* InjectContext extends the field it knows: it appends the block to the
\* system prompt, or makes one.  A field whose shape it does not know is not
\* overwritten: the request goes out as it came.
TextBlock(block) == [type |-> "text", text |-> Text(block)]

InjectAnthropic(doc, block) ==
    IF Absent(doc, "system") THEN Put(doc, "system", Array(<<TextBlock(block)>>))
    ELSE IF IsText(doc, "system") THEN Put(doc, "system", Array(<<TextBlock(doc.system.str), TextBlock(block)>>))
    ELSE IF IsArray(doc, "system") THEN Put(doc, "system", Array(Append(doc.system.arr, TextBlock(block))))
    ELSE doc

InjectOpenAI(doc, block) ==
    LET messages == Elements(doc, "messages")
        after == SelectLastInSeq(messages, LAMBDA m : Label(m, "role") = "system")
    IN IF Absent(doc, "messages") \/ IsArray(doc, "messages")
       THEN Put(doc, "messages", Array(InsertAt(messages, after + 1, [role |-> "system", content |-> Text(block)])))
       ELSE doc

InjectGemini(doc, block) ==
    LET si == Member(doc, "systemInstruction")
        part == [text |-> Text(block)]
    IN IF Absent(doc, "systemInstruction") THEN Put(doc, "systemInstruction", [parts |-> Array(<<part>>)])
       ELSE IF ~IsObject(si) \/ ~(Absent(si, "parts") \/ IsArray(si, "parts")) THEN doc
       ELSE Put(doc, "systemInstruction", Put(si, "parts", Array(Append(Elements(si, "parts"), part))))

InjectOpenAIResponses(doc, block) ==
    IF Absent(doc, "instructions") THEN Put(doc, "instructions", Text(block))
    ELSE IF IsText(doc, "instructions")
         THEN Put(doc, "instructions", Text(doc.instructions.str \o <<"\n", "\n">> \o block))
    ELSE doc

InjectContext(doc, format, block) ==
    CASE format = "anthropic" -> InjectAnthropic(doc, block)
      [] format = "openai" -> InjectOpenAI(doc, block)
      [] format = "gemini" -> InjectGemini(doc, block)
      [] format = "gemini-cloudcode" -> Put(doc, "request", InjectGemini(doc.request, block))
      [] format = "openai-responses" -> InjectOpenAIResponses(doc, block)
=============================================================================
