---------------------------- MODULE EventStream ----------------------------
(***************************************************************************)
(* streamCapture of internal/proxy/stream.go: a streamed response passes to*)
(* the agent in chunks cut anywhere, and what it says is put together line *)
(* by line on the way.                                                     *)
(*                                                                         *)
(* A unit of the stream is a byte, or a run of bytes nothing tells apart.  *)
(* The line of event e is LineLen[e] units long and ends in a newline,     *)
(* sometimes after a carriage return.                                      *)
(***************************************************************************)
EXTENDS ContextBlock, TLC

CONSTANTS
    EventDoc,        \* EventDoc[e]: the JSON of event e; Nothing if it is none
    LineLen,
    Control,         \* the lines without a payload: event:, id:, :, and [DONE]
    OpensObject,     \* the units, beyond the first of a line, that are a "{"
    MaxStreamBuf, MaxRetainedLine, MaxTextAccum, MaxToolNames

\* maxRetainedLine is defined as maxStreamBuf; the delta of an event is a text,
\* and what it names is one tool or none.
ASSUME StreamAssumption ==
    /\ MaxStreamBuf \in Nat /\ MaxRetainedLine = MaxStreamBuf
    /\ MaxTextAccum \in Nat /\ MaxToolNames \in Nat
    /\ LineLen \in [DOMAIN LineLen -> Nat]
    /\ {"newline", "return"} \cap DOMAIN LineLen = {}
    /\ \A e \in DOMAIN LineLen :
          LET name == ExtractSSEToolName(EventDoc[e])
          IN /\ e \in DOMAIN EventDoc /\ ExtractSSEDelta(EventDoc[e]) \in Seq(STRING)
             /\ name \in Seq(STRING) /\ Len(name) <= 1

VARIABLES
    coming,     \* the units the upstream has yet to send
    lineBuf,    \* the partial line carried between reads
    lastData,   \* the last payload seen
    totalLen,
    textAccum,
    usageJSON,  \* the last payload that mentions usage
    toolNames

capture == <<lineBuf, lastData, totalLen, textAccum, usageJSON, toolNames>>

NoData  == [line |-> <<>>]
NewLine == [ev |-> "newline", at |-> 1]
Return  == [ev |-> "return", at |-> 1]
Line(e)  == [i \in 1..LineLen[e] |-> [ev |-> e, at |-> i]]
Unit     == {NewLine, Return} \cup UNION {{[ev |-> e, at |-> i] : i \in 1..LineLen[e]} : e \in DOMAIN LineLen}

\* What an upstream sends: an event begins a line of its own, and a carriage
\* return is at the end of one.
IsStream(units) ==
    /\ units \in Seq(Unit)
    /\ \A i \in 2..Len(units) :
          /\ units[i].at = 1 /\ units[i] \notin {NewLine, Return} => units[i - 1] = NewLine
          /\ units[i - 1] = Return => units[i] = NewLine

StreamInit(units) ==
    /\ coming = units
    /\ lineBuf = <<>> /\ lastData = NoData /\ totalLen = 0
    /\ textAccum = <<>> /\ usageJSON = NoData /\ toolNames = <<>>

\* The payload of a line, of which a part may be missing; then it parses only
\* by luck this model does not grant, and counts only if it looks like ndjson.
IsWhole(line)    == line # <<>> /\ line = Line(line[1].ev)
HasPayload(line) == line # <<>> /\ (IF line[1].at = 1 THEN line[1].ev \notin Control ELSE line[1] \in OpensObject)
DocOfLine(line)  == IF IsWhole(line) THEN EventDoc[line[1].ev] ELSE Nothing
\* A line with the text "usage" or "usageMetadata" as the name of a member.
MentionsUsage(line) ==
    LET doc == DocOfLine(line)
    IN \E o \in {doc, Member(doc, "message"), Member(doc, "response")} : Has(o, "usage") \/ Has(o, "usageMetadata")

\* clampBytes: the cut takes the character it falls into along.
Clamp(t, room) == IF room <= 0 THEN <<>> ELSE IF Bytes(t) <= room THEN t ELSE FirstBytes(t, room)

Seen == [lineBuf |-> lineBuf, lastData |-> lastData, textAccum |-> textAccum,
         usageJSON |-> usageJSON, toolNames |-> toolNames]

\* s after one complete line.
ProcessEvent(s, line) ==
    LET doc == DocOfLine(line)
        name == ExtractSSEToolName(doc)
    IN IF ~HasPayload(line) THEN s
       ELSE [s EXCEPT !.lastData = [line |-> line],
                      !.textAccum = @ \o Clamp(ExtractSSEDelta(doc), MaxTextAccum - Bytes(@)),
                      !.toolNames = IF Len(@) < MaxToolNames THEN @ \o name ELSE @,
                      !.usageJSON = IF MentionsUsage(line) THEN [line |-> line] ELSE @]

\* One unit of a chunk: a newline ends a line, which counts unless it is too
\* long to keep.
ProcessUnit(s, unit) ==
    LET line == IF s.lineBuf # <<>> /\ Last(s.lineBuf) = Return THEN SubSeq(s.lineBuf, 1, Len(s.lineBuf) - 1)
                ELSE s.lineBuf
        ended == [s EXCEPT !.lineBuf = <<>>]
    IN IF unit # NewLine THEN [s EXCEPT !.lineBuf = Append(@, unit)]
       ELSE IF Len(line) > MaxRetainedLine THEN ended
       ELSE ProcessEvent(ended, line)

\* Mutant of Carried: a partial line is forgotten between chunks.
Forgotten(line) == <<>>
Carried(line) == IF Len(line) <= MaxStreamBuf THEN line ELSE <<>>
\* A chunk, and what is left of a line at its end: that is kept for the next
\* one unless it is too long already.
ProcessChunk(chunk) ==
    LET after == FoldLeft(ProcessUnit, Seen, chunk)
    IN /\ lineBuf' = Carried(after.lineBuf)
       /\ lastData' = after.lastData /\ textAccum' = after.textAccum
       /\ usageJSON' = after.usageJSON /\ toolNames' = after.toolNames
       /\ totalLen' = totalLen + Len(chunk)

\* Read: the next chunk, of any size.
Read ==
    \E n \in DOMAIN coming :
        /\ ProcessChunk(SubSeq(coming, 1, n))
        /\ coming' = SubSeq(coming, n + 1, Len(coming))

----------------------------------------------------------------------------
\* What finalize stores: the text and the tools as an Anthropic response with
\* the usage of the event that last mentioned it; without either, the last
\* payload; without one, the size.
UsageOf(event) ==
    LET nested == Member(event, "response")
        all == (IF Has(nested, "usage") THEN [usage |-> nested.usage] ELSE Nothing) @@ event
    IN [k \in DOMAIN all \cap {"usage", "usageMetadata"} |-> all[k]]

BuildSyntheticResp ==
    LET text == IF textAccum = <<>> THEN <<>> ELSE <<[type |-> "text", text |-> Text(textAccum)]>>
        tools == [i \in DOMAIN toolNames |-> [type |-> "tool_use", name |-> toolNames[i], input |-> Nothing]]
        source == IF usageJSON = NoData THEN lastData ELSE usageJSON
    IN [content |-> Array(text \o tools)] @@ UsageOf(DocOfLine(source.line))

BuildRespBody ==
    IF textAccum # <<>> \/ toolNames # <<>> THEN [kind |-> "object", doc |-> BuildSyntheticResp]
    ELSE IF lastData = NoData THEN [kind |-> "object", doc |-> [bytes |-> totalLen]]
    ELSE IF DocOfLine(lastData.line) = Nothing THEN [kind |-> "json"]
    ELSE [kind |-> "object", doc |-> DocOfLine(lastData.line)]
=============================================================================
