--------------------------- MODULE FrameAssembler ---------------------------
(***************************************************************************)
(* internal/proxy/wsframe.go: one direction of an upgraded tunnel, its     *)
(* frames put together into text messages.  A compressed message is        *)
(* decoded against the output of the compressed ones before it, captured   *)
(* or not; once that is lost nothing after it can be read.                 *)
(*                                                                         *)
(* A message is sent in fragments of some sizes.  A payload is a sequence  *)
(* of its bytes, each <<n, i>> for byte i of message n.                    *)
(***************************************************************************)
EXTENDS Integers, Sequences, SequencesExt

CONSTANTS
    WsMaxMessage,  \* cap of a frame, a message and an inflated message
    Window,        \* the bytes of output a compressor may refer back to
    Expands,       \* bound: what a compressed byte may inflate to
    Fragmentings,  \* bound: the sizes a message may be cut into
    MaxMessages,   \* bound
    MaxControl     \* bound: control frames between fragments

\* A message has at least one fragment.
ASSUME FrameAssumption ==
    /\ WsMaxMessage \in Nat /\ Window \in Nat
    /\ Expands \subseteq Nat
    /\ \A sizes \in Fragmentings : sizes \in Seq(Nat) /\ sizes # <<>>

VARIABLES
    messages,      \* what the peer has begun to send
    fragment,      \* the fragments of the last that are sent
    controls,      \* the control frames sent
    peerWindow,    \* the peer's compressor
    deflate,       \* permessage-deflate was negotiated
    inMsg, msgRSV1, msgIsText, buf, overflowed,  \* wsMessageAssembler
    history,       \* wsInflater
    stopped,       \* runWSParser returned
    assembled      \* the messages handed on

peerVars == <<messages, fragment, controls, peerWindow>>
msgVars  == <<inMsg, msgRSV1, msgIsText, buf, overflowed>>
frameVars == <<peerVars, deflate, msgVars, history, stopped, assembled>>

FrameInit ==
    /\ messages = <<>> /\ fragment = 0 /\ controls = 0 /\ peerWindow = <<>>
    /\ deflate \in BOOLEAN
    /\ inMsg = FALSE /\ msgRSV1 = FALSE /\ msgIsText = FALSE /\ buf = <<>> /\ overflowed = FALSE
    /\ history = <<>> /\ stopped = FALSE /\ assembled = <<>>

Tail32K(h) == SubSeq(h, Len(h) - Min({Len(h), Window}) + 1, Len(h))
Size(sizes)   == FoldLeft(LAMBDA a, b : a + b, 0, sizes)
Payload(n, m) == [i \in 1..Size(m.sizes) |-> <<n, i>>]
Plain(n, m)   == IF m.compressed THEN [i \in 1..Size(m.sizes) * m.expands |-> <<n, i>>] ELSE Payload(n, m)

----------------------------------------------------------------------------
\* The message inflated, if it is all there and the output it refers to is still
\* known; garbage or an error if not.
Garbage == <<<<0, 0>>>>
Inflated(n, m, data) ==
    IF data = Payload(n, m) /\ (m.dict = <<>> \/ m.dict = history) THEN Plain(n, m) ELSE Garbage

Abort == stopped' = TRUE /\ UNCHANGED <<history, assembled>>
Emit(out) == assembled' = Append(assembled, out) /\ UNCHANGED stopped
Drop == UNCHANGED <<stopped, assembled>>

\* Mutant of Complete: a binary message skips the inflater.
CompleteText(n, m, over, data) ==
    IF ~m.text \/ over THEN Drop /\ UNCHANGED history
    ELSE IF ~(deflate /\ m.compressed) THEN Emit(data) /\ UNCHANGED history
    ELSE /\ history' = Tail32K(history \o Inflated(n, m, data))
         /\ IF Len(Inflated(n, m, data)) > WsMaxMessage THEN Drop ELSE Emit(Inflated(n, m, data))
\* The message in data is complete.
Complete(n, m, over, data) ==
    IF deflate /\ m.compressed
    THEN IF over \/ Len(Inflated(n, m, data)) > WsMaxMessage THEN Abort
         ELSE /\ history' = Tail32K(history \o Inflated(n, m, data))
              /\ IF m.text THEN Emit(Inflated(n, m, data)) ELSE Drop
    ELSE /\ UNCHANGED history
         /\ IF m.text /\ ~over THEN Emit(data) ELSE Drop

\* readWSFrame and add for fragment k of message n.
AddFragment(n, m, k) ==
    LET fin == k = Len(m.sizes)
        payload == SubSeq(Payload(n, m), Size(SubSeq(m.sizes, 1, k - 1)) + 1, Size(SubSeq(m.sizes, 1, k)))
        held == IF k = 1 THEN <<>> ELSE buf
        over == (k > 1 /\ overflowed) \/ Len(held) + Len(payload) > WsMaxMessage
        data == IF over THEN <<>> ELSE held \o payload
    IN IF m.sizes[k] > WsMaxMessage THEN Abort /\ UNCHANGED msgVars
       ELSE /\ msgRSV1' = m.compressed /\ msgIsText' = m.text
            /\ buf' = data /\ overflowed' = over /\ inMsg' = ~fin
            /\ IF fin THEN Complete(n, m, over, data) ELSE Drop /\ UNCHANGED history

----------------------------------------------------------------------------
\* The peer sends the first fragment of a message, the next fragment of it, or a
\* control frame between the fragments, which leaves the message alone.
BeginMessage ==
    /\ ~stopped /\ fragment = 0 /\ Len(messages) < MaxMessages
    /\ \E text \in BOOLEAN, compressed \in {FALSE, deflate}, sizes \in Fragmentings, expands \in Expands,
          dict \in {<<>>, peerWindow} :
        LET n == Len(messages) + 1
            m == [text |-> text, compressed |-> compressed, sizes |-> sizes,
                  expands |-> IF compressed THEN expands ELSE 1,
                  dict |-> IF compressed THEN dict ELSE <<>>]
        IN /\ messages' = Append(messages, m)
           /\ fragment' = IF Len(sizes) = 1 THEN 0 ELSE 1
           /\ peerWindow' = IF compressed THEN Tail32K(peerWindow \o Plain(n, m)) ELSE peerWindow
           /\ AddFragment(n, m, 1)
    /\ UNCHANGED <<controls, deflate>>

ContinueMessage ==
    LET m == Last(messages)
    IN /\ ~stopped /\ fragment > 0
       /\ AddFragment(Len(messages), m, fragment + 1)
       /\ fragment' = IF fragment + 1 = Len(m.sizes) THEN 0 ELSE fragment + 1
       /\ UNCHANGED <<messages, controls, peerWindow, deflate>>

AddControl ==
    /\ ~stopped /\ controls < MaxControl
    /\ controls' = controls + 1
    /\ UNCHANGED <<messages, fragment, peerWindow, deflate, msgVars, history, stopped, assembled>>

FrameNext == BeginMessage \/ ContinueMessage \/ AddControl

FrameSpec == FrameInit /\ [][FrameNext]_frameVars

\* The messages the peer has completed, and those that are to be captured: a
\* text within the cap, before and after it is inflated.
Completed == Len(messages) - (IF fragment > 0 THEN 1 ELSE 0)
InCap(n) == Len(Payload(n, messages[n])) <= WsMaxMessage /\ Len(Plain(n, messages[n])) <= WsMaxMessage
Wanted(n) == IF messages[n].text /\ InCap(n) THEN <<Plain(n, messages[n])>> ELSE <<>>

\* runWSParser hands on the text messages within the caps, whole, as they were
\* sent and in their order, whatever is sent between their fragments and however
\* a compressed one refers to those before it, the binary ones included; it stops
\* only at a message that is too large.
FramesDecoded ==
    /\ assembled = FlattenSeq([n \in 1..Completed |-> Wanted(n)])
    /\ stopped => ~InCap(Len(messages))
=============================================================================
