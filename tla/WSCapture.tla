----------------------------- MODULE WSCapture -----------------------------
(***************************************************************************)
(* One intercepted WebSocket tunnel of internal/proxy/wscapture.go: the    *)
(* splice that forwards both directions verbatim, the best-effort taps     *)
(* that copy them, the two frame parsers, and wsExchange, which pairs      *)
(* codex's requests with the answers streamed back.                        *)
(*                                                                         *)
(* Goroutines: one splice and one parser per direction.  The agent and the *)
(* backend are external: the agent asks turn n + 1 when turn n has ended,  *)
(* the backend answers turns in order with any number of text deltas and a *)
(* terminal event, and may redeliver the whole last response or its        *)
(* terminal event between two responses.                                   *)
(*                                                                         *)
(* A chunk carries one message; framing is wsframe.go's concern and enters *)
(* as the decode error that may stop a parser at any message.              *)
(***************************************************************************)
EXTENDS Naturals, Sequences, FiniteSets, SequencesExt, FiniteSetsExt

CONSTANTS
    MaxTurns,         \* turns the agent asks
    MaxParts,         \* text deltas in one response
    MaxRedeliveries,  \* responses the backend sends again
    TapCap,           \* capacity of a tap channel (256)
    DeltaLen,         \* DeltaLen[i]: the bytes of the i-th delta of a response
    CharEnds,         \* CharEnds[i]: the offsets in it that cut no character
    MaxText,          \* wsMaxRespText, in bytes
    Breakable,        \* peers whose connection may break
    Capture           \* a store is configured

ASSUME WSAssumption ==
    /\ MaxTurns \in Nat \ {0}
    /\ MaxParts \in Nat
    /\ MaxRedeliveries \in Nat
    /\ TapCap \in Nat \ {0}
    /\ DeltaLen \in [1..MaxParts -> Nat \ {0}]
    /\ CharEnds \in [1..MaxParts -> SUBSET Nat]
    /\ \A i \in 1..MaxParts : 0 \in CharEnds[i]
    /\ MaxText \in Nat \ {0}
    /\ Breakable \subseteq {"agent", "backend"}
    /\ Capture \in BOOLEAN

VARIABLES
    \* The peers
    sent,        \* sent[d]: every message written into direction d
    asked,       \* turns the agent has asked
    answered,    \* turns the backend has ended
    emitted,     \* text deltas of the response the backend is streaming
    parts,       \* parts[t]: text deltas of the response to turn t
    redelivered,
    ended,       \* directions whose source has sent EOF
    gone,        \* peers whose connection is broken
    \* The splice
    phase,
    splice,      \* splice[d]: where the copying goroutine stands
    forwarded,   \* forwarded[d]: messages written to the sink of d
    tap,         \* tap[d]: the tap channel
    tapState,
    \* The capture
    parser,
    lastReq,     \* latest unpaired request, NoTurn when none
    respText,    \* text accumulated by the s->c parser
    stored,      \* exchanges handed to the store, oldest first
    heard        \* history: the latest request the c->s parser decoded

peerVars    == <<sent, asked, answered, emitted, parts, redelivered, ended, gone>>
spliceVars  == <<phase, splice, forwarded>>
tapVars     == <<tap, tapState>>
captureVars == <<lastReq, respText, stored, heard>>
vars == <<peerVars, spliceVars, tapVars, parser, captureVars>>

Dirs  == {"c2s", "s2c"}
Peers == {"agent", "backend"}
Source(d) == IF d = "c2s" THEN "agent" ELSE "backend"
Sink(d)   == IF d = "c2s" THEN "backend" ELSE "agent"

Turns  == 1..MaxTurns
NoTurn == 0

Create(t)    == [kind |-> "create", turn |-> t]
Delta(t, i)  == [kind |-> "delta", turn |-> t, part |-> i]
Completed(t) == [kind |-> "completed", turn |-> t]
Failed(t)    == [kind |-> "failed", turn |-> t]

Terminal(t) == {Completed(t), Failed(t)}

Init ==
    /\ sent = [d \in Dirs |-> <<>>]
    /\ asked = 0
    /\ answered = 0
    /\ emitted = 0
    /\ parts = [t \in Turns |-> 0]
    /\ redelivered = 0
    /\ ended = {}
    /\ gone = {}
    /\ phase = "handshake"
    /\ splice = [d \in Dirs |-> "idle"]
    /\ forwarded = [d \in Dirs |-> 0]
    /\ tap = [d \in Dirs |-> <<>>]
    /\ tapState = [d \in Dirs |-> "none"]
    /\ parser = [d \in Dirs |-> "none"]
    /\ lastReq = NoTurn
    /\ respText = <<>>
    /\ stored = <<>>
    /\ heard = NoTurn

-----------------------------------------------------------------------------
(***************************************************************************)
(* The peers.                                                              *)
(***************************************************************************)
Say(d, msgs) ==
    /\ phase = "spliced"
    /\ d \notin ended
    /\ Source(d) \notin gone
    /\ sent' = [sent EXCEPT ![d] = @ \o msgs]

\* The part of direction d its sink has received.
Received(d) == SubSeq(sent[d], 1, forwarded[d])

Ask ==
    /\ asked < MaxTurns
    /\ asked > 0 => \E i \in 1..forwarded["s2c"] : sent["s2c"][i] \in Terminal(asked)
    /\ Say("c2s", <<Create(asked + 1)>>)
    /\ asked' = asked + 1
    /\ UNCHANGED <<answered, emitted, parts, redelivered, ended, gone>>

BackendHas(t) == t \in Turns /\ Contains(Received("c2s"), Create(t))

Stream ==
    /\ BackendHas(answered + 1)
    /\ emitted < MaxParts
    /\ Say("s2c", <<Delta(answered + 1, emitted + 1)>>)
    /\ emitted' = emitted + 1
    /\ UNCHANGED <<asked, answered, parts, redelivered, ended, gone>>

EndResponse ==
    /\ BackendHas(answered + 1)
    /\ \E m \in Terminal(answered + 1) : Say("s2c", <<m>>)
    /\ answered' = answered + 1
    /\ parts' = [parts EXCEPT ![answered + 1] = emitted]
    /\ emitted' = 0
    /\ UNCHANGED <<asked, redelivered, ended, gone>>

\* A redelivered frame, or a connection that resumes mid-stream.
Redeliver ==
    /\ redelivered < MaxRedeliveries
    /\ answered > 0 /\ emitted = 0
    /\ LET whole == [i \in 1..parts[answered] |-> Delta(answered, i)]
       IN  \E again \in {<<>>, whole}, m \in Terminal(answered) :
               Contains(sent["s2c"], m) /\ Say("s2c", Append(again, m))
    /\ redelivered' = redelivered + 1
    /\ UNCHANGED <<asked, answered, emitted, parts, ended, gone>>

HalfClose(d) ==
    /\ phase = "spliced"
    /\ d \notin ended
    /\ ended' = ended \cup {d}
    /\ UNCHANGED <<sent, asked, answered, emitted, parts, redelivered, gone>>

Break(q) ==
    /\ phase = "spliced"
    /\ q \notin gone
    /\ gone' = gone \cup {q}
    /\ UNCHANGED <<sent, asked, answered, emitted, parts, redelivered, ended>>

Peer ==
    /\ Ask \/ Stream \/ EndResponse \/ Redeliver
          \/ (\E d \in Dirs : HalfClose(d)) \/ (\E q \in Breakable : Break(q))
    /\ UNCHANGED <<spliceVars, tapVars, parser, captureVars>>

-----------------------------------------------------------------------------
(***************************************************************************)
(* The splice.                                                             *)
(***************************************************************************)
\* The backend's 101 is forwarded, then taps and parsers are set up.
Upgrade ==
    /\ phase = "handshake"
    /\ phase' = "spliced"
    /\ splice' = [d \in Dirs |-> "copying"]
    /\ tapState' = [d \in Dirs |-> IF Capture THEN "open" ELSE "none"]
    /\ parser' = [d \in Dirs |-> IF Capture THEN "running" ELSE "none"]
    /\ UNCHANGED <<peerVars, forwarded, tap, captureVars>>

\* Deadline, oversized header block or broken peer before the 101 went through.
HandshakeFails ==
    /\ phase = "handshake"
    /\ phase' = "returned"
    /\ UNCHANGED <<peerVars, splice, forwarded, tapVars, parser, captureVars>>

Tapping(d) == tapState[d] = "open"
LeakTap(d) == tapState                                               \* mutant
CloseTap(d) == [tapState EXCEPT ![d] = IF @ = "open" THEN "closed" ELSE @]

\* dst.Write: forwarding comes first and does not look at the tap.
Copy(d) ==
    /\ splice[d] = "copying"
    /\ forwarded[d] < Len(sent[d])
    /\ Sink(d) \notin gone
    /\ forwarded' = [forwarded EXCEPT ![d] = @ + 1]
    /\ splice' = [splice EXCEPT ![d] = IF Tapping(d) THEN "tapping" ELSE "copying"]
    /\ UNCHANGED <<peerVars, phase, tapVars, parser, captureVars>>

\* EOF after everything was read, an error of the source, or a failed write.
Ends(d) ==
    \/ Source(d) \in gone
    \/ d \in ended /\ forwarded[d] = Len(sent[d])
    \/ Sink(d) \in gone /\ forwarded[d] < Len(sent[d])

StopCopying(d) ==
    /\ splice[d] = "copying"
    /\ Ends(d)
    /\ splice' = [splice EXCEPT ![d] = "done"]
    /\ tapState' = CloseTap(d)
    /\ UNCHANGED <<peerVars, phase, forwarded, tap, parser, captureVars>>

NeverAbandons(d) == FALSE                                            \* mutant
\* The select of spliceCopyTap: may the goroutine take this branch now?
Offers(d) == Len(tap[d]) < TapCap
Abandons(d) == Len(tap[d]) >= TapCap

OfferTap(d) ==
    /\ splice[d] = "tapping"
    /\ \/ /\ Offers(d)
          /\ tap' = [tap EXCEPT ![d] = Append(@, sent[d][forwarded[d]])]
          /\ UNCHANGED tapState
       \/ /\ Abandons(d)
          /\ tapState' = CloseTap(d)
          /\ UNCHANGED tap
    /\ splice' = [splice EXCEPT ![d] = "copying"]
    /\ UNCHANGED <<peerVars, phase, forwarded, parser, captureVars>>

\* Both directions are done: the caller closes the two connections.
Return ==
    /\ phase = "spliced"
    /\ \A d \in Dirs : splice[d] = "done"
    /\ phase' = "returned"
    /\ UNCHANGED <<peerVars, splice, forwarded, tapVars, parser, captureVars>>

-----------------------------------------------------------------------------
(***************************************************************************)
(* The parsers.  The c->s parser runs onClient, the s->c parser onServer;  *)
(* they share lastReq under the exchange's mutex.                          *)
(***************************************************************************)
RememberFirst(t) == IF lastReq = NoTurn THEN t ELSE lastReq         \* mutant
Remember(t) == t

OnClient(m) ==
    /\ m.kind = "create"
    /\ lastReq' = Remember(m.turn)
    /\ heard' = m.turn
    /\ UNCHANGED <<respText, stored>>

\* The text of a delta, byte by byte.
TextOf(m) == [b \in 1..DeltaLen[m.part] |-> [turn |-> m.turn, part |-> m.part, byte |-> b]]
\* clampBytes: what does not fit is cut off at the end of a character.
Fitting(i, room) == IF DeltaLen[i] <= room THEN DeltaLen[i] ELSE Max({b \in CharEnds[i] : b <= room})
\* Clamped to the cap, not tested against it before the append; what a cut
\* between characters leaves of the room, a later delta may fill.
Extend(text, m) ==
    IF Len(text) < MaxText THEN text \o SubSeq(TextOf(m), 1, Fitting(m.part, MaxText - Len(text))) ELSE text

OnDelta(m) ==
    /\ m.kind = "delta"
    /\ respText' = Extend(respText, m)
    /\ UNCHANGED <<lastReq, stored, heard>>

TextKept == respText                                                 \* mutant
TextAfterFailure == <<>>

OnFailed(m) ==
    /\ m.kind = "failed"
    /\ respText' = TextAfterFailure
    /\ lastReq' = NoTurn
    /\ UNCHANGED <<stored, heard>>

NotConsumed == lastReq                                               \* mutant
\* A completion consumes the request it paired with.
Consumed == NoTurn

OnCompleted(m) ==
    /\ m.kind = "completed"
    /\ respText' = <<>>
    /\ IF respText = <<>>
       THEN UNCHANGED <<lastReq, stored>>
       ELSE /\ lastReq' = Consumed
            /\ stored' = IF lastReq = NoTurn THEN stored
                         ELSE Append(stored, [req |-> lastReq, text |-> respText])
    /\ UNCHANGED heard

OnServer(m) == OnDelta(m) \/ OnFailed(m) \/ OnCompleted(m)

Parse(d) ==
    /\ parser[d] = "running"
    /\ tap[d] # <<>>
    /\ tap' = [tap EXCEPT ![d] = Tail(@)]
    /\ IF d = "c2s" THEN OnClient(Head(tap[d])) ELSE OnServer(Head(tap[d]))
    /\ UNCHANGED <<peerVars, spliceVars, tapState, parser>>

\* An unrecoverable framing or inflate error ends this parser; nobody drains
\* its channel any more.
DecodeFails(d) ==
    /\ parser[d] = "running"
    /\ tap[d] # <<>>
    /\ tap' = [tap EXCEPT ![d] = Tail(@)]
    /\ parser' = [parser EXCEPT ![d] = "stopped"]
    /\ UNCHANGED <<peerVars, spliceVars, tapState, captureVars>>

ParserEOF(d) ==
    /\ parser[d] = "running"
    /\ tap[d] = <<>>
    /\ tapState[d] = "closed"
    /\ parser' = [parser EXCEPT ![d] = "stopped"]
    /\ UNCHANGED <<peerVars, spliceVars, tapVars, captureVars>>

-----------------------------------------------------------------------------
Splice(d) == Copy(d) \/ StopCopying(d) \/ OfferTap(d)
Parser(d) == Parse(d) \/ DecodeFails(d) \/ ParserEOF(d)

Terminated == phase = "returned" /\ (\A d \in Dirs : parser[d] # "running") /\ UNCHANGED vars

Next ==
    \/ Peer
    \/ Upgrade \/ HandshakeFails \/ Return
    \/ \E d \in Dirs : Splice(d) \/ Parser(d)
    \/ Terminated

Spec == Init /\ [][Next]_vars

\* The splice goroutines run; the parsers may be arbitrarily slow, and the
\* peers owe nothing.
SpliceFairness ==
    /\ \A d \in Dirs : WF_vars(Splice(d))
    /\ WF_vars(Return)

FairSplice == Spec /\ SpliceFairness

-----------------------------------------------------------------------------
ClientMsgs == {Create(t) : t \in Turns}
Deltas     == {Delta(t, i) : t \in Turns, i \in 1..MaxParts}
TextBytes  == [turn : Turns, part : 1..MaxParts, byte : Nat]
ServerMsgs == Deltas \cup UNION {Terminal(t) : t \in Turns}

PeersTyped ==
    /\ asked \in 0..MaxTurns /\ answered \in 0..MaxTurns
    /\ emitted \in 0..MaxParts
    /\ parts \in [Turns -> 0..MaxParts]
    /\ redelivered \in 0..MaxRedeliveries
    /\ ended \subseteq Dirs /\ gone \subseteq Peers

SpliceTyped ==
    /\ phase \in {"handshake", "spliced", "returned"}
    /\ splice \in [Dirs -> {"idle", "copying", "tapping", "done"}]
    /\ tapState \in [Dirs -> {"none", "open", "closed"}]
    /\ parser \in [Dirs -> {"none", "running", "stopped"}]
    /\ forwarded \in [Dirs -> Nat]

StreamsTyped ==
    /\ sent \in [Dirs -> Seq(ClientMsgs \cup ServerMsgs)]
    /\ tap \in [Dirs -> Seq(ClientMsgs \cup ServerMsgs)]
    /\ sent["c2s"] \in Seq(ClientMsgs) /\ sent["s2c"] \in Seq(ServerMsgs)
    /\ tap["c2s"] \in Seq(ClientMsgs) /\ tap["s2c"] \in Seq(ServerMsgs)
    /\ \A d \in Dirs : forwarded[d] <= Len(sent[d])
    /\ \A d \in Dirs : splice[d] = "tapping" => forwarded[d] > 0

CaptureTyped ==
    /\ lastReq \in 0..MaxTurns /\ heard \in 0..MaxTurns
    /\ respText \in Seq(TextBytes) /\ Len(respText) <= MaxText
    /\ stored \in Seq([req : Turns, text : Seq(TextBytes)])

\* The types of the state.
TypeOK == PeersTyped /\ SpliceTyped /\ StreamsTyped /\ CaptureTyped

\* One response.create is stored at most once, whatever the backend sends
\* again ("A completion consumes the request it paired with").
StoredOnce ==
    \A i, j \in 1..Len(stored) : stored[i].req = stored[j].req => i = j

\* The first n deltas of the response to turn t, one after the other.
AnswerTo(t) ==
    LET upTo[n \in 0..MaxParts] == IF n = 0 THEN <<>> ELSE Extend(upTo[n - 1], Delta(t, n)) IN upTo

\* A stored answer is the whole text of one completed response, as far as it
\* fits into the cap, which it never exceeds: never a fragment of it, and never
\* text of a response that failed.
AnswerIsWhole ==
    \A i \in 1..Len(stored) :
        /\ Len(stored[i].text) <= MaxText
        /\ \E t \in Turns :
              Contains(sent["s2c"], Completed(t)) /\ stored[i].text = AnswerTo(t)[parts[t]]

\* A turn is stored under the latest request the c->s parser has decoded, not
\* under an unpaired one that came before it ("the most recent turn").
PairsLatestHeard == [][stored' # stored => Last(stored').req = heard]_vars

\* What the comments of wscapture.go promise of the pairing: the text stored
\* with a request is the answer to that request.
PairedWithItsTurn ==
    \A i \in 1..Len(stored) :
        \A k \in 1..Len(stored[i].text) : stored[i].text[k].turn = stored[i].req

\* Forwarding is never blocked by the capture: with fair splices and parsers
\* that may never run, a direction catches up with its source or ends.  (The
\* sources are bounded, so catching up is a matter of the splice alone.)
ForwardingNeverStalls ==
    \A d \in Dirs :
        forwarded[d] < Len(sent[d]) ~> (forwarded[d] = Len(sent[d]) \/ splice[d] = "done")

\* Parsers that get to run leave no goroutine behind a tunnel that returned.
ParsersEnd ==
    (\A d \in Dirs : WF_vars(Parser(d))) =>
        (phase = "returned" ~> \A d \in Dirs : parser[d] # "running")
=============================================================================
