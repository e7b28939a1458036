-------------------------- MODULE WSCaptureProofs --------------------------
(***************************************************************************)
(* Machine-checked proofs about WSCapture, for any number of turns,        *)
(* deltas, redeliveries and any tap capacity.                              *)
(***************************************************************************)
EXTENDS WSCapture, SequenceTheorems, WellFoundedInduction, TLAPS

\* The bounds are numbers.
LEMMA ConstantTypes ==
    /\ MaxTurns \in Nat \ {0}
    /\ MaxParts \in Nat
    /\ MaxRedeliveries \in Nat
    /\ TapCap \in Nat \ {0}
    /\ MaxText \in Nat \ {0}
    /\ Breakable \subseteq Peers
BY WSAssumption DEF Peers

\* A delta has a length, and its beginning cuts no character.
LEMMA DeltaTypes ==
    \A i \in 1..MaxParts : DeltaLen[i] \in Nat \ {0} /\ CharEnds[i] \in SUBSET Nat /\ 0 \in CharEnds[i]
BY WSAssumption

\* A server message of kind "delta" is a delta, and nothing the client says is.
LEMMA DeltaKind == \A m \in ServerMsgs : m.kind = "delta" => m \in Deltas
BY DEF ServerMsgs, Terminal, Completed, Failed, Deltas, Delta

\* What a client says names a turn.
LEMMA CreateTurn == \A m \in ClientMsgs : m.turn \in Turns
BY DEF ClientMsgs, Create

\* The directions are two.
LEMMA TwoDirs == \A d \in Dirs : d = "c2s" \/ d = "s2c"
BY DEF Dirs

\* Every message a client or a server says is a message.
LEMMA SubStreams ==
    /\ Seq(ClientMsgs) \subseteq Seq(ClientMsgs \cup ServerMsgs)
    /\ Seq(ServerMsgs) \subseteq Seq(ClientMsgs \cup ServerMsgs)
OBVIOUS

\* Saying keeps the streams typed.
LEMMA SayTyped ==
    ASSUME StreamsTyped, SpliceTyped, NEW d \in Dirs, NEW msgs, Say(d, msgs),
           \/ d = "c2s" /\ msgs \in Seq(ClientMsgs)
           \/ d = "s2c" /\ msgs \in Seq(ServerMsgs),
           UNCHANGED <<spliceVars, tap>>
    PROVE  StreamsTyped'
<1>1. sent' = [sent EXCEPT ![d] = sent[d] \o msgs]
  BY DEF Say
<1>2. /\ forwarded' = forwarded /\ splice' = splice
      /\ tap' = tap
  BY DEF spliceVars
<1>3. /\ sent[d] \o msgs \in Seq(ClientMsgs \cup ServerMsgs)
      /\ d = "c2s" => sent[d] \o msgs \in Seq(ClientMsgs)
      /\ d = "s2c" => sent[d] \o msgs \in Seq(ServerMsgs)
      /\ Len(sent[d] \o msgs) >= Len(sent[d])
  BY SubStreams, ConcatProperties DEF StreamsTyped
<1>4. \A e \in Dirs : Len(sent'[e]) \in Nat /\ Len(sent'[e]) >= Len(sent[e])
  BY <1>1, <1>3, LenProperties DEF StreamsTyped
<1>5. \A e \in Dirs : forwarded[e] <= Len(sent'[e])
  BY <1>4, LenProperties DEF StreamsTyped, SpliceTyped
<1>6. /\ sent' \in [Dirs -> Seq(ClientMsgs \cup ServerMsgs)]
      /\ sent'["c2s"] \in Seq(ClientMsgs) /\ sent'["s2c"] \in Seq(ServerMsgs)
  BY <1>1, <1>3, TwoDirs DEF StreamsTyped, Dirs
<1> QED BY <1>2, <1>5, <1>6 DEF StreamsTyped

\* A step of a peer keeps the types.
LEMMA PeerTyped ==
    ASSUME TypeOK, Peer
    PROVE  TypeOK'
<1> USE ConstantTypes
<1>1. /\ SpliceTyped' /\ CaptureTyped'
      /\ UNCHANGED <<spliceVars, tap>>
  BY DEF Peer, TypeOK, SpliceTyped, CaptureTyped, spliceVars, tapVars, captureVars
<1>2. CASE Ask
  <2>1. <<Create(asked + 1)>> \in Seq(ClientMsgs)
    BY <1>2 DEF Ask, TypeOK, PeersTyped, ClientMsgs, Turns
  <2>2. Say("c2s", <<Create(asked + 1)>>)
    BY <1>2 DEF Ask
  <2>3. StreamsTyped'
    BY <1>1, <2>1, <2>2, SayTyped DEF TypeOK, Dirs
  <2>4. PeersTyped'
    BY <1>2 DEF Ask, TypeOK, PeersTyped
  <2> QED BY <1>1, <2>3, <2>4 DEF TypeOK
<1>3. CASE Stream
  <2>1. <<Delta(answered + 1, emitted + 1)>> \in Seq(ServerMsgs)
    BY <1>3 DEF Stream, BackendHas, TypeOK, PeersTyped, ServerMsgs, Deltas
  <2>2. Say("s2c", <<Delta(answered + 1, emitted + 1)>>)
    BY <1>3 DEF Stream
  <2>3. StreamsTyped'
    BY <1>1, <2>1, <2>2, SayTyped DEF TypeOK, Dirs
  <2>4. PeersTyped'
    BY <1>3 DEF Stream, TypeOK, PeersTyped
  <2> QED BY <1>1, <2>3, <2>4 DEF TypeOK
<1>4. CASE EndResponse
  <2>1. PICK m \in Terminal(answered + 1) : Say("s2c", <<m>>)
    BY <1>4 DEF EndResponse
  <2>2. <<m>> \in Seq(ServerMsgs)
    BY <1>4, <2>1 DEF EndResponse, BackendHas, ServerMsgs
  <2>3. StreamsTyped'
    BY <1>1, <2>1, <2>2, SayTyped DEF TypeOK, Dirs
  <2>4. PeersTyped'
    BY <1>4 DEF EndResponse, BackendHas, Turns, TypeOK, PeersTyped
  <2> QED BY <1>1, <2>3, <2>4 DEF TypeOK
<1>5. CASE Redeliver
  <2> DEFINE whole == [i \in 1..parts[answered] |-> Delta(answered, i)]
  <2>1. PICK again \in {<<>>, whole}, m \in Terminal(answered) : Say("s2c", Append(again, m))
    BY <1>5 DEF Redeliver
  <2>2. /\ answered \in Turns
        /\ parts[answered] \in 0..MaxParts
    BY <1>5 DEF Redeliver, TypeOK, PeersTyped, Turns
  <2>3. whole \in Seq(ServerMsgs)
    BY <2>2 DEF ServerMsgs, Deltas
  <2>4. m \in ServerMsgs
    BY <2>1, <2>2 DEF ServerMsgs
  <2>5. Append(again, m) \in Seq(ServerMsgs)
    <3>1. again \in Seq(ServerMsgs)
      BY <2>1, <2>3, EmptySeq
    <3> QED BY <3>1, <2>4, AppendProperties
  <2>6. StreamsTyped'
    BY <1>1, <2>1, <2>5, SayTyped DEF TypeOK, Dirs
  <2>7. PeersTyped'
    BY <1>5 DEF Redeliver, TypeOK, PeersTyped
  <2> QED BY <1>1, <2>6, <2>7 DEF TypeOK
<1>6. ASSUME NEW d \in Dirs, HalfClose(d) PROVE TypeOK'
  BY <1>1, <1>6 DEF HalfClose, TypeOK, PeersTyped, StreamsTyped, spliceVars
<1>7. ASSUME NEW q \in Breakable, Break(q) PROVE TypeOK'
  BY <1>1, <1>7 DEF Break, TypeOK, PeersTyped, StreamsTyped, spliceVars
<1> QED BY <1>2, <1>3, <1>4, <1>5, <1>6, <1>7 DEF Peer

\* A step of a splice goroutine, or of the tunnel, keeps the types.
LEMMA SpliceKeepsTypes ==
    ASSUME TypeOK,
           Upgrade \/ HandshakeFails \/ Return \/ \E d \in Dirs : Splice(d)
    PROVE  TypeOK'
<1> USE DEF TypeOK
<1>1. CASE Upgrade \/ HandshakeFails \/ Return
  <2>1. UNCHANGED <<peerVars, forwarded, tap, captureVars>>
    BY <1>1 DEF Upgrade, HandshakeFails, Return, tapVars
  <2>2. SpliceTyped'
    BY <1>1 DEF Upgrade, HandshakeFails, Return, SpliceTyped, tapVars
  <2>3. StreamsTyped'
    BY <1>1, <2>1 DEF Upgrade, HandshakeFails, Return, StreamsTyped, peerVars
  <2> QED BY <2>1, <2>2, <2>3 DEF PeersTyped, CaptureTyped, peerVars, captureVars
<1>2. ASSUME NEW d \in Dirs, Copy(d) PROVE TypeOK'
  <2>1. UNCHANGED <<peerVars, phase, tapVars, parser, captureVars>>
    BY <1>2 DEF Copy
  <2>2. PeersTyped' /\ CaptureTyped'
    BY <2>1 DEF PeersTyped, CaptureTyped, peerVars, captureVars
  <2>3. SpliceTyped'
    BY <1>2, <2>1 DEF Copy, SpliceTyped, tapVars
  <2>4. /\ forwarded' = [forwarded EXCEPT ![d] = @ + 1]
        /\ splice' = [splice EXCEPT ![d] = IF Tapping(d) THEN "tapping" ELSE "copying"]
        /\ forwarded[d] < Len(sent[d])
        /\ sent' = sent /\ tap' = tap
    BY <1>2 DEF Copy, peerVars, tapVars
  <2>5. \A e \in Dirs : Len(sent[e]) \in Nat
    BY LenProperties DEF StreamsTyped
  <2>6. \A e \in Dirs : forwarded'[e] <= Len(sent'[e])
    BY <2>4, <2>5 DEF StreamsTyped, SpliceTyped
  <2>7. \A e \in Dirs : splice'[e] = "tapping" => forwarded'[e] > 0
    BY <2>4 DEF StreamsTyped, SpliceTyped
  <2>8. StreamsTyped'
    BY <2>4, <2>6, <2>7 DEF StreamsTyped
  <2> QED BY <2>2, <2>3, <2>8
<1>3. ASSUME NEW d \in Dirs, StopCopying(d) PROVE TypeOK'
  <2>1. UNCHANGED <<peerVars, phase, forwarded, tap, parser, captureVars>>
    BY <1>3 DEF StopCopying
  <2>2. PeersTyped' /\ CaptureTyped'
    BY <2>1 DEF PeersTyped, CaptureTyped, peerVars, captureVars
  <2>3. SpliceTyped'
    BY <1>3, <2>1 DEF StopCopying, SpliceTyped, CloseTap
  <2>4. StreamsTyped'
    BY <1>3, <2>1 DEF StopCopying, StreamsTyped, SpliceTyped, peerVars
  <2> QED BY <2>2, <2>3, <2>4
<1>4. ASSUME NEW d \in Dirs, OfferTap(d) PROVE TypeOK'
  <2>1. UNCHANGED <<peerVars, phase, forwarded, parser, captureVars>>
    BY <1>4 DEF OfferTap
  <2>2. PeersTyped' /\ CaptureTyped'
    BY <2>1 DEF PeersTyped, CaptureTyped, peerVars, captureVars
  <2>3. SpliceTyped'
    BY <1>4, <2>1 DEF OfferTap, SpliceTyped, CloseTap
  <2>4. forwarded[d] \in 1..Len(sent[d])
    BY <1>4, LenProperties DEF OfferTap, StreamsTyped, SpliceTyped
  <2>5. /\ sent[d][forwarded[d]] \in ClientMsgs \cup ServerMsgs
        /\ d = "c2s" => sent[d][forwarded[d]] \in ClientMsgs
        /\ d = "s2c" => sent[d][forwarded[d]] \in ServerMsgs
    BY <2>4, ElementOfSeq DEF StreamsTyped
  <2>6. \/ tap' = tap
        \/ tap' = [tap EXCEPT ![d] = Append(@, sent[d][forwarded[d]])]
    BY <1>4 DEF OfferTap
  <2>7. /\ tap' \in [Dirs -> Seq(ClientMsgs \cup ServerMsgs)]
        /\ tap'["c2s"] \in Seq(ClientMsgs) /\ tap'["s2c"] \in Seq(ServerMsgs)
    <3> DEFINE m == sent[d][forwarded[d]]
    <3>1. /\ Append(tap[d], m) \in Seq(ClientMsgs \cup ServerMsgs)
          /\ d = "c2s" => Append(tap[d], m) \in Seq(ClientMsgs)
          /\ d = "s2c" => Append(tap[d], m) \in Seq(ServerMsgs)
      BY <2>5, AppendProperties DEF StreamsTyped
    <3> HIDE DEF m
    <3>2. tap' = tap \/ tap' = [tap EXCEPT ![d] = Append(@, m)]
      BY <2>6 DEF m
    <3> QED BY <3>1, <3>2, TwoDirs DEF StreamsTyped, Dirs
  <2>8. StreamsTyped'
    BY <1>4, <2>1, <2>7 DEF OfferTap, StreamsTyped, SpliceTyped, peerVars
  <2> QED BY <2>2, <2>3, <2>8
<1> QED BY <1>1, <1>2, <1>3, <1>4 DEF Splice

\* Taking the head of a tap keeps the streams typed.
LEMMA TakeTyped ==
    ASSUME StreamsTyped, NEW d \in Dirs, tap[d] # <<>>,
           tap' = [tap EXCEPT ![d] = Tail(@)],
           sent' = sent, forwarded' = forwarded, splice' = splice
    PROVE  /\ StreamsTyped'
           /\ d = "c2s" => Head(tap[d]) \in ClientMsgs
           /\ d = "s2c" => Head(tap[d]) \in ServerMsgs
<1>1. /\ Tail(tap[d]) \in Seq(ClientMsgs \cup ServerMsgs)
      /\ d = "c2s" => Tail(tap[d]) \in Seq(ClientMsgs) /\ Head(tap[d]) \in ClientMsgs
      /\ d = "s2c" => Tail(tap[d]) \in Seq(ServerMsgs) /\ Head(tap[d]) \in ServerMsgs
  BY HeadTailProperties DEF StreamsTyped
<1>2. /\ tap' \in [Dirs -> Seq(ClientMsgs \cup ServerMsgs)]
      /\ tap'["c2s"] \in Seq(ClientMsgs) /\ tap'["s2c"] \in Seq(ServerMsgs)
  BY <1>1, TwoDirs DEF StreamsTyped, Dirs
<1> QED BY <1>1, <1>2 DEF StreamsTyped

\* A set of natural numbers has a least one.
LEMMA LeastOfNat ==
    ASSUME NEW S \in SUBSET Nat, S # {}
    PROVE  \E n \in S : \A m \in S : n <= m
<1>1. \E n \in S : \A m \in S : ~(<<m, n>> \in OpToRel(<, Nat))
  BY WFMin, NatLessThanWellFounded, Zenon
<1>2. \A m, n \in Nat : ~(<<m, n>> \in OpToRel(<, Nat)) => n <= m
  BY DEF OpToRel
<1> QED BY <1>1, <1>2, Zenon

\* A set of numbers up to n has a largest one.
LEMMA MaxWithin ==
    ASSUME NEW n \in Nat, NEW T \in SUBSET (0..n), T # {}
    PROVE  Max(T) \in T
<1> DEFINE Gap == {n - i : i \in T}
<1>1. Gap \in SUBSET Nat /\ Gap # {}
  <2>1. \A i \in T : i \in Nat /\ i <= n
    OBVIOUS
  <2>2. \A i \in T : n - i \in Nat
    BY <2>1
  <2> QED BY <2>2
<1>2. PICK g \in Gap : \A h \in Gap : g <= h
  <2> HIDE DEF Gap
  <2> QED BY <1>1, LeastOfNat
<1>3. PICK i \in T : g = n - i
  BY <1>2
<1>4. \A j \in T : i >= j
  <2>1. ASSUME NEW j \in T PROVE i >= j
    <3>1. n - i <= n - j
      BY <1>2, <1>3
    <3>2. i \in Nat /\ j \in Nat
      OBVIOUS
    <3> QED BY <3>1, <3>2
  <2> QED BY <2>1
<1> QED BY <1>4 DEF Max

\* What of a delta fits into the room is a part of it.
LEMMA FittingIs ==
    ASSUME NEW i \in 1..MaxParts, NEW room \in Nat
    PROVE  Fitting(i, room) \in Nat /\ Fitting(i, room) <= room /\ Fitting(i, room) <= DeltaLen[i]
<1> DEFINE T == {b \in CharEnds[i] : b <= room}
<1>1. DeltaLen[i] \in Nat /\ CharEnds[i] \in SUBSET Nat /\ 0 \in CharEnds[i]
  BY DeltaTypes
<1>2. T \in SUBSET (0..room) /\ T # {}
  BY <1>1
<1>3. Max(T) \in T
  <2> HIDE DEF T
  <2> QED BY <1>2, MaxWithin
<1>4. Max(T) \in Nat /\ Max(T) <= room
  BY <1>1, <1>3
<1> HIDE DEF T
<1> QED BY <1>1, <1>4 DEF Fitting, T

\* Clamping keeps the accumulated text within its cap.
LEMMA ExtendTyped ==
    ASSUME NEW text \in Seq(TextBytes), Len(text) <= MaxText, NEW m \in Deltas
    PROVE  Extend(text, m) \in Seq(TextBytes) /\ Len(Extend(text, m)) <= MaxText
<1> DEFINE room == MaxText - Len(text)
           n == Fitting(m.part, room)
           l == DeltaLen[m.part]
           d == TextOf(m)
           c == SubSeq(d, 1, n)
<1>1. Len(text) \in Nat /\ MaxText \in Nat \ {0} /\ room \in Nat
  BY ConstantTypes, LenProperties
<1>2. m.part \in 1..MaxParts /\ m.turn \in Turns
  BY DEF Deltas, Delta
<1>3. l \in Nat
  BY <1>2, DeltaTypes
<1>4. n \in Nat /\ n <= room /\ n <= l
  <2> HIDE DEF room
  <2> QED BY <1>1, <1>2, FittingIs
<1> HIDE DEF l, n, room
<1>5. d = [b \in 1..l |-> [turn |-> m.turn, part |-> m.part, byte |-> b]]
  BY DEF TextOf, l
<1>6. \A b \in 1..l : [turn |-> m.turn, part |-> m.part, byte |-> b] \in TextBytes
  BY <1>2, <1>3 DEF TextBytes
<1> HIDE DEF d
<1>7. d \in Seq(TextBytes) /\ Len(d) = l
  BY <1>3, <1>5, <1>6
<1>8. c \in Seq(TextBytes) /\ Len(c) = n
  <2>1. \A i \in 1..n : d[i] \in TextBytes
    BY <1>3, <1>4, <1>5, <1>6
  <2> QED BY <1>3, <1>4, <1>7, <2>1, SubSeqProperties
<1> HIDE DEF c
<1>9. text \o c \in Seq(TextBytes) /\ Len(text \o c) = Len(text) + n
  BY <1>8, ConcatProperties
<1>10. Extend(text, m) = IF Len(text) < MaxText THEN text \o c ELSE text
  BY DEF Extend, c, d, n, room
<1> QED BY <1>1, <1>4, <1>9, <1>10 DEF room

\* A step of a parser keeps the types.
LEMMA ParserTyped ==
    ASSUME TypeOK, NEW d \in Dirs, Parser(d)
    PROVE  TypeOK'
<1> USE DEF TypeOK
<1>1. CASE ParserEOF(d)
  <2>1. /\ parser' = [parser EXCEPT ![d] = "stopped"]
        /\ UNCHANGED <<peerVars, spliceVars, tapVars, captureVars>>
    BY <1>1 DEF ParserEOF
  <2> QED BY <2>1 DEF PeersTyped, SpliceTyped, StreamsTyped, CaptureTyped,
                      peerVars, spliceVars, tapVars, captureVars
<1>2. ASSUME Parse(d) \/ DecodeFails(d)
      PROVE  PeersTyped' /\ SpliceTyped' /\ StreamsTyped'
  <2>1. /\ tap[d] # <<>>
        /\ tap' = [tap EXCEPT ![d] = Tail(@)]
        /\ UNCHANGED <<peerVars, spliceVars, tapState>>
        /\ parser' = parser \/ parser' = [parser EXCEPT ![d] = "stopped"]
    BY <1>2 DEF Parse, DecodeFails
  <2>2. /\ sent' = sent /\ forwarded' = forwarded /\ splice' = splice
    BY <2>1 DEF peerVars, spliceVars
  <2>3. StreamsTyped'
    BY <2>1, <2>2, TakeTyped
  <2> QED BY <2>1, <2>3 DEF PeersTyped, SpliceTyped, peerVars, spliceVars
<1>3. CASE DecodeFails(d)
  BY <1>2, <1>3 DEF DecodeFails, CaptureTyped, captureVars
<1>4. ASSUME Parse(d), d = "c2s" PROVE CaptureTyped'
  <2>1. Head(tap[d]) \in ClientMsgs
    BY <1>4, TakeTyped DEF Parse, peerVars, spliceVars
  <2>2. OnClient(Head(tap[d]))
    BY <1>4 DEF Parse
  <2> QED BY <2>1, <2>2, CreateTurn DEF OnClient, Remember, CaptureTyped, Turns
<1>5. ASSUME Parse(d), d = "s2c" PROVE CaptureTyped'
  <2> DEFINE m == Head(tap[d])
  <2>1. m \in ServerMsgs
    BY <1>5, TakeTyped DEF Parse, peerVars, spliceVars
  <2>2. OnServer(m)
    BY <1>5 DEF Parse
  <2> HIDE DEF m
  <2>3. CASE OnDelta(m)
    <3>1. m \in Deltas /\ respText' = Extend(respText, m) /\ UNCHANGED <<lastReq, stored, heard>>
      BY <2>1, <2>3, DeltaKind DEF OnDelta
    <3> QED BY <3>1, ExtendTyped DEF CaptureTyped
  <2>4. respText' = <<>> => respText' \in Seq(TextBytes) /\ Len(respText') <= MaxText
    BY ConstantTypes, EmptySeq
  <2>5. CASE OnFailed(m)
    BY <2>4, <2>5, ConstantTypes DEF OnFailed, TextAfterFailure, NoTurn, CaptureTyped
  <2>6. CASE OnCompleted(m)
    <3>1. lastReq' \in 0..MaxTurns /\ heard' \in 0..MaxTurns
      BY <2>6, ConstantTypes DEF OnCompleted, Consumed, NoTurn, CaptureTyped
    <3>2. stored' = stored \/ (lastReq # NoTurn /\ stored' = Append(stored, [req |-> lastReq, text |-> respText]))
      BY <2>6 DEF OnCompleted
    <3>3. lastReq # NoTurn => [req |-> lastReq, text |-> respText] \in [req : Turns, text : Seq(TextBytes)]
      BY DEF CaptureTyped, NoTurn, Turns
    <3>4. stored' \in Seq([req : Turns, text : Seq(TextBytes)])
      <4> DEFINE x == [req |-> lastReq, text |-> respText]
      <4> DEFINE X == [req : Turns, text : Seq(TextBytes)]
      <4>1. stored \in Seq(X)
        BY DEF CaptureTyped
      <4>2. stored' = stored \/ (x \in X /\ stored' = Append(stored, x))
        BY <3>2, <3>3
      <4> HIDE DEF x, X
      <4>3. stored' \in Seq(X)
        BY <4>1, <4>2, AppendProperties
      <4> QED BY <4>3 DEF X
    <3>5. respText' = <<>>
      BY <2>6 DEF OnCompleted
    <3> QED BY <3>1, <3>4, <3>5, <2>4 DEF CaptureTyped
  <2> QED BY <2>2, <2>3, <2>5, <2>6 DEF OnServer
<1> QED BY <1>1, <1>2, <1>3, <1>4, <1>5, TwoDirs DEF Parser

\* Type correctness: every reachable state of the tunnel has the types the Go
\* declarations give it, the accumulated text within wsMaxRespText included.
THEOREM TypeCorrect == Spec => []TypeOK
<1>1. Init => TypeOK
  <2> SUFFICES ASSUME Init PROVE TypeOK
    OBVIOUS
  <2>1. PeersTyped /\ SpliceTyped
    BY ConstantTypes DEF Init, PeersTyped, SpliceTyped
  <2>2. StreamsTyped
    BY EmptySeq DEF Init, StreamsTyped, Dirs
  <2>3. CaptureTyped
    BY ConstantTypes, EmptySeq DEF Init, CaptureTyped, NoTurn
  <2> QED BY <2>1, <2>2, <2>3 DEF TypeOK
<1>2. TypeOK /\ [Next]_vars => TypeOK'
  <2> SUFFICES ASSUME TypeOK, [Next]_vars PROVE TypeOK'
    OBVIOUS
  <2>1. CASE UNCHANGED vars
    BY <2>1 DEF vars, peerVars, spliceVars, tapVars, captureVars, TypeOK, PeersTyped,
                SpliceTyped, StreamsTyped, CaptureTyped
  <2>2. CASE Next
    BY <2>1, <2>2, PeerTyped, SpliceKeepsTypes, ParserTyped DEF Next, Terminated
  <2> QED BY <2>1, <2>2
<1> QED BY <1>1, <1>2, PTL DEF Spec

-----------------------------------------------------------------------------
(***************************************************************************)
(* One response.create is stored at most once.  Turns reach the c->s       *)
(* parser in increasing order and once each, so a request that was         *)
(* consumed is never remembered again.                                     *)
(***************************************************************************)
\* Messages the c->s splice has dealt with, forwarding and tapping.
Passed == IF splice["c2s"] = "tapping" THEN forwarded["c2s"] - 1 ELSE forwarded["c2s"]

\* The agent's n-th message asks turn n.
AskedInOrder ==
    /\ Len(sent["c2s"]) = asked
    /\ \A i \in 1..Len(sent["c2s"]) : sent["c2s"][i].turn = i

\* What waits in the c->s tap is newer than what was decoded, and in order.
TapInOrder ==
    /\ heard <= Passed
    /\ \A i \in 1..Len(tap["c2s"]) : heard < tap["c2s"][i].turn /\ tap["c2s"][i].turn <= Passed
    /\ \A i, j \in 1..Len(tap["c2s"]) : i < j => tap["c2s"][i].turn < tap["c2s"][j].turn

\* A stored request was decoded and is no longer remembered.
StoredIsConsumed ==
    /\ lastReq <= heard
    /\ \A i \in 1..Len(stored) : stored[i].req <= heard /\ stored[i].req # lastReq
    /\ StoredOnce

QuestionInv == AskedInOrder /\ TapInOrder /\ StoredIsConsumed

\* Only the agent's next question extends the c->s stream, by one turn.
LEMMA PeerAsksInOrder ==
    ASSUME TypeOK, QuestionInv, Peer
    PROVE  QuestionInv'
<1>1. UNCHANGED <<spliceVars, tapVars, captureVars>>
  BY DEF Peer
<1>2. TapInOrder' /\ StoredIsConsumed'
  BY <1>1 DEF QuestionInv, TapInOrder, StoredIsConsumed, StoredOnce, Passed,
              spliceVars, tapVars, captureVars
<1>3. CASE Ask
  <2>1. /\ sent' = [sent EXCEPT !["c2s"] = sent["c2s"] \o <<Create(asked + 1)>>]
        /\ asked' = asked + 1
    BY <1>3 DEF Ask, Say
  <2>2. sent["c2s"] \in Seq(ClientMsgs) /\ sent \in [Dirs -> Seq(ClientMsgs \cup ServerMsgs)]
    BY DEF TypeOK, StreamsTyped
  <2>3. asked + 1 \in Nat /\ Create(asked + 1).turn = asked + 1
    BY DEF TypeOK, PeersTyped, Create
  <2>4. sent'["c2s"] = sent["c2s"] \o <<Create(asked + 1)>>
    BY <2>1, <2>2 DEF Dirs
  <2>5. Create(asked + 1) \in ClientMsgs
    BY <1>3, ConstantTypes DEF Ask, ClientMsgs, Turns, TypeOK, PeersTyped
  <2>6. sent'["c2s"] = Append(sent["c2s"], Create(asked + 1))
    BY <2>2, <2>4, <2>5, AppendIsConcat
  <2>7. /\ Len(sent'["c2s"]) = Len(sent["c2s"]) + 1
        /\ \A i \in 1..Len(sent["c2s"]) : sent'["c2s"][i] = sent["c2s"][i]
        /\ sent'["c2s"][Len(sent["c2s"]) + 1] = Create(asked + 1)
        /\ Len(sent["c2s"]) \in Nat
    BY <2>2, <2>5, <2>6, AppendProperties, LenProperties
  <2>8. AskedInOrder'
    BY <2>1, <2>3, <2>7 DEF QuestionInv, AskedInOrder
  <2> QED BY <1>2, <2>8 DEF QuestionInv
<1>4. ASSUME sent'["c2s"] = sent["c2s"], asked' = asked PROVE QuestionInv'
  BY <1>2, <1>4 DEF QuestionInv, AskedInOrder
<1>5. CASE Stream \/ EndResponse \/ Redeliver
  <2>1. asked' = asked /\ \E msgs : sent' = [sent EXCEPT !["s2c"] = sent["s2c"] \o msgs]
    BY <1>5 DEF Stream, EndResponse, Redeliver, Say
  <2>2. sent \in [Dirs -> Seq(ClientMsgs \cup ServerMsgs)]
    BY DEF TypeOK, StreamsTyped
  <2>3. sent'["c2s"] = sent["c2s"]
    BY <2>1, <2>2 DEF Dirs
  <2> QED BY <1>4, <2>1, <2>3
<1>6. CASE (\E d \in Dirs : HalfClose(d)) \/ (\E q \in Breakable : Break(q))
  BY <1>4, <1>6 DEF HalfClose, Break
<1> QED BY <1>3, <1>5, <1>6 DEF Peer

\* Tapping a chunk keeps the tap in order; forwarding one only widens the bound.
LEMMA SpliceKeepsOrder ==
    ASSUME TypeOK, QuestionInv,
           Upgrade \/ HandshakeFails \/ Return \/ \E d \in Dirs : Splice(d)
    PROVE  QuestionInv'
<1>1. UNCHANGED <<peerVars, captureVars>>
  BY DEF Upgrade, HandshakeFails, Return, Splice, Copy, StopCopying, OfferTap
<1>2. AskedInOrder' /\ StoredIsConsumed'
  BY <1>1 DEF QuestionInv, AskedInOrder, StoredIsConsumed, StoredOnce, peerVars, captureVars
<1>3. /\ forwarded \in [Dirs -> Nat] /\ heard \in Nat
      /\ splice \in [Dirs -> {"idle", "copying", "tapping", "done"}]
      /\ tap \in [Dirs -> Seq(ClientMsgs \cup ServerMsgs)]
      /\ tap["c2s"] \in Seq(ClientMsgs)
      /\ sent["c2s"] \in Seq(ClientMsgs)
  BY DEF TypeOK, SpliceTyped, StreamsTyped, CaptureTyped
<1>4. \A i \in 1..Len(tap["c2s"]) : tap["c2s"][i].turn \in Nat
  BY <1>3, ElementOfSeq, CreateTurn DEF Turns
<1>5. ASSUME tap'["c2s"] = tap["c2s"], Passed' \in Nat, Passed' >= Passed, Passed \in Int
      PROVE  TapInOrder'
  BY <1>1, <1>3, <1>4, <1>5 DEF QuestionInv, TapInOrder, captureVars
<1>6. Passed \in Int
  BY <1>3 DEF Passed, Dirs
<1>7. CASE Upgrade \/ HandshakeFails \/ Return
  <2>1. tap' = tap /\ forwarded' = forwarded
    BY <1>7 DEF Upgrade, HandshakeFails, Return, tapVars
  <2>2. splice'["c2s"] = splice["c2s"] \/ splice'["c2s"] = "copying"
    BY <1>7 DEF Upgrade, HandshakeFails, Return, Dirs
  <2>3. splice["c2s"] = "tapping" => forwarded["c2s"] > 0
    BY DEF TypeOK, StreamsTyped, Dirs
  <2>4. Passed' \in Nat /\ Passed' >= Passed
    BY <1>3, <2>1, <2>2, <2>3 DEF Passed, Dirs
  <2> QED BY <1>2, <1>5, <1>6, <2>1, <2>4 DEF QuestionInv
<1>8. ASSUME NEW d \in Dirs, Copy(d) \/ StopCopying(d) PROVE QuestionInv'
  <2>1. tap' = tap
    BY <1>8 DEF Copy, StopCopying, tapVars
  <2>2. \/ /\ splice[d] = "copying"
           /\ forwarded' = [forwarded EXCEPT ![d] = @ + 1]
           /\ \E x \in {"tapping", "copying"} : splice' = [splice EXCEPT ![d] = x]
        \/ /\ splice[d] = "copying"
           /\ forwarded' = forwarded
           /\ splice' = [splice EXCEPT ![d] = "done"]
    BY <1>8 DEF Copy, StopCopying
  <2>3. splice["c2s"] = "tapping" => forwarded["c2s"] > 0
    BY DEF TypeOK, StreamsTyped, Dirs
  <2>4. Passed' \in Nat /\ Passed' >= Passed
    BY <1>3, <2>2, <2>3 DEF Passed, Dirs
  <2> QED BY <1>2, <1>5, <1>6, <2>1, <2>4 DEF QuestionInv
<1>9. ASSUME NEW d \in Dirs, OfferTap(d) PROVE QuestionInv'
  <2>1. /\ splice[d] = "tapping" /\ splice' = [splice EXCEPT ![d] = "copying"]
        /\ forwarded' = forwarded
        /\ tap' = tap \/ tap' = [tap EXCEPT ![d] = Append(@, sent[d][forwarded[d]])]
    BY <1>9 DEF OfferTap, spliceVars
  <2>2. splice["c2s"] = "tapping" => forwarded["c2s"] > 0
    BY DEF TypeOK, StreamsTyped, Dirs
  <2>3. Passed' \in Nat /\ Passed' >= Passed
    BY <1>3, <2>1, <2>2 DEF Passed, Dirs
  <2>4. CASE tap'["c2s"] = tap["c2s"]
    BY <1>2, <1>5, <1>6, <2>3, <2>4 DEF QuestionInv
  <2>5. CASE tap'["c2s"] # tap["c2s"]
    <3>1. d = "c2s" /\ tap' = [tap EXCEPT !["c2s"] = Append(@, sent["c2s"][forwarded["c2s"]])]
      BY <1>3, <2>1, <2>5 DEF Dirs
    <3> DEFINE m == sent["c2s"][forwarded["c2s"]]
    <3>2. forwarded["c2s"] \in 1..Len(sent["c2s"])
      BY <1>3, <2>1, <2>2, <3>1, LenProperties DEF TypeOK, StreamsTyped, Dirs
    <3>3. m \in ClientMsgs /\ m.turn = forwarded["c2s"]
      BY <1>3, <3>2, ElementOfSeq DEF QuestionInv, AskedInOrder
    <3>4. Passed = forwarded["c2s"] - 1 /\ Passed' = forwarded["c2s"]
      BY <1>3, <2>1, <3>1 DEF Passed, Dirs
    <3>5. tap'["c2s"] = Append(tap["c2s"], m)
      BY <1>3, <3>1 DEF Dirs
    <3> HIDE DEF m
    <3>6. /\ Len(tap'["c2s"]) = Len(tap["c2s"]) + 1
          /\ \A i \in 1..Len(tap["c2s"]) : tap'["c2s"][i] = tap["c2s"][i]
          /\ tap'["c2s"][Len(tap["c2s"]) + 1] = m
      BY <1>3, <3>3, <3>5, AppendProperties
    <3>7. Len(tap["c2s"]) \in Nat /\ forwarded["c2s"] \in Nat
      BY <1>3, LenProperties DEF Dirs
    <3>8. TapInOrder'
      <4> DEFINE k == Len(tap["c2s"])
      <4>1. /\ heard' = heard /\ heard <= Passed
            /\ \A i \in 1..k : heard < tap["c2s"][i].turn /\ tap["c2s"][i].turn <= Passed
            /\ \A i, j \in 1..k : i < j => tap["c2s"][i].turn < tap["c2s"][j].turn
        BY <1>1 DEF QuestionInv, TapInOrder, captureVars
      <4>2. tap'["c2s"][k + 1].turn = Passed' /\ heard < Passed' /\ Passed' = Passed + 1
        <5>1. tap'["c2s"][k + 1].turn = forwarded["c2s"]
          BY <3>3, <3>6
        <5>2. heard \in Nat /\ heard <= Passed
          BY <1>3, <4>1
        <5> QED BY <3>4, <3>7, <5>1, <5>2
      <4>3. \A i \in 1..k : tap'["c2s"][i].turn = tap["c2s"][i].turn
        BY <3>6
      <4>4. Len(tap'["c2s"]) = k + 1 /\ k \in Nat /\ Passed \in Int
        BY <3>6, <3>7, <1>6
      <4>5. \A i \in 1..k : tap["c2s"][i].turn \in Nat
        BY <1>4
      <4> HIDE DEF k
      <4>6. \A i \in 1..(k + 1) : heard' < tap'["c2s"][i].turn /\ tap'["c2s"][i].turn <= Passed'
        <5> SUFFICES ASSUME NEW i \in 1..(k + 1)
                     PROVE  heard' < tap'["c2s"][i].turn /\ tap'["c2s"][i].turn <= Passed'
          OBVIOUS
        <5>0. heard \in Nat /\ heard' = heard
          BY <1>3, <4>1
        <5>1. CASE i = k + 1
          BY <4>2, <4>4, <5>0, <5>1
        <5>2. CASE i \in 1..k
          <6>1. heard < tap["c2s"][i].turn /\ tap["c2s"][i].turn <= Passed
            BY <4>1, <5>2
          <6>2. tap'["c2s"][i].turn = tap["c2s"][i].turn /\ tap["c2s"][i].turn \in Nat
            BY <4>3, <4>5, <5>2
          <6> QED BY <4>2, <4>4, <5>0, <6>1, <6>2
        <5> QED BY <4>4, <5>1, <5>2
      <4>7. \A i, j \in 1..(k + 1) : i < j => tap'["c2s"][i].turn < tap'["c2s"][j].turn
        <5> SUFFICES ASSUME NEW i \in 1..(k + 1), NEW j \in 1..(k + 1), i < j
                     PROVE  tap'["c2s"][i].turn < tap'["c2s"][j].turn
          OBVIOUS
        <5>1. i \in 1..k /\ tap'["c2s"][i].turn = tap["c2s"][i].turn
          BY <4>3, <4>4
        <5>2. CASE j = k + 1
          BY <4>1, <4>2, <4>4, <4>5, <5>1, <5>2
        <5>3. CASE j \in 1..k
          BY <4>1, <4>3, <4>4, <4>5, <5>1, <5>3
        <5> QED BY <4>4, <5>2, <5>3
      <4> QED BY <1>3, <4>1, <4>2, <4>4, <4>6, <4>7 DEF TapInOrder
    <3> QED BY <1>2, <3>8 DEF QuestionInv
  <2> QED BY <2>4, <2>5
<1> QED BY <1>7, <1>8, <1>9 DEF Splice

\* A stored exchange names a turn.
LEMMA StoredTurn ==
    ASSUME CaptureTyped
    PROVE  \A i \in 1..Len(stored) : stored[i].req \in Nat \ {0}
<1> DEFINE X == [req : Turns, text : Seq(TextBytes)]
<1>1. stored \in Seq(X)
  BY DEF CaptureTyped
<1>2. \A x \in X : x.req \in Nat \ {0}
  BY DEF Turns
<1> HIDE DEF X
<1> QED BY <1>1, <1>2, ElementOfSeq

\* Decoding a request raises heard past everything stored; a completion
\* consumes the request it stores; nothing else touches them.
LEMMA ParserKeepsOrder ==
    ASSUME TypeOK, QuestionInv, NEW d \in Dirs, Parser(d)
    PROVE  QuestionInv'
<1>1. UNCHANGED <<peerVars, spliceVars>>
  BY DEF Parser, Parse, DecodeFails, ParserEOF
<1>2. AskedInOrder' /\ Passed' = Passed
  BY <1>1 DEF QuestionInv, AskedInOrder, Passed, peerVars, spliceVars
<1>3. /\ heard \in Nat /\ lastReq \in Nat
      /\ tap \in [Dirs -> Seq(ClientMsgs \cup ServerMsgs)]
      /\ tap["c2s"] \in Seq(ClientMsgs)
      /\ stored \in Seq([req : Turns, text : Seq(TextBytes)])
  BY DEF TypeOK, StreamsTyped, CaptureTyped
<1>4. \A i \in 1..Len(tap["c2s"]) : tap["c2s"][i].turn \in Nat
  BY <1>3, ElementOfSeq, CreateTurn DEF Turns
<1>5. ASSUME UNCHANGED <<tap, heard>> PROVE TapInOrder'
  BY <1>2, <1>5 DEF QuestionInv, TapInOrder
<1>6. ASSUME UNCHANGED captureVars PROVE StoredIsConsumed'
  BY <1>6 DEF QuestionInv, StoredIsConsumed, StoredOnce, captureVars
<1>7. CASE ParserEOF(d)
  BY <1>2, <1>5, <1>6, <1>7 DEF ParserEOF, tapVars, captureVars, QuestionInv
<1>8. ASSUME tap[d] # <<>>, tap' = [tap EXCEPT ![d] = Tail(@)], d = "c2s"
      PROVE  /\ tap["c2s"] # <<>> /\ Len(tap["c2s"]) \in Nat \ {0}
             /\ Len(tap'["c2s"]) = Len(tap["c2s"]) - 1
             /\ \A i \in 1..Len(tap'["c2s"]) : tap'["c2s"][i] = tap["c2s"][i + 1]
             /\ Head(tap["c2s"]) = tap["c2s"][1]
  <2>1. tap'["c2s"] = Tail(tap["c2s"]) /\ tap["c2s"] # <<>>
    BY <1>3, <1>8
  <2> QED BY <1>3, <2>1, HeadTailProperties, EmptySeq, LenProperties
<1>9. ASSUME d = "s2c", tap' = [tap EXCEPT ![d] = Tail(@)] PROVE tap'["c2s"] = tap["c2s"]
  BY <1>3, <1>9 DEF Dirs
<1>10. CASE DecodeFails(d)
  <2>1. tap[d] # <<>> /\ tap' = [tap EXCEPT ![d] = Tail(@)] /\ UNCHANGED captureVars
    BY <1>10 DEF DecodeFails
  <2>2. heard' = heard
    BY <2>1 DEF captureVars
  <2>3. CASE d = "c2s"
    <3>1. TapInOrder'
      BY <1>2, <1>4, <1>8, <2>1, <2>2, <2>3 DEF QuestionInv, TapInOrder
    <3> QED BY <1>2, <1>6, <2>1, <3>1 DEF QuestionInv
  <2>4. CASE d = "s2c"
    <3>1. TapInOrder'
      BY <1>2, <1>9, <2>1, <2>2, <2>4 DEF QuestionInv, TapInOrder
    <3> QED BY <1>2, <1>6, <2>1, <3>1 DEF QuestionInv
  <2> QED BY <2>3, <2>4, TwoDirs
<1>11. ASSUME Parse(d), d = "c2s" PROVE QuestionInv'
  <2>1. /\ tap[d] # <<>> /\ tap' = [tap EXCEPT ![d] = Tail(@)]
        /\ lastReq' = Head(tap["c2s"]).turn /\ heard' = Head(tap["c2s"]).turn
        /\ stored' = stored
    BY <1>11 DEF Parse, OnClient, Remember
  <2>2. /\ Len(tap["c2s"]) \in Nat \ {0}
        /\ Len(tap'["c2s"]) = Len(tap["c2s"]) - 1
        /\ \A i \in 1..Len(tap'["c2s"]) : tap'["c2s"][i] = tap["c2s"][i + 1]
        /\ heard' = tap["c2s"][1].turn /\ lastReq' = heard'
    BY <1>8, <1>11, <2>1
  <2>3. heard < heard' /\ heard' <= Passed /\ heard' \in Nat
    BY <1>4, <2>2 DEF QuestionInv, TapInOrder
  <2>4. TapInOrder'
    <3> DEFINE k == Len(tap["c2s"])
    <3>1. /\ \A i \in 1..k : tap["c2s"][i].turn <= Passed
          /\ \A i, j \in 1..k : i < j => tap["c2s"][i].turn < tap["c2s"][j].turn
      BY DEF QuestionInv, TapInOrder
    <3>2. \A i \in 1..(k - 1) : tap'["c2s"][i].turn = tap["c2s"][i + 1].turn
      BY <2>2
    <3>3. heard' = tap["c2s"][1].turn /\ k \in Nat \ {0} /\ Len(tap'["c2s"]) = k - 1
      BY <2>2
    <3> HIDE DEF k
    <3>4. \A i \in 1..(k - 1) : heard' < tap'["c2s"][i].turn /\ tap'["c2s"][i].turn <= Passed
      <4> TAKE i \in 1..(k - 1)
      <4>1. i + 1 \in 1..k /\ 1 \in 1..k /\ 1 < i + 1
        BY <3>3
      <4> QED BY <3>1, <3>2, <3>3, <4>1
    <3>5. \A i, j \in 1..(k - 1) : i < j => tap'["c2s"][i].turn < tap'["c2s"][j].turn
      <4> TAKE i, j \in 1..(k - 1)
      <4>1. i + 1 \in 1..k /\ j + 1 \in 1..k /\ (i < j => i + 1 < j + 1)
        BY <3>3
      <4>2. i < j => tap["c2s"][i + 1].turn < tap["c2s"][j + 1].turn
        BY <3>1, <4>1
      <4> QED BY <3>2, <4>2
    <3> QED BY <1>2, <2>3, <3>3, <3>4, <3>5 DEF TapInOrder
  <2>5. \A i \in 1..Len(stored) : stored[i].req \in Nat
    BY StoredTurn DEF TypeOK
  <2>6. StoredIsConsumed'
    <3>1. /\ \A i \in 1..Len(stored) : stored[i].req <= heard
          /\ StoredOnce
      BY DEF QuestionInv, StoredIsConsumed
    <3>2. stored' = stored /\ lastReq' = heard' /\ heard < heard' /\ heard \in Nat /\ heard' \in Nat
      BY <1>3, <2>1, <2>2, <2>3
    <3>3. StoredOnce'
      BY <3>1, <3>2 DEF StoredOnce
    <3>4. lastReq' <= heard'
      BY <3>2
    <3>5. \A i \in 1..Len(stored') : stored'[i].req <= heard' /\ stored'[i].req # lastReq'
      <4>1. \A i \in 1..Len(stored) : stored[i].req < heard'
        BY <2>5, <3>1, <3>2
      <4> QED BY <2>5, <3>2, <4>1
    <3> QED BY <3>3, <3>4, <3>5 DEF StoredIsConsumed
  <2> QED BY <1>2, <2>4, <2>6 DEF QuestionInv
<1>12. ASSUME Parse(d), d = "s2c" PROVE QuestionInv'
  <2> DEFINE m == Head(tap[d])
  <2>1. tap' = [tap EXCEPT ![d] = Tail(@)] /\ OnServer(m)
    BY <1>12 DEF Parse
  <2> HIDE DEF m
  <2>2. heard' = heard /\ tap'["c2s"] = tap["c2s"]
    BY <1>9, <1>12, <2>1 DEF OnServer, OnDelta, OnFailed, OnCompleted
  <2>3. TapInOrder'
    BY <1>2, <2>2 DEF QuestionInv, TapInOrder
  <2>4. \A i \in 1..Len(stored) : stored[i].req \in Nat \ {0}
    BY StoredTurn DEF TypeOK
  <2>5. CASE stored' = stored /\ (lastReq' = lastReq \/ lastReq' = NoTurn)
    <3>1. /\ lastReq <= heard /\ StoredOnce
          /\ \A i \in 1..Len(stored) : stored[i].req <= heard /\ stored[i].req # lastReq
      BY DEF QuestionInv, StoredIsConsumed
    <3>2. StoredOnce'
      BY <2>5, <3>1 DEF StoredOnce
    <3>3. \A i \in 1..Len(stored') : stored'[i].req <= heard' /\ stored'[i].req # lastReq'
      BY <2>2, <2>4, <2>5, <3>1 DEF NoTurn
    <3>4. lastReq' <= heard'
      BY <1>3, <2>2, <2>5, <3>1 DEF NoTurn
    <3> QED BY <1>2, <2>3, <3>2, <3>3, <3>4 DEF QuestionInv, StoredIsConsumed
  <2>6. CASE /\ lastReq # NoTurn /\ lastReq' = NoTurn
             /\ stored' = Append(stored, [req |-> lastReq, text |-> respText])
    <3> DEFINE x == [req |-> lastReq, text |-> respText]
    <3>1. x \in [req : Turns, text : Seq(TextBytes)] /\ x.req = lastReq
      BY <2>6 DEF TypeOK, CaptureTyped, NoTurn, Turns
    <3>2. /\ Len(stored') = Len(stored) + 1 /\ Len(stored) \in Nat
          /\ \A i \in 1..Len(stored) : stored'[i] = stored[i]
          /\ stored'[Len(stored) + 1] = x
      <4> HIDE DEF x
      <4>1. stored' = Append(stored, x)
        BY <2>6 DEF x
      <4> QED BY <1>3, <3>1, <4>1, AppendProperties, LenProperties
    <3>3. /\ lastReq <= heard /\ StoredOnce
          /\ \A i \in 1..Len(stored) : stored[i].req <= heard /\ stored[i].req # lastReq
      BY DEF QuestionInv, StoredIsConsumed
    <3> HIDE DEF x
    <3>4. StoredOnce'
      BY <3>1, <3>2, <3>3 DEF StoredOnce
    <3>5. \A i \in 1..Len(stored') : stored'[i].req <= heard' /\ stored'[i].req # lastReq'
      <4>1. heard' = heard /\ lastReq' = 0 /\ lastReq \in Nat \ {0} /\ heard \in Nat
        BY <1>3, <2>2, <2>6 DEF NoTurn
      <4> SUFFICES ASSUME NEW i \in 1..Len(stored')
                   PROVE  stored'[i].req <= heard' /\ stored'[i].req # lastReq'
        OBVIOUS
      <4>2. CASE i = Len(stored) + 1
        BY <3>1, <3>2, <3>3, <4>1, <4>2
      <4>3. CASE i \in 1..Len(stored)
        BY <2>4, <3>2, <3>3, <4>1, <4>3
      <4> QED BY <3>2, <4>2, <4>3
    <3>6. lastReq' <= heard'
      BY <1>3, <2>2, <2>6 DEF NoTurn
    <3> QED BY <1>2, <2>3, <3>4, <3>5, <3>6 DEF QuestionInv, StoredIsConsumed
  <2>7. \/ stored' = stored /\ (lastReq' = lastReq \/ lastReq' = NoTurn)
        \/ /\ lastReq # NoTurn /\ lastReq' = NoTurn
           /\ stored' = Append(stored, [req |-> lastReq, text |-> respText])
    BY <2>1 DEF OnServer, OnDelta, OnFailed, OnCompleted, Consumed
  <2>8. CASE stored' = stored /\ (lastReq' = lastReq \/ lastReq' = NoTurn)
    BY <1>2, <2>3, <2>5, <2>8 DEF QuestionInv
  <2> QED BY <2>6, <2>7, <2>8
<1> QED BY <1>7, <1>10, <1>11, <1>12, TwoDirs DEF Parser

\* One response.create is stored at most once ("A completion consumes the
\* request it paired with", wscapture.go), whatever the backend redelivers,
\* wherever a tap is abandoned and whenever a parser gives up.
THEOREM RequestStoredOnce == Spec => []StoredOnce
<1>1. Init => QuestionInv
  <2> SUFFICES ASSUME Init PROVE QuestionInv
    OBVIOUS
  <2>1. /\ sent["c2s"] = <<>> /\ tap["c2s"] = <<>> /\ stored = <<>>
        /\ asked = 0 /\ heard = 0 /\ lastReq = 0
        /\ forwarded["c2s"] = 0 /\ splice["c2s"] = "idle"
    BY DEF Init, NoTurn, Dirs
  <2>2. Len(sent["c2s"]) = 0 /\ Len(tap["c2s"]) = 0 /\ Len(stored) = 0
    BY <2>1, EmptySeq
  <2> QED BY <2>1, <2>2 DEF QuestionInv, AskedInOrder, TapInOrder, StoredIsConsumed, StoredOnce, Passed
<1>2. TypeOK /\ QuestionInv /\ [Next]_vars => QuestionInv'
  <2> SUFFICES ASSUME TypeOK, QuestionInv, [Next]_vars PROVE QuestionInv'
    OBVIOUS
  <2>1. CASE UNCHANGED vars
    BY <2>1 DEF vars, peerVars, spliceVars, tapVars, captureVars, QuestionInv, AskedInOrder,
                TapInOrder, StoredIsConsumed, StoredOnce, Passed
  <2>2. CASE Next
    BY <2>1, <2>2, PeerAsksInOrder, SpliceKeepsOrder, ParserKeepsOrder DEF Next, Terminated
  <2> QED BY <2>1, <2>2
<1>3. QuestionInv => StoredOnce
  BY DEF QuestionInv, StoredIsConsumed
<1> QED BY <1>1, <1>2, <1>3, TypeCorrect, PTL DEF Spec

-----------------------------------------------------------------------------
(***************************************************************************)
(* A turn is stored under the latest request decoded: whatever request is  *)
(* still unpaired is that one, since decoding a request replaces the one   *)
(* before it and nothing else brings one back.                             *)
(***************************************************************************)
UnpairedIsLatest == lastReq # NoTurn => lastReq = heard

\* What a step does to the unpaired request and to the stored turns.
LEMMA CaptureSteps ==
    ASSUME [Next]_vars
    PROVE  \/ UNCHANGED <<lastReq, heard, stored>>
           \/ lastReq' = heard' /\ stored' = stored
           \/ lastReq' = NoTurn /\ heard' = heard /\ stored' = stored
           \/ /\ lastReq # NoTurn /\ lastReq' = NoTurn /\ heard' = heard
              /\ stored' = Append(stored, [req |-> lastReq, text |-> respText])
<1>1. CASE UNCHANGED vars
  BY <1>1 DEF vars, captureVars
<1>2. CASE Peer \/ Upgrade \/ HandshakeFails \/ Return \/ (\E d \in Dirs : Splice(d))
  BY <1>2 DEF Peer, Upgrade, HandshakeFails, Return, Splice, Copy, StopCopying, OfferTap, captureVars
<1>3. ASSUME NEW d \in Dirs, DecodeFails(d) \/ ParserEOF(d)
      PROVE  UNCHANGED <<lastReq, heard, stored>>
  BY <1>3 DEF DecodeFails, ParserEOF, captureVars
<1>4. ASSUME NEW d \in Dirs, Parse(d), d = "c2s"
      PROVE  lastReq' = heard' /\ stored' = stored
  BY <1>4 DEF Parse, OnClient, Remember
<1>5. ASSUME NEW d \in Dirs, Parse(d), d # "c2s"
      PROVE  \/ UNCHANGED <<lastReq, heard, stored>>
             \/ lastReq' = NoTurn /\ heard' = heard /\ stored' = stored
             \/ /\ lastReq # NoTurn /\ lastReq' = NoTurn /\ heard' = heard
                /\ stored' = Append(stored, [req |-> lastReq, text |-> respText])
  <2>1. PICK m : OnServer(m)
    BY <1>5 DEF Parse
  <2> QED BY <2>1 DEF OnServer, OnDelta, OnFailed, OnCompleted, Consumed
<1> QED BY <1>1, <1>2, <1>3, <1>4, <1>5 DEF Next, Terminated, Parser

\* A turn is stored under the latest request the c->s parser has decoded,
\* never under an unpaired one that came before it, for any number of turns
\* and whatever the two parsers' relative speed.
THEOREM PairedWithLatest == Spec => PairsLatestHeard
<1>1. Init => UnpairedIsLatest
  BY DEF Init, UnpairedIsLatest
<1>2. UnpairedIsLatest /\ [Next]_vars => UnpairedIsLatest'
  BY CaptureSteps DEF UnpairedIsLatest
<1>3. TypeOK /\ UnpairedIsLatest /\ [Next]_vars => [stored' # stored => Last(stored').req = heard]_vars
  <2> SUFFICES ASSUME TypeOK, UnpairedIsLatest, [Next]_vars, stored' # stored
               PROVE  Last(stored').req = heard
    OBVIOUS
  <2>1. /\ lastReq # NoTurn
        /\ stored' = Append(stored, [req |-> lastReq, text |-> respText])
    BY CaptureSteps
  <2> DEFINE X == [req : Turns, text : Seq(TextBytes)]
  <2> DEFINE x == [req |-> lastReq, text |-> respText]
  <2>2. stored \in Seq(X) /\ x \in X /\ x.req = heard
    BY <2>1 DEF TypeOK, CaptureTyped, UnpairedIsLatest, NoTurn, Turns
  <2>3. stored' = Append(stored, x)
    BY <2>1
  <2> HIDE DEF X, x
  <2>4. Last(stored') = x
    BY <2>2, <2>3, AppendProperties, LenProperties DEF Last
  <2> QED BY <2>2, <2>4
<1> QED BY <1>1, <1>2, <1>3, TypeCorrect, PTL DEF Spec, PairsLatestHeard

-----------------------------------------------------------------------------
(***************************************************************************)
(* A stored answer is whole.  The backend's stream is well formed message  *)
(* by message: a response is its deltas in order and a terminal event, and *)
(* what it sends again is a whole response or a terminal event.  The s->c  *)
(* tap is an uncut piece of that stream, since a tap that was abandoned is *)
(* never offered anything again; so the text accumulated so far is exactly *)
(* the deltas of the response the parser stands in.                        *)
(***************************************************************************)
Start == [kind |-> "start"]
At(s, p) == IF p = 0 THEN Start ELSE s[p]

\* m may follow before when `done' turns have ended with n[t] deltas each.
Follows(m, before, done, n) ==
    \/ m.kind = "delta" /\ m.part = 1 /\ before.kind # "delta"
    \/ m.kind = "delta" /\ m.part > 1 /\ before = Delta(m.turn, m.part - 1)
    \/ /\ m.kind # "delta" /\ m.turn <= done
       /\ before.kind = "delta" => before = Delta(m.turn, n[m.turn])

WellFormed(s, done, n) == \A p \in 1..Len(s) : Follows(At(s, p), At(s, p - 1), done, n)

\* The text of the response that message m stands in, up to m.
TextAt(m) == IF m.kind = "delta" THEN AnswerTo(m.turn)[m.part] ELSE <<>>

\* Messages the s->c splice has dealt with, forwarding and tapping.
Copied == IF splice["s2c"] = "tapping" THEN forwarded["s2c"] - 1 ELSE forwarded["s2c"]

\* The s->c parser has heard the first k messages of the stream.
HeardUpTo(k) ==
    /\ k + Len(tap["s2c"]) <= Copied
    /\ tapState["s2c"] = "open" => k + Len(tap["s2c"]) = Copied
    /\ \A i \in 1..Len(tap["s2c"]) : tap["s2c"][i] = sent["s2c"][k + i]
    /\ respText = TextAt(At(sent["s2c"], k))

StreamInv ==
    /\ WellFormed(sent["s2c"], answered, parts)
    /\ emitted = 0 => At(sent["s2c"], Len(sent["s2c"])).kind # "delta"
    /\ emitted # 0 => At(sent["s2c"], Len(sent["s2c"])) = Delta(answered + 1, emitted)

TapInv ==
    /\ phase = "handshake" => forwarded["s2c"] = 0 /\ splice["s2c"] = "idle" /\ parser["s2c"] = "none"
    /\ splice["s2c"] = "tapping" => tapState["s2c"] = "open"
    /\ parser["s2c"] # "stopped" => \E k \in Nat : HeardUpTo(k)

AnswerInv == StreamInv /\ TapInv /\ AnswerIsWhole

\* A server message is a delta of some turn or a terminal event of one.
LEMMA ServerMsgKinds ==
    ASSUME NEW m \in ServerMsgs
    PROVE  /\ m.turn \in Turns
           /\ m.kind = "delta" => m.part \in 1..MaxParts /\ m = Delta(m.turn, m.part)
           /\ m.kind = "completed" => m = Completed(m.turn)
BY DEF ServerMsgs, Deltas, Terminal, Delta, Completed, Failed

\* Deltas and terminal events say which they are.
LEMMA KindsOf ==
    /\ \A t, i : /\ Delta(t, i).kind = "delta" /\ Delta(t, i).turn = t /\ Delta(t, i).part = i
    /\ \A t : \A m \in Terminal(t) : m.kind # "delta" /\ m.turn = t
    /\ Start.kind # "delta"
BY DEF Delta, Terminal, Completed, Failed, Start

\* A stream is extended by a message that may follow its last one.
LEMMA WellFormedAppend ==
    ASSUME NEW s \in Seq(ServerMsgs), NEW m \in ServerMsgs, NEW done, NEW n,
           WellFormed(s, done, n), Follows(m, At(s, Len(s)), done, n)
    PROVE  /\ WellFormed(Append(s, m), done, n)
           /\ At(Append(s, m), Len(Append(s, m))) = m
<1> DEFINE c == Append(s, m)
<1>1. /\ Len(c) = Len(s) + 1 /\ Len(s) \in Nat
      /\ \A i \in 1..Len(s) : c[i] = s[i]
      /\ c[Len(s) + 1] = m
  BY AppendProperties, LenProperties
<1> HIDE DEF c
<1>2. \A p \in 0..Len(s) : At(c, p) = At(s, p)
  BY <1>1 DEF At
<1>3. At(c, Len(s) + 1) = m
  BY <1>1 DEF At
<1>4. ASSUME NEW p \in 1..Len(c) PROVE Follows(At(c, p), At(c, p - 1), done, n)
  <2>1. CASE p = Len(s) + 1
    <3>1. At(c, p) = m /\ At(c, p - 1) = At(s, Len(s))
      BY <1>1, <1>2, <1>3, <2>1
    <3> QED BY <3>1
  <2>2. CASE p \in 1..Len(s)
    <3>1. At(c, p) = At(s, p) /\ At(c, p - 1) = At(s, p - 1)
      BY <1>1, <1>2, <2>2
    <3> QED BY <2>2, <3>1 DEF WellFormed
  <2> QED BY <1>1, <2>1, <2>2
<1>5. WellFormed(c, done, n) /\ At(c, Len(c)) = m
  BY <1>1, <1>3, <1>4 DEF WellFormed
<1> QED BY <1>5 DEF c

\* Ending one more turn leaves what was said well formed.
LEMMA WellFormedGrows ==
    ASSUME NEW s \in Seq(ServerMsgs), NEW done \in Nat, NEW n, NEW n2,
           WellFormed(s, done, n),
           \A t \in Turns : t <= done => n2[t] = n[t]
    PROVE  WellFormed(s, done + 1, n2)
<1> SUFFICES ASSUME NEW p \in 1..Len(s)
             PROVE  Follows(At(s, p), At(s, p - 1), done + 1, n2)
  BY DEF WellFormed
<1>1. At(s, p) = s[p] /\ s[p] \in ServerMsgs
  BY ElementOfSeq, LenProperties DEF At
<1>2. s[p].turn \in Turns /\ s[p].turn \in Nat
  BY <1>1, ServerMsgKinds, ConstantTypes DEF Turns
<1> DEFINE m == s[p]
<1> DEFINE b == At(s, p - 1)
<1>3. Follows(m, b, done, n)
  BY <1>1 DEF WellFormed
<1>4. m.turn \in Turns /\ m.turn \in Nat
  BY <1>2
<1> HIDE DEF m, b
<1>5. Follows(m, b, done + 1, n2)
  <2>1. CASE m.kind = "delta"
    BY <1>3, <2>1 DEF Follows
  <2>2. CASE m.kind # "delta"
    <3>1. m.turn <= done /\ (b.kind = "delta" => b = Delta(m.turn, n[m.turn]))
      BY <1>3, <2>2 DEF Follows
    <3>2. n2[m.turn] = n[m.turn] /\ m.turn <= done + 1
      BY <1>4, <3>1
    <3> QED BY <2>2, <3>1, <3>2 DEF Follows
  <2> QED BY <2>1, <2>2
<1> QED BY <1>1, <1>5 DEF m, b

\* A whole response of an ended turn may be sent again after a terminal event.
LEMMA WellFormedAgain ==
    ASSUME NEW s \in Seq(ServerMsgs), NEW t \in Turns, NEW done \in Nat, t <= done,
           NEW n \in [Turns -> 0..MaxParts],
           WellFormed(s, done, n), At(s, Len(s)).kind # "delta",
           NEW m \in Terminal(t),
           NEW w \in Seq(ServerMsgs), Len(w) = n[t], \A i \in 1..n[t] : w[i] = Delta(t, i)
    PROVE  /\ WellFormed(s \o Append(w, m), done, n)
           /\ At(s \o Append(w, m), Len(s \o Append(w, m))) = m
<1> DEFINE c == s \o Append(w, m)
<1>1. n[t] \in Nat /\ Len(s) \in Nat
  BY LenProperties, ConstantTypes
<1>2. /\ w \in Seq(ServerMsgs) /\ Len(w) = n[t]
      /\ \A i \in 1..n[t] : w[i] = Delta(t, i)
  OBVIOUS
<1>3. m \in ServerMsgs
  BY DEF ServerMsgs
<1>4. /\ Append(w, m) \in Seq(ServerMsgs) /\ Len(Append(w, m)) = n[t] + 1
      /\ \A i \in 1..n[t] : Append(w, m)[i] = Delta(t, i)
      /\ Append(w, m)[n[t] + 1] = m
  BY <1>2, <1>3, AppendProperties
<1> DEFINE a == Append(w, m)
<1> HIDE DEF a
<1>5. /\ a \in Seq(ServerMsgs) /\ Len(a) = n[t] + 1
      /\ \A i \in 1..n[t] : a[i] = Delta(t, i)
      /\ a[n[t] + 1] = m
  BY <1>4 DEF a
<1>6. /\ Len(s \o a) = Len(s) + n[t] + 1
      /\ \A i \in 1..Len(s) : (s \o a)[i] = s[i]
      /\ \A i \in 1..(n[t] + 1) : (s \o a)[Len(s) + i] = a[i]
  <2>1. /\ Len(s \o a) = Len(s) + Len(a)
        /\ \A i \in 1..(Len(s) + Len(a)) :
              (s \o a)[i] = IF i <= Len(s) THEN s[i] ELSE a[i - Len(s)]
    BY <1>5, ConcatProperties
  <2>2. ASSUME NEW i \in 1..(n[t] + 1) PROVE (s \o a)[Len(s) + i] = a[i]
    <3>1. Len(s) + i \in 1..(Len(s) + Len(a)) /\ ~(Len(s) + i <= Len(s)) /\ (Len(s) + i) - Len(s) = i
      BY <1>1, <1>5
    <3> QED BY <2>1, <3>1
  <2> QED BY <1>1, <1>5, <2>1, <2>2
<1>7. c = s \o a
  BY DEF a
<1> HIDE DEF c
<1>8. \A p \in 0..Len(s) : At(c, p) = At(s, p)
  BY <1>1, <1>6, <1>7 DEF At
<1>9. \A i \in 1..n[t] : At(c, Len(s) + i) = Delta(t, i)
  BY <1>1, <1>5, <1>6, <1>7 DEF At
<1>10. At(c, Len(s) + n[t] + 1) = m
  <2>1. n[t] + 1 \in 1..(n[t] + 1) /\ Len(s) + (n[t] + 1) = Len(s) + n[t] + 1 /\ Len(s) + n[t] + 1 # 0
    BY <1>1
  <2>2. c[Len(s) + n[t] + 1] = m
    BY <1>5, <1>6, <1>7, <2>1
  <2> QED BY <2>1, <2>2 DEF At
<1>11. Len(c) = Len(s) + n[t] + 1
  BY <1>6, <1>7
<1>12. ASSUME NEW p \in 1..Len(c) PROVE Follows(At(c, p), At(c, p - 1), done, n)
  <2>1. CASE p \in 1..Len(s)
    <3>1. At(c, p) = At(s, p) /\ At(c, p - 1) = At(s, p - 1)
      BY <1>1, <1>8, <2>1
    <3> QED BY <2>1, <3>1 DEF WellFormed
  <2>2. CASE p = Len(s) + 1 /\ n[t] > 0
    <3>1. At(c, p) = Delta(t, 1)
      BY <1>1, <1>9, <2>2
    <3>2. At(c, p - 1) = At(s, Len(s))
      BY <1>1, <1>8, <2>2
    <3>3. At(c, p).kind = "delta" /\ At(c, p).part = 1 /\ At(c, p - 1).kind # "delta"
      BY <3>1, <3>2, KindsOf
    <3> QED BY <3>3 DEF Follows
  <2>3. CASE p - Len(s) \in 2..n[t]
    <3> DEFINE i == p - Len(s)
    <3>1. i \in 2..n[t] /\ i - 1 \in 1..n[t] /\ i \in 1..n[t] /\ p = Len(s) + i /\ p - 1 = Len(s) + (i - 1)
      BY <1>1, <2>3
    <3> HIDE DEF i
    <3>2. At(c, p) = Delta(t, i) /\ At(c, p - 1) = Delta(t, i - 1)
      BY <1>9, <3>1
    <3>3. /\ At(c, p).kind = "delta" /\ At(c, p).part = i /\ At(c, p).turn = t
      BY <3>2, KindsOf
    <3>4. i > 1
      BY <3>1
    <3> QED BY <3>2, <3>3, <3>4 DEF Follows
  <2>4. CASE p = Len(s) + n[t] + 1
    <3>1. At(c, p) = m /\ m.kind # "delta" /\ m.turn = t
      BY <1>10, <2>4, KindsOf
    <3>2. CASE n[t] = 0
      <4>1. At(c, p - 1) = At(s, Len(s))
        BY <1>1, <1>8, <2>4, <3>2
      <4> QED BY <3>1, <4>1 DEF Follows
    <3>3. CASE n[t] > 0
      <4>1. n[t] \in 1..n[t] /\ p - 1 = Len(s) + n[t]
        BY <1>1, <2>4, <3>3
      <4>2. At(c, p - 1) = Delta(t, n[t])
        BY <1>9, <4>1
      <4> QED BY <3>1, <4>2 DEF Follows
    <3> QED BY <1>1, <3>2, <3>3
  <2> QED BY <1>1, <1>11, <2>1, <2>2, <2>3, <2>4
<1>13. WellFormed(c, done, n) /\ At(c, Len(c)) = m
  BY <1>10, <1>11, <1>12 DEF WellFormed
<1> QED BY <1>13 DEF c

\* A step of a peer keeps the backend's stream well formed: it grows at its
\* end, and what the answers of the ended turns are made of does not change.
LEMMA PeerKeepsStream ==
    ASSUME TypeOK, StreamInv, Peer
    PROVE  /\ StreamInv'
           /\ Len(sent'["s2c"]) >= Len(sent["s2c"])
           /\ \A p \in 1..Len(sent["s2c"]) : sent'["s2c"][p] = sent["s2c"][p]
           /\ \A t \in Turns : t <= answered => parts'[t] = parts[t]
<1> DEFINE S == sent["s2c"]
<1> DEFINE Goal(new) ==
      /\ StreamInv'
      /\ Len(new) >= Len(S)
      /\ \A p \in 1..Len(S) : new[p] = S[p]
      /\ \A t \in Turns : t <= answered => parts'[t] = parts[t]
<1>1. /\ sent \in [Dirs -> Seq(ClientMsgs \cup ServerMsgs)]
      /\ S \in Seq(ServerMsgs) /\ Len(S) \in Nat
      /\ answered \in Nat /\ emitted \in Nat
      /\ parts \in [Turns -> 0..MaxParts]
  BY LenProperties, ConstantTypes DEF TypeOK, StreamsTyped, PeersTyped
<1>2. /\ WellFormed(S, answered, parts)
      /\ emitted = 0 => At(S, Len(S)).kind # "delta"
      /\ emitted # 0 => At(S, Len(S)) = Delta(answered + 1, emitted)
  BY DEF StreamInv
<1> HIDE DEF S
<1>3. ASSUME sent'["s2c"] = S, UNCHANGED <<answered, emitted, parts>> PROVE Goal(sent'["s2c"])
  BY <1>1, <1>2, <1>3 DEF StreamInv
<1>4. CASE Ask
  <2>1. /\ UNCHANGED <<answered, emitted, parts>>
        /\ sent' = [sent EXCEPT !["c2s"] = sent["c2s"] \o <<Create(asked + 1)>>]
    BY <1>4 DEF Ask, Say
  <2>2. sent'["s2c"] = S
    BY <1>1, <2>1 DEF S, Dirs
  <2> QED BY <1>3, <2>1, <2>2 DEF S
<1>5. CASE (\E d \in Dirs : HalfClose(d)) \/ (\E q \in Breakable : Break(q))
  <2>1. UNCHANGED <<sent, answered, emitted, parts>>
    BY <1>5 DEF HalfClose, Break
  <2> QED BY <1>3, <2>1 DEF S
<1>6. CASE Stream
  <2> DEFINE m == Delta(answered + 1, emitted + 1)
  <2>1. m \in ServerMsgs
    BY <1>1, <1>6, ConstantTypes DEF Stream, BackendHas, ServerMsgs, Deltas
  <2>2. /\ sent' = [sent EXCEPT !["s2c"] = sent["s2c"] \o <<m>>]
        /\ emitted' = emitted + 1 /\ UNCHANGED <<answered, parts>>
    BY <1>6 DEF Stream, Say
  <2>3. m.kind = "delta" /\ m.part = emitted + 1 /\ m.turn = answered + 1
    BY KindsOf
  <2> HIDE DEF m
  <2>4. sent'["s2c"] = Append(S, m)
    BY <1>1, <2>1, <2>2, AppendIsConcat DEF S, Dirs
  <2>5. Follows(m, At(S, Len(S)), answered, parts)
    <3>1. CASE emitted = 0
      BY <1>2, <2>3, <3>1 DEF Follows
    <3>2. CASE emitted # 0
      <4>1. m.part > 1 /\ m.part - 1 = emitted
        BY <1>1, <2>3, <3>2
      <4>2. At(S, Len(S)) = Delta(m.turn, m.part - 1)
        BY <1>2, <2>3, <3>2, <4>1
      <4> QED BY <2>3, <4>1, <4>2 DEF Follows
    <3> QED BY <3>1, <3>2
  <2>6. WellFormed(Append(S, m), answered, parts) /\ At(Append(S, m), Len(Append(S, m))) = m
    BY <1>1, <1>2, <2>1, <2>5, WellFormedAppend
  <2>7. emitted' # 0 /\ m = Delta(answered' + 1, emitted')
    BY <1>1, <2>2 DEF m
  <2>8. StreamInv'
    BY <2>2, <2>4, <2>6, <2>7 DEF StreamInv
  <2>9. Len(sent'["s2c"]) = Len(S) + 1 /\ \A p \in 1..Len(S) : sent'["s2c"][p] = S[p]
    BY <1>1, <2>1, <2>4, AppendProperties
  <2> QED BY <1>1, <2>2, <2>8, <2>9 DEF S
<1>7. CASE EndResponse
  <2>1. PICK m \in Terminal(answered + 1) : Say("s2c", <<m>>)
    BY <1>7 DEF EndResponse
  <2>2. answered + 1 \in Turns /\ m \in ServerMsgs
    BY <1>7, <2>1 DEF EndResponse, BackendHas, ServerMsgs
  <2>3. /\ sent' = [sent EXCEPT !["s2c"] = sent["s2c"] \o <<m>>]
        /\ emitted' = 0 /\ answered' = answered + 1
        /\ parts' = [parts EXCEPT ![answered + 1] = emitted]
    BY <1>7, <2>1 DEF EndResponse, Say
  <2>4. m.kind # "delta" /\ m.turn = answered + 1
    BY <2>1, KindsOf
  <2>5. sent'["s2c"] = Append(S, m)
    BY <1>1, <2>2, <2>3, AppendIsConcat DEF S, Dirs
  <2>6. /\ parts'[answered + 1] = emitted
        /\ \A t \in Turns : t <= answered => parts'[t] = parts[t]
    BY <1>1, <2>2, <2>3, ConstantTypes DEF Turns
  <2>7. WellFormed(S, answered + 1, parts')
    BY <1>1, <1>2, <2>6, WellFormedGrows
  <2>8. Follows(m, At(S, Len(S)), answered + 1, parts')
    <3>1. m.turn <= answered + 1
      BY <1>1, <2>4
    <3>2. At(S, Len(S)).kind = "delta" => At(S, Len(S)) = Delta(m.turn, parts'[m.turn])
      BY <1>2, <2>4, <2>6
    <3> QED BY <2>4, <3>1, <3>2 DEF Follows
  <2>9. /\ WellFormed(Append(S, m), answered + 1, parts')
        /\ At(Append(S, m), Len(Append(S, m))) = m
    BY <1>1, <2>2, <2>7, <2>8, WellFormedAppend
  <2>10. StreamInv'
    BY <2>3, <2>4, <2>5, <2>9 DEF StreamInv
  <2>11. Len(sent'["s2c"]) = Len(S) + 1 /\ \A p \in 1..Len(S) : sent'["s2c"][p] = S[p]
    BY <1>1, <2>2, <2>5, AppendProperties
  <2> QED BY <1>1, <2>6, <2>10, <2>11 DEF S
<1>8. CASE Redeliver
  <2> DEFINE whole == [i \in 1..parts[answered] |-> Delta(answered, i)]
  <2>1. PICK again \in {<<>>, whole}, m \in Terminal(answered) : Say("s2c", Append(again, m))
    BY <1>8 DEF Redeliver
  <2>2. /\ answered \in Turns /\ emitted = 0
        /\ UNCHANGED <<answered, emitted, parts>>
        /\ sent' = [sent EXCEPT !["s2c"] = sent["s2c"] \o Append(again, m)]
    <3>1. answered > 0 /\ emitted = 0 /\ UNCHANGED <<answered, emitted, parts>>
      BY <1>8 DEF Redeliver
    <3>2. answered \in Turns
      BY <3>1, ConstantTypes DEF Turns, TypeOK, PeersTyped
    <3> HIDE DEF whole
    <3>3. sent' = [sent EXCEPT !["s2c"] = sent["s2c"] \o Append(again, m)]
      BY <2>1 DEF Say
    <3> QED BY <3>1, <3>2, <3>3
  <2>3. m \in ServerMsgs /\ m.kind # "delta" /\ m.turn = answered
    BY <2>1, <2>2, KindsOf DEF ServerMsgs
  <2>4. sent'["s2c"] = S \o Append(again, m)
    BY <1>1, <2>2 DEF S, Dirs
  <2>5. CASE again = <<>>
    <3>1. sent'["s2c"] = Append(S, m)
      <4>1. Append(again, m) = <<m>>
        BY <2>5, <2>3
      <4> QED BY <1>1, <2>3, <2>4, <4>1, AppendIsConcat
    <3>2. Follows(m, At(S, Len(S)), answered, parts)
      BY <1>1, <1>2, <2>2, <2>3 DEF Follows
    <3>3. /\ WellFormed(Append(S, m), answered, parts)
          /\ At(Append(S, m), Len(Append(S, m))) = m
      BY <1>1, <1>2, <2>3, <3>2, WellFormedAppend
    <3>4. StreamInv'
      BY <2>2, <2>3, <3>1, <3>3 DEF StreamInv
    <3>5. Len(sent'["s2c"]) = Len(S) + 1 /\ \A p \in 1..Len(S) : sent'["s2c"][p] = S[p]
      BY <1>1, <2>3, <3>1, AppendProperties
    <3> QED BY <1>1, <2>2, <3>4, <3>5 DEF S
  <2>6. CASE again = whole
    <3> DEFINE c == S \o Append(whole, m)
    <3>1. WellFormed(c, answered, parts) /\ At(c, Len(c)) = m
      <4>1. answered <= answered /\ At(S, Len(S)).kind # "delta" /\ m \in Terminal(answered)
        BY <1>1, <1>2, <2>1, <2>2
      <4>2. /\ whole \in Seq(ServerMsgs) /\ Len(whole) = parts[answered]
            /\ \A i \in 1..parts[answered] : whole[i] = Delta(answered, i)
        <5>1. parts[answered] \in Nat /\ parts[answered] <= MaxParts
          BY <1>1, <2>2, ConstantTypes
        <5>2. \A i \in 1..parts[answered] : Delta(answered, i) \in ServerMsgs
          BY <2>2, <5>1, ConstantTypes DEF ServerMsgs, Deltas
        <5> QED BY <5>1, <5>2
      <4> HIDE DEF whole
      <4> QED BY <1>1, <1>2, <2>2, <4>1, <4>2, WellFormedAgain
    <3>2. sent'["s2c"] = c
      BY <2>4, <2>6
    <3>3. Len(c) >= Len(S) /\ \A p \in 1..Len(S) : c[p] = S[p]
      <4>1. whole \in Seq(ServerMsgs)
        BY <1>1, <2>2, ConstantTypes DEF ServerMsgs, Deltas
      <4> HIDE DEF whole
      <4>2. Append(whole, m) \in Seq(ServerMsgs) /\ Len(Append(whole, m)) \in Nat
        BY <2>3, <4>1, AppendProperties, LenProperties
      <4> QED BY <1>1, <4>2, ConcatProperties
    <3> HIDE DEF c
    <3>4. StreamInv'
      BY <2>2, <2>3, <3>1, <3>2 DEF StreamInv
    <3> QED BY <1>1, <2>2, <3>2, <3>3, <3>4 DEF S
  <2> QED BY <2>1, <2>5, <2>6
<1> QED BY <1>4, <1>5, <1>6, <1>7, <1>8 DEF Peer, S

\* The stored answers stay whole while the stream only grows and the parts of
\* the ended turns stand.
LEMMA StoredStaysWhole ==
    ASSUME TypeOK, StreamInv, AnswerIsWhole, stored' = stored,
           Len(sent["s2c"]) <= Len(sent'["s2c"]), Len(sent'["s2c"]) \in Nat,
           \A p \in 1..Len(sent["s2c"]) : sent'["s2c"][p] = sent["s2c"][p],
           \A t \in Turns : t <= answered => parts'[t] = parts[t]
    PROVE  AnswerIsWhole'
<1> DEFINE S == sent["s2c"]
<1>1. S \in Seq(ServerMsgs) /\ Len(S) \in Nat /\ answered \in Nat
  BY LenProperties, ConstantTypes DEF TypeOK, StreamsTyped, PeersTyped
<1>2. ASSUME NEW t \in Turns, Contains(S, Completed(t))
      PROVE  Contains(sent'["s2c"], Completed(t)) /\ parts'[t] = parts[t]
  <2>1. PICK p \in 1..Len(S) : S[p] = Completed(t)
    BY <1>2 DEF Contains
  <2>2. At(S, p) = Completed(t)
    BY <1>1, <2>1 DEF At
  <2>3. Follows(Completed(t), At(S, p - 1), answered, parts)
    BY <2>2 DEF StreamInv, WellFormed
  <2>4. Completed(t).kind # "delta" /\ Completed(t).turn = t
    BY DEF Completed
  <2>5. t <= answered
    BY <2>3, <2>4 DEF Follows
  <2>6. p \in 1..Len(sent'["s2c"]) /\ sent'["s2c"][p] = Completed(t)
    BY <1>1, <2>1
  <2> QED BY <2>5, <2>6 DEF Contains
<1>3. SUFFICES ASSUME NEW i \in 1..Len(stored)
               PROVE  /\ Len(stored[i].text) <= MaxText
                      /\ \E t \in Turns :
                            Contains(sent'["s2c"], Completed(t)) /\ stored[i].text = AnswerTo(t)[parts'[t]]
  BY DEF AnswerIsWhole
<1>4. PICK t \in Turns :
        /\ Contains(S, Completed(t)) /\ stored[i].text = AnswerTo(t)[parts[t]]
        /\ Len(stored[i].text) <= MaxText
  BY DEF AnswerIsWhole
<1>5. Contains(sent'["s2c"], Completed(t)) /\ parts'[t] = parts[t]
  BY <1>2, <1>4
<1> QED BY <1>4, <1>5

AnswerStep(t, f, n) == IF n = 0 THEN <<>> ELSE Extend(f[n - 1], Delta(t, n))

\* The answer, as a function of the deltas so far.
LEMMA AnswerToIs == \A t : AnswerTo(t) = CHOOSE f : f = [n \in 0..MaxParts |-> AnswerStep(t, f, n)]
BY DEF AnswerTo, AnswerStep

\* Its equation has a solution: by responses of growing length.
LEMMA AnswerExists ==
    ASSUME NEW t
    PROVE  \A n \in 0..MaxParts : AnswerTo(t)[n] = AnswerStep(t, AnswerTo(t), n)
<1> DEFINE Good(n, f) == f = [i \in 0..n |-> AnswerStep(t, f, i)]
           Bad == {n \in Nat : ~ \E f : Good(n, f)}
<1>1. ASSUME NEW n \in Bad, \A i \in Bad : n <= i PROVE FALSE
  <2>1. CASE n = 0
    <3>1. Good(0, [i \in 0..0 |-> <<>>])
      BY DEF AnswerStep
    <3> QED BY <2>1, <3>1
  <2>2. CASE n # 0
    <3>1. n \in Nat /\ n - 1 \in Nat
      BY <2>2
    <3>2. n - 1 \notin Bad
      <4> HIDE DEF Bad
      <4> QED BY <1>1, <3>1
    <3>3. PICK f : Good(n - 1, f)
      BY <3>1, <3>2
    <3> DEFINE h == [i \in 0..n |-> AnswerStep(t, f, i)]
    <3>4. \A i \in 0..(n - 1) : i \in 0..n /\ h[i] = f[i]
      <4>1. \A i \in 0..(n - 1) : i \in 0..n
        BY <3>1
      <4> QED BY <3>3, <4>1
    <3>5. \A i \in 0..n : AnswerStep(t, f, i) = AnswerStep(t, h, i)
      <4> SUFFICES ASSUME NEW i \in 0..n, i # 0 PROVE AnswerStep(t, f, i) = AnswerStep(t, h, i)
        BY DEF AnswerStep
      <4>1. i - 1 \in 0..(n - 1)
        BY <3>1
      <4>2. f[i - 1] = h[i - 1]
        BY <3>4, <4>1
      <4> HIDE DEF h
      <4> QED BY <4>2 DEF AnswerStep
    <3>6. Good(n, h)
      BY <3>5
    <3> QED BY <3>1, <3>6
  <2> QED BY <2>1, <2>2
<1>2. Bad = {}
  <2>1. Bad \in SUBSET Nat
    OBVIOUS
  <2> HIDE DEF Bad
  <2> QED BY <1>1, <2>1, LeastOfNat
<1>3. PICK f : Good(MaxParts, f)
  BY <1>2, ConstantTypes
<1> DEFINE F == AnswerTo(t)
<1>4. F = [i \in 0..MaxParts |-> AnswerStep(t, F, i)]
  BY <1>3, AnswerToIs
<1> HIDE DEF F
<1>5. \A i \in 0..MaxParts : F[i] = AnswerStep(t, F, i)
  BY <1>4, Zenon
<1> QED BY <1>5 DEF F

\* A delta extends the text accumulated before it, clamped to the cap.
LEMMA TextExtends ==
    ASSUME NEW m \in ServerMsgs, m.kind = "delta", NEW b, NEW done, NEW n,
           Follows(m, b, done, n)
    PROVE  Extend(TextAt(b), m) = TextAt(m)
<1> DEFINE i == m.part
           t == m.turn
<1>1. t \in Turns /\ i \in 1..MaxParts /\ m = Delta(t, i)
  BY ServerMsgKinds
<1>2. i \in Nat \ {0} /\ i - 1 \in 0..MaxParts /\ i \in 0..MaxParts /\ 0 \in 0..MaxParts
  BY <1>1, ConstantTypes
<1>3. TextAt(m) = AnswerTo(t)[i]
  BY DEF TextAt
<1>4. AnswerTo(t)[i] = Extend(AnswerTo(t)[i - 1], Delta(t, i))
  BY <1>2, AnswerExists DEF AnswerStep
<1>5. TextAt(b) = AnswerTo(t)[i - 1]
  <2>1. CASE i = 1
    <3>1. b.kind # "delta"
      BY <1>2, <2>1 DEF Follows
    <3>2. AnswerTo(t)[0] = <<>>
      BY <1>2, AnswerExists DEF AnswerStep
    <3> QED BY <2>1, <3>1, <3>2 DEF TextAt
  <2>2. CASE i # 1
    <3>1. b = Delta(t, i - 1)
      BY <1>2, <2>2 DEF Follows
    <3>2. b.kind = "delta" /\ b.part = i - 1 /\ b.turn = t
      BY <3>1, KindsOf
    <3> QED BY <3>2 DEF TextAt
  <2> QED BY <2>1, <2>2
<1> QED BY <1>1, <1>3, <1>4, <1>5

\* A step of a peer cuts nothing out of the tap and disturbs no stored answer.
LEMMA PeerKeepsAnswers ==
    ASSUME TypeOK, AnswerInv, Peer
    PROVE  AnswerInv'
<1> DEFINE S == sent["s2c"]
<1>1. /\ StreamInv'
      /\ Len(sent'["s2c"]) >= Len(S)
      /\ \A p \in 1..Len(S) : sent'["s2c"][p] = S[p]
      /\ \A t \in Turns : t <= answered => parts'[t] = parts[t]
  BY PeerKeepsStream DEF AnswerInv
<1>2. UNCHANGED <<spliceVars, tapVars, parser, captureVars>>
  BY DEF Peer
<1>3. UNCHANGED <<phase, splice, forwarded, tap, tapState, parser, respText, stored>>
  BY <1>2 DEF spliceVars, tapVars, captureVars
<1>4. TypeOK'
  BY PeerTyped
<1>5. Len(S) \in Nat /\ Len(sent'["s2c"]) \in Nat
  BY <1>4, LenProperties DEF TypeOK, StreamsTyped
<1>6. AnswerIsWhole'
  BY <1>1, <1>3, <1>5, StoredStaysWhole DEF AnswerInv
<1>7. Copied' = Copied /\ Copied <= Len(S) /\ Copied \in Int
  BY <1>3, <1>5 DEF Copied, TypeOK, StreamsTyped, SpliceTyped, Dirs
<1>8. ASSUME NEW k \in Nat, HeardUpTo(k) PROVE HeardUpTo(k)'
  <2>1. Len(tap["s2c"]) \in Nat /\ k + Len(tap["s2c"]) <= Copied
    BY <1>8, LenProperties DEF TypeOK, StreamsTyped, HeardUpTo
  <2>2. \A i \in 1..Len(tap["s2c"]) : k + i \in 1..Len(S)
    BY <1>5, <1>7, <2>1
  <2>3. \A i \in 1..Len(tap["s2c"]) : tap["s2c"][i] = sent'["s2c"][k + i]
    BY <1>1, <1>8, <2>2 DEF HeardUpTo
  <2>4. k <= Len(S)
    BY <1>5, <1>7, <2>1
  <2>5. At(sent'["s2c"], k) = At(S, k)
    BY <1>1, <1>5, <2>4 DEF At
  <2> QED BY <1>3, <1>7, <1>8, <2>3, <2>5 DEF HeardUpTo
<1>9. TapInv'
  BY <1>3, <1>8 DEF AnswerInv, TapInv
<1> QED BY <1>1, <1>6, <1>9 DEF AnswerInv

\* A step of a splice leaves the tap one uncut piece: a chunk is offered right
\* after it was forwarded, or the tap is closed for good.
LEMMA SpliceKeepsAnswers ==
    ASSUME TypeOK, AnswerInv,
           Upgrade \/ HandshakeFails \/ Return \/ \E d \in Dirs : Splice(d)
    PROVE  AnswerInv'
<1> DEFINE S == sent["s2c"]
<1> DEFINE T == tap["s2c"]
<1>1. UNCHANGED <<peerVars, captureVars>>
  BY DEF Upgrade, HandshakeFails, Return, Splice, Copy, StopCopying, OfferTap
<1>2. UNCHANGED <<sent, answered, emitted, parts, stored, respText>>
  BY <1>1 DEF peerVars, captureVars
<1>3. StreamInv' /\ AnswerIsWhole'
  BY <1>2 DEF AnswerInv, StreamInv, AnswerIsWhole
<1>4. /\ forwarded \in [Dirs -> Nat] /\ tapState \in [Dirs -> {"none", "open", "closed"}]
      /\ splice \in [Dirs -> {"idle", "copying", "tapping", "done"}]
      /\ tap \in [Dirs -> Seq(ClientMsgs \cup ServerMsgs)]
      /\ T \in Seq(ServerMsgs) /\ Len(T) \in Nat
      /\ splice["s2c"] = "tapping" => forwarded["s2c"] > 0
      /\ S \in Seq(ServerMsgs) /\ Len(S) \in Nat /\ forwarded["s2c"] <= Len(S)
      /\ parser \in [Dirs -> {"none", "running", "stopped"}]
      /\ forwarded["s2c"] \in Nat
  BY LenProperties DEF TypeOK, SpliceTyped, StreamsTyped, Dirs
<1>5. /\ phase = "handshake" => forwarded["s2c"] = 0 /\ splice["s2c"] = "idle" /\ parser["s2c"] = "none"
      /\ splice["s2c"] = "tapping" => tapState["s2c"] = "open"
      /\ parser["s2c"] # "stopped" => \E k \in Nat : HeardUpTo(k)
  BY DEF AnswerInv, TapInv
<1>6. Copied \in Int
  BY <1>4 DEF Copied
\* The other direction's splice, and a tunnel that ends, touch nothing here.
<1>7. ASSUME tap'["s2c"] = T, forwarded'["s2c"] = forwarded["s2c"],
             splice'["s2c"] = splice["s2c"], tapState'["s2c"] = tapState["s2c"],
             parser'["s2c"] = parser["s2c"], phase' = phase \/ phase' # "handshake"
      PROVE  AnswerInv'
  <2>1. Copied' = Copied
    BY <1>7 DEF Copied
  <2>2. \A k \in Nat : HeardUpTo(k) => HeardUpTo(k)'
    BY <1>2, <1>7, <2>1 DEF HeardUpTo
  <2> QED BY <1>3, <1>5, <1>7, <2>2 DEF AnswerInv, TapInv
<1>8. CASE HandshakeFails \/ Return
  BY <1>7, <1>8 DEF HandshakeFails, Return, tapVars
\* A copied chunk waits to be tapped, or is no longer tapped at all.
<1>9. ASSUME tap'["s2c"] = T, parser'["s2c"] = parser["s2c"],
             phase' = phase, phase # "handshake",
             Copied' \in Int, Copied' >= Copied,
             tapState'["s2c"] = "open" => tapState["s2c"] = "open" /\ Copied' = Copied,
             splice'["s2c"] = "tapping" => tapState'["s2c"] = "open"
      PROVE  AnswerInv'
  <2>1. ASSUME NEW k \in Nat, HeardUpTo(k) PROVE HeardUpTo(k)'
    <3>1. k + Len(T) <= Copied' /\ (tapState'["s2c"] = "open" => k + Len(T) = Copied')
      BY <1>4, <1>6, <1>9, <2>1 DEF HeardUpTo
    <3> QED BY <1>2, <1>9, <2>1, <3>1 DEF HeardUpTo
  <2> QED BY <1>3, <1>5, <1>9, <2>1 DEF AnswerInv, TapInv
<1>10. CASE Upgrade
  <2>1. /\ phase = "handshake" /\ phase' = "spliced"
        /\ splice'["s2c"] = "copying"
        /\ forwarded' = forwarded /\ tap' = tap
        /\ parser'["s2c"] # "stopped"
    BY <1>4, <1>10 DEF Upgrade, Dirs
  <2>2. Copied = 0 /\ Copied' = 0
    BY <1>5, <2>1 DEF Copied
  <2>3. ASSUME NEW k \in Nat, HeardUpTo(k) PROVE HeardUpTo(k)'
    <3>1. k + Len(T) <= 0
      BY <2>2, <2>3 DEF HeardUpTo
    <3>2. k + Len(T) <= Copied' /\ k + Len(T) = Copied'
      BY <1>4, <2>2, <3>1
    <3> QED BY <1>2, <2>1, <2>3, <3>2 DEF HeardUpTo
  <2>4. \E k \in Nat : HeardUpTo(k)
    <3>1. parser["s2c"] # "stopped"
      BY <1>5, <2>1
    <3> QED BY <1>5, <3>1
  <2> QED BY <1>3, <2>1, <2>3, <2>4 DEF AnswerInv, TapInv
<1>11. ASSUME NEW d \in Dirs, Splice(d), d # "s2c" PROVE AnswerInv'
  BY <1>4, <1>7, <1>11 DEF Splice, Copy, StopCopying, OfferTap, CloseTap, tapVars, spliceVars, Dirs
<1>12. ASSUME Copy("s2c") PROVE AnswerInv'
  <2>1. /\ splice["s2c"] = "copying" /\ phase' = phase
        /\ forwarded'["s2c"] = forwarded["s2c"] + 1
        /\ splice'["s2c"] = IF tapState["s2c"] = "open" THEN "tapping" ELSE "copying"
        /\ tapState' = tapState /\ tap' = tap /\ parser' = parser
    BY <1>4, <1>12 DEF Copy, Tapping, tapVars, Dirs
  <2>2. Copied = forwarded["s2c"]
    BY <2>1 DEF Copied
  <2>3. CASE tapState["s2c"] = "open"
    <3>1. Copied' = Copied
      BY <1>4, <2>1, <2>2, <2>3 DEF Copied
    <3> QED BY <1>5, <1>6, <1>9, <2>1, <2>3, <3>1
  <2>4. CASE tapState["s2c"] # "open"
    <3>1. Copied' = Copied + 1
      BY <1>4, <2>1, <2>2, <2>4 DEF Copied
    <3> QED BY <1>5, <1>6, <1>9, <2>1, <2>4, <3>1
  <2> QED BY <2>3, <2>4
<1>13. ASSUME StopCopying("s2c") PROVE AnswerInv'
  <2>1. /\ splice["s2c"] = "copying" /\ splice'["s2c"] = "done" /\ phase' = phase
        /\ forwarded' = forwarded /\ tap' = tap /\ parser' = parser
        /\ tapState'["s2c"] # "open"
    BY <1>4, <1>13 DEF StopCopying, CloseTap, Dirs
  <2>2. Copied' = Copied
    BY <2>1 DEF Copied
  <2> QED BY <1>5, <1>6, <1>9, <2>1, <2>2
<1>14. ASSUME OfferTap("s2c") PROVE AnswerInv'
  <2>1. /\ splice["s2c"] = "tapping" /\ splice'["s2c"] = "copying"
        /\ phase' = phase /\ forwarded' = forwarded /\ parser' = parser
    BY <1>4, <1>14 DEF OfferTap, spliceVars, Dirs
  <2>2. Copied = forwarded["s2c"] - 1 /\ Copied' = forwarded["s2c"]
    BY <2>1 DEF Copied
  <2>3. ASSUME tapState' = CloseTap("s2c"), tap' = tap PROVE AnswerInv'
    <3>1. tapState'["s2c"] # "open"
      BY <1>4, <2>3 DEF CloseTap, Dirs
    <3>2. Copied' \in Int /\ Copied' >= Copied
      BY <1>4, <2>2
    <3>3. phase # "handshake"
      BY <1>5, <2>1
    <3> QED BY <1>9, <2>1, <2>3, <3>1, <3>2, <3>3
  <2>4. ASSUME tapState' = tapState,
               tap' = [tap EXCEPT !["s2c"] = Append(@, sent["s2c"][forwarded["s2c"]])]
        PROVE  AnswerInv'
    <3> DEFINE m == S[forwarded["s2c"]]
    <3>1. forwarded["s2c"] \in 1..Len(S) /\ tapState["s2c"] = "open" /\ phase # "handshake"
      BY <1>4, <1>5, <2>1
    <3>2. m \in ServerMsgs
      BY <1>4, <3>1, ElementOfSeq
    <3>3. tap'["s2c"] = Append(T, m)
      BY <1>4, <2>4 DEF Dirs
    <3> HIDE DEF m
    <3>4. /\ Len(tap'["s2c"]) = Len(T) + 1
          /\ \A i \in 1..Len(T) : tap'["s2c"][i] = T[i]
          /\ tap'["s2c"][Len(T) + 1] = m
      BY <1>4, <3>2, <3>3, AppendProperties
    <3>5. ASSUME NEW k \in Nat, HeardUpTo(k) PROVE HeardUpTo(k)'
      <4>1. k + Len(T) = Copied /\ \A i \in 1..Len(T) : T[i] = S[k + i]
        BY <3>1, <3>5 DEF HeardUpTo
      <4>2. k + (Len(T) + 1) = forwarded["s2c"]
        <5>1. Len(T) \in Nat /\ forwarded["s2c"] \in Nat
          BY <1>4
        <5>2. k + Len(T) = forwarded["s2c"] - 1
          BY <2>2, <4>1
        <5> HIDE DEF T
        <5> QED BY <5>1, <5>2
      <4>3. tap'["s2c"][Len(T) + 1] = S[k + (Len(T) + 1)]
        BY <3>4, <4>2 DEF m
      <4>4. \A i \in 1..(Len(T) + 1) : tap'["s2c"][i] = S[k + i]
        <5> TAKE i \in 1..(Len(T) + 1)
        <5>1. i = Len(T) + 1 \/ i \in 1..Len(T)
          <6>1. Len(T) \in Nat
            BY <1>4
          <6> QED BY <6>1
        <5> QED BY <3>4, <4>1, <4>3, <5>1
      <4>5. k + Len(tap'["s2c"]) = Copied'
        BY <2>2, <3>4, <4>2
      <4>6. k + Len(tap'["s2c"]) <= Copied'
        BY <1>4, <2>2, <4>5
      <4>7. respText' = TextAt(At(sent'["s2c"], k))
        BY <1>2, <3>5 DEF HeardUpTo
      <4> QED BY <1>2, <3>4, <4>4, <4>5, <4>6, <4>7 DEF HeardUpTo
    <3> QED BY <1>3, <1>5, <2>1, <3>1, <3>5 DEF AnswerInv, TapInv
  <2> QED BY <1>14, <2>3, <2>4 DEF OfferTap
<1> QED BY <1>8, <1>10, <1>11, <1>12, <1>13, <1>14 DEF Splice

\* The s->c parser's next message extends, drops or hands over the text of the
\* response it stands in; what it hands over is that response's whole text.
LEMMA ParserKeepsAnswers ==
    ASSUME TypeOK, AnswerInv, NEW d \in Dirs, Parser(d)
    PROVE  AnswerInv'
<1> DEFINE S == sent["s2c"]
<1> DEFINE T == tap["s2c"]
<1>1. UNCHANGED <<peerVars, spliceVars, tapState>>
  BY DEF Parser, Parse, DecodeFails, ParserEOF, tapVars
<1>2. UNCHANGED <<sent, answered, emitted, parts, phase, splice, forwarded, tapState>>
  BY <1>1 DEF peerVars, spliceVars
<1>3. StreamInv' /\ Copied' = Copied
  BY <1>2 DEF AnswerInv, StreamInv, Copied
<1>4. /\ tap \in [Dirs -> Seq(ClientMsgs \cup ServerMsgs)]
      /\ T \in Seq(ServerMsgs) /\ Len(T) \in Nat
      /\ S \in Seq(ServerMsgs) /\ Len(S) \in Nat
      /\ parser \in [Dirs -> {"none", "running", "stopped"}]
      /\ Copied \in Int /\ Copied <= Len(S)
      /\ stored \in Seq([req : Turns, text : Seq(TextBytes)])
  <2>1. /\ tap \in [Dirs -> Seq(ClientMsgs \cup ServerMsgs)]
        /\ T \in Seq(ServerMsgs) /\ S \in Seq(ServerMsgs)
        /\ parser \in [Dirs -> {"none", "running", "stopped"}]
        /\ forwarded["s2c"] \in Nat /\ forwarded["s2c"] <= Len(S)
        /\ stored \in Seq([req : Turns, text : Seq(TextBytes)])
    BY DEF TypeOK, SpliceTyped, StreamsTyped, CaptureTyped, Dirs
  <2>2. Len(S) \in Nat /\ Len(T) \in Nat
    BY <2>1, LenProperties
  <2>3. Copied = forwarded["s2c"] \/ Copied = forwarded["s2c"] - 1
    BY DEF Copied
  <2>4. Copied \in Int /\ Copied <= Len(S)
    BY <2>1, <2>2, <2>3
  <2> QED BY <2>1, <2>2, <2>4
<1>5. /\ phase = "handshake" => forwarded["s2c"] = 0 /\ splice["s2c"] = "idle" /\ parser["s2c"] = "none"
      /\ splice["s2c"] = "tapping" => tapState["s2c"] = "open"
      /\ parser["s2c"] # "stopped" => \E k \in Nat : HeardUpTo(k)
  BY DEF AnswerInv, TapInv
<1>6. ASSUME stored' = stored PROVE AnswerIsWhole'
  BY <1>2, <1>6 DEF AnswerInv, AnswerIsWhole
\* The other direction's parser.
<1>7. ASSUME tap'["s2c"] = T, parser'["s2c"] = parser["s2c"], respText' = respText, stored' = stored
      PROVE  AnswerInv'
  <2>1. \A k \in Nat : HeardUpTo(k) => HeardUpTo(k)'
    BY <1>2, <1>3, <1>7 DEF HeardUpTo
  <2> QED BY <1>2, <1>3, <1>5, <1>6, <1>7, <2>1 DEF AnswerInv, TapInv
<1>8. ASSUME d # "s2c" PROVE AnswerInv'
  <2>1. tap'["s2c"] = T /\ parser'["s2c"] = parser["s2c"]
    BY <1>4, <1>8 DEF Parser, Parse, DecodeFails, ParserEOF, tapVars, Dirs
  <2>2. d = "c2s"
    BY <1>8, TwoDirs
  <2>3. respText' = respText /\ stored' = stored
    BY <2>2 DEF Parser, Parse, DecodeFails, ParserEOF, OnClient, captureVars
  <2> QED BY <1>7, <2>1, <2>3
<1>9. ASSUME DecodeFails("s2c") \/ ParserEOF("s2c") PROVE AnswerInv'
  <2>1. /\ parser["s2c"] = "running" /\ parser'["s2c"] = "stopped" /\ stored' = stored
    BY <1>4, <1>9 DEF DecodeFails, ParserEOF, captureVars, Dirs
  <2>2. TapInv'
    BY <1>2, <1>5, <2>1 DEF TapInv
  <2> QED BY <1>3, <1>6, <2>1, <2>2 DEF AnswerInv
<1>10. ASSUME Parse("s2c") PROVE AnswerInv'
  <2> DEFINE m == Head(T)
  <2>1. /\ parser["s2c"] = "running" /\ parser' = parser /\ T # <<>>
        /\ tap' = [tap EXCEPT !["s2c"] = Tail(@)]
        /\ OnServer(m)
    BY <1>10 DEF Parse
  <2>2. tap'["s2c"] = Tail(T)
    BY <1>4, <2>1 DEF Dirs
  <2>3. /\ Len(Tail(T)) = Len(T) - 1 /\ Len(T) \in Nat \ {0}
        /\ \A i \in 1..(Len(T) - 1) : Tail(T)[i] = T[i + 1]
        /\ m = T[1] /\ m \in ServerMsgs
    BY <1>4, <2>1, HeadTailProperties, EmptySeq
  <2>4. PICK k \in Nat : HeardUpTo(k)
    BY <1>5, <2>1
  <2>5. /\ k + Len(T) <= Copied
        /\ tapState["s2c"] = "open" => k + Len(T) = Copied
        /\ \A i \in 1..Len(T) : T[i] = S[k + i]
        /\ respText = TextAt(At(S, k))
    BY <2>4 DEF HeardUpTo
  <2> HIDE DEF m
  <2>6. k + 1 \in 1..Len(S) /\ S[k + 1] = m
    <3>1. 1 \in 1..Len(T)
      BY <2>3
    <3>2. k + 1 \in 1..Len(S)
      <4>1. k + Len(T) <= Len(S)
        <5> DEFINE n == Len(T)
        <5> DEFINE l == Len(S)
        <5>1. k + n <= Copied /\ Copied <= l /\ Copied \in Int /\ n \in Nat /\ l \in Nat
          BY <1>4, <2>5
        <5> HIDE DEF n, l
        <5>2. k + n <= l
          BY <5>1
        <5> QED BY <5>2 DEF n, l
      <4> QED BY <1>4, <2>3, <4>1
    <3> QED BY <2>3, <2>5, <3>1, <3>2
  <2> DEFINE b == At(S, k)
  <2>7. At(S, k + 1) = m /\ Follows(m, b, answered, parts)
    <3>1. At(S, k + 1) = m
      BY <2>6 DEF At
    <3>2. WellFormed(S, answered, parts)
      BY DEF AnswerInv, StreamInv
    <3>3. Follows(At(S, k + 1), At(S, (k + 1) - 1), answered, parts)
      BY <2>6, <3>2 DEF WellFormed
    <3>4. (k + 1) - 1 = k
      OBVIOUS
    <3> QED BY <3>1, <3>3, <3>4
  <2>8. respText' = TextAt(m)
    <3>1. CASE OnDelta(m)
      <4>1. m.kind = "delta" /\ respText' = Extend(respText, m)
        BY <3>1 DEF OnDelta
      <4>2. Extend(TextAt(b), m) = TextAt(m)
        BY <2>3, <2>7, <4>1, TextExtends
      <4> QED BY <2>5, <4>1, <4>2
    <3>2. CASE OnFailed(m) \/ OnCompleted(m)
      BY <3>2 DEF OnFailed, OnCompleted, TextAfterFailure, TextAt
    <3> QED BY <2>1, <3>1, <3>2 DEF OnServer
  <2>9. HeardUpTo(k + 1)'
    <3>1. \A i \in 1..Len(Tail(T)) : Tail(T)[i] = S[(k + 1) + i]
      <4> TAKE i \in 1..Len(Tail(T))
      <4>1. i \in 1..(Len(T) - 1) /\ i + 1 \in 1..Len(T) /\ k + (i + 1) = (k + 1) + i
        <5>1. Len(T) \in Nat /\ Len(Tail(T)) = Len(T) - 1
          BY <2>3
        <5> QED BY <5>1
      <4> QED BY <2>3, <2>5, <4>1
    <3>2. (k + 1) + Len(Tail(T)) = k + Len(T)
      <4> DEFINE n == Len(T)
      <4> DEFINE q == Len(Tail(T))
      <4>1. q = n - 1 /\ n \in Nat
        BY <2>3
      <4> HIDE DEF n, q
      <4>2. (k + 1) + q = k + n
        BY <4>1
      <4> QED BY <4>2 DEF n, q
    <3>3. respText' = TextAt(At(sent'["s2c"], k + 1))
      BY <1>2, <2>7, <2>8
    <3>4. /\ (k + 1) + Len(tap'["s2c"]) <= Copied'
          /\ tapState'["s2c"] = "open" => (k + 1) + Len(tap'["s2c"]) = Copied'
      BY <1>2, <1>3, <2>2, <2>5, <3>2
    <3>5. \A i \in 1..Len(tap'["s2c"]) : tap'["s2c"][i] = sent'["s2c"][(k + 1) + i]
      BY <1>2, <2>2, <3>1
    <3> QED BY <3>3, <3>4, <3>5 DEF HeardUpTo
  <2>10. TapInv'
    <3>1. k + 1 \in Nat
      OBVIOUS
    <3> QED BY <1>2, <1>5, <2>1, <2>9, <3>1 DEF TapInv
  <2>11. AnswerIsWhole'
    <3>1. CASE stored' = stored
      BY <1>6, <3>1
    <3>2. CASE stored' # stored
      <4>1. /\ m.kind = "completed" /\ respText # <<>> /\ lastReq # NoTurn
            /\ stored' = Append(stored, [req |-> lastReq, text |-> respText])
        BY <2>1, <3>2 DEF OnServer, OnDelta, OnFailed, OnCompleted
      <4> DEFINE t == m.turn
      <4>2. t \in Turns /\ m = Completed(t)
        BY <2>3, <4>1, ServerMsgKinds
      <4>3. b.kind = "delta"
        BY <2>5, <4>1 DEF TextAt
      <4>4. b = Delta(t, parts[t])
        BY <2>7, <4>1, <4>3 DEF Follows
      <4>5. respText = AnswerTo(t)[parts[t]]
        <5>1. b.part = parts[t] /\ b.turn = t
          BY <4>4, KindsOf
        <5> QED BY <2>5, <4>3, <5>1 DEF TextAt
      <4>6. Contains(S, Completed(t))
        BY <2>6, <4>2 DEF Contains
      <4> DEFINE X == [req : Turns, text : Seq(TextBytes)]
      <4> DEFINE x == [req |-> lastReq, text |-> respText]
      <4>7. stored \in Seq(X) /\ x \in X /\ x.text = respText /\ stored' = Append(stored, x)
        BY <4>1 DEF TypeOK, CaptureTyped, NoTurn, Turns
      <4> HIDE DEF X, x, t, b
      <4>8. /\ Len(stored') = Len(stored) + 1 /\ Len(stored) \in Nat
            /\ \A i \in 1..Len(stored) : stored'[i] = stored[i]
            /\ stored'[Len(stored) + 1] = x
        BY <4>7, AppendProperties, LenProperties
      <4> SUFFICES ASSUME NEW i \in 1..Len(stored')
                   PROVE  /\ Len(stored'[i].text) <= MaxText
                          /\ \E u \in Turns : Contains(S, Completed(u)) /\ stored'[i].text = AnswerTo(u)[parts[u]]
        BY <1>2 DEF AnswerIsWhole
      <4>9. CASE i \in 1..Len(stored)
        BY <4>8, <4>9 DEF AnswerInv, AnswerIsWhole
      <4>10. CASE i = Len(stored) + 1
        <5>1. stored'[i].text = AnswerTo(t)[parts[t]] /\ Len(stored'[i].text) <= MaxText
          BY <4>5, <4>7, <4>8, <4>10 DEF TypeOK, CaptureTyped
        <5> QED BY <4>2, <4>6, <5>1
      <4> QED BY <4>8, <4>9, <4>10
    <3> QED BY <3>1, <3>2
  <2> QED BY <1>3, <2>10, <2>11 DEF AnswerInv
<1> QED BY <1>8, <1>9, <1>10 DEF Parser

\* A stored answer is the whole text of one completed response, up to the cap:
\* never a fragment, never text of a failed response, never two responses run
\* together (wscapture.go resets respText on every terminal event), wherever
\* the tap is abandoned, whenever a parser gives up and whatever the backend
\* sends again.
THEOREM StoredAnswerIsWhole == Spec => []AnswerIsWhole
<1>1. Init => AnswerInv
  <2> SUFFICES ASSUME Init PROVE AnswerInv
    OBVIOUS
  <2>1. /\ sent["s2c"] = <<>> /\ tap["s2c"] = <<>> /\ stored = <<>> /\ respText = <<>>
        /\ emitted = 0 /\ forwarded["s2c"] = 0 /\ splice["s2c"] = "idle"
        /\ tapState["s2c"] = "none" /\ parser["s2c"] = "none"
    BY DEF Init, Dirs
  <2>2. Len(sent["s2c"]) = 0 /\ Len(tap["s2c"]) = 0 /\ Len(stored) = 0
    BY <2>1, EmptySeq
  <2>3. StreamInv
    BY <2>1, <2>2, KindsOf DEF StreamInv, WellFormed, At
  <2>4. HeardUpTo(0)
    <3>1. TextAt(At(sent["s2c"], 0)) = <<>>
      BY KindsOf DEF At, TextAt
    <3>2. Copied = 0
      BY <2>1 DEF Copied
    <3> QED BY <2>1, <2>2, <3>1, <3>2 DEF HeardUpTo
  <2>5. TapInv
    BY <2>1, <2>4 DEF TapInv
  <2>6. AnswerIsWhole
    BY <2>2 DEF AnswerIsWhole
  <2> QED BY <2>3, <2>5, <2>6 DEF AnswerInv
<1>2. TypeOK /\ AnswerInv /\ [Next]_vars => AnswerInv'
  <2> SUFFICES ASSUME TypeOK, AnswerInv, [Next]_vars PROVE AnswerInv'
    OBVIOUS
  <2>1. CASE UNCHANGED vars
    BY <2>1 DEF vars, peerVars, spliceVars, tapVars, captureVars, AnswerInv, StreamInv,
                TapInv, HeardUpTo, Copied, AnswerIsWhole
  <2>2. CASE Next
    BY <2>1, <2>2, PeerKeepsAnswers, SpliceKeepsAnswers, ParserKeepsAnswers DEF Next, Terminated
  <2> QED BY <2>1, <2>2
<1>3. AnswerInv => AnswerIsWhole
  BY DEF AnswerInv
<1> QED BY <1>1, <1>2, <1>3, TypeCorrect, PTL DEF Spec
=============================================================================
