-------------------------- MODULE MemoryPathProofs --------------------------
(***************************************************************************)
(* Theorems about FrameAssembler, for any cap, any window and any number   *)
(* of messages, cut in any way; and about MemoryPath, for any scenes: the  *)
(* size of the block a sidecar puts into a request, and what the capture   *)
(* makes of a streamed answer however its chunks are cut.                  *)
(***************************************************************************)
EXTENDS MemoryPath, FrameAssembler, SequenceTheorems, WellFoundedInduction, TLAPS

\* Byte i of message n.
Byte == Nat \X Nat

\* A set of natural numbers has a least one.
LEMMA LeastOfNat ==
    ASSUME NEW S \in SUBSET Nat, S # {}
    PROVE  \E n \in S : \A m \in S : n <= m
<1>1. \E n \in S : \A m \in S : ~(<<m, n>> \in OpToRel(<, Nat))
  BY WFMin, NatLessThanWellFounded, Zenon
<1>2. \A m, n \in Nat : ~(<<m, n>> \in OpToRel(<, Nat)) => n <= m
  BY DEF OpToRel
<1> QED BY <1>1, <1>2, Zenon
-----------------------------------------------------------------------------
(***************************************************************************)
(* The size of a message is a fold over the sizes of its fragments; what   *)
(* it adds up to is seen one fragment at a time.                           *)
(***************************************************************************)
SumStep(s, g, T) == IF T = {} THEN 0 ELSE g[T \ {Max(T)}] + s[Max(T)]
SumOn(s) == CHOOSE g : g = [T \in SUBSET DOMAIN s |-> SumStep(s, g, T)]

\* The fold of Size, as a function of the fragments that are left to add.
LEMMA SizeIsSum == \A s : Size(s) = SumOn(s)[DOMAIN s]
BY DEF Size, FoldLeft, MapThenFoldSet, SumOn, SumStep

\* The fold takes the last fragment first.
LEMMA MaxIsLast ==
    ASSUME NEW n \in Nat, NEW T \in SUBSET (1..n), T # {}
    PROVE  Max(T) \in T /\ \A i \in T : i <= Max(T)
<1> DEFINE Gap == {n - i : i \in T}
<1>1. Gap \in SUBSET Nat /\ Gap # {}
  <2>1. \A i \in T : i \in Nat /\ i <= n
    OBVIOUS
  <2>2. \A i \in T : n - i \in Nat
    BY <2>1
  <2> QED BY <2>2
<1>2. PICK g \in Gap : \A h \in Gap : g <= h
  <2> HIDE DEF Gap
  <2> QED BY <1>1, LeastOfNat
<1>3. PICK i \in T : g = n - i
  BY <1>2
<1>4. \A j \in T : i >= j
  <2>1. ASSUME NEW j \in T PROVE i >= j
    <3>1. n - i <= n - j
      BY <1>2, <1>3
    <3>2. i \in Nat /\ j \in Nat
      OBVIOUS
    <3> QED BY <3>1, <3>2
  <2> QED BY <2>1
<1>5. Max(T) \in T /\ \A j \in T : Max(T) >= j
  BY <1>4 DEF Max
<1> QED BY <1>5

\* The fold's equation has a solution: by prefixes of growing length.
LEMMA SumExists ==
    ASSUME NEW s \in Seq(Nat)
    PROVE  SumOn(s) = [T \in SUBSET DOMAIN s |-> SumStep(s, SumOn(s), T)]
<1> DEFINE Good(n, g) == g = [T \in SUBSET (1..n) |-> SumStep(s, g, T)]
           Bad == {n \in Nat : ~ \E g : Good(n, g)}
<1>1. ASSUME NEW n \in Nat, NEW T \in SUBSET (1..n), T # {}
      PROVE  n # 0 /\ T \ {Max(T)} \in SUBSET (1..(n - 1))
  <2> DEFINE m == Max(T)
  <2>1. m \in T /\ \A i \in T : i <= m
    BY <1>1, MaxIsLast
  <2> HIDE DEF m
  <2>2. \A i \in T : i \in Nat /\ 1 <= i /\ i <= n
    OBVIOUS
  <2>3. \A i \in T \ {m} : i \in 1..(n - 1)
    BY <2>1, <2>2
  <2>4. n # 0
    BY <2>1, <2>2
  <2>5. T \ {m} \in SUBSET (1..(n - 1))
    BY <2>3
  <2> QED BY <2>4, <2>5 DEF m
<1>2. ASSUME NEW n \in Bad, \A m \in Bad : n <= m PROVE FALSE
  <2>1. CASE n = 0
    <3>1. \A g : \A T \in SUBSET (1..0) : SumStep(s, g, T) = 0
      BY <1>1 DEF SumStep
    <3>2. Good(0, [T \in SUBSET (1..0) |-> 0])
      BY <3>1
    <3> QED BY <2>1, <3>2
  <2>2. CASE n # 0
    <3>1. n \in Nat /\ n - 1 \in Nat
      BY <2>2
    <3>2. n - 1 \notin Bad
      <4> HIDE DEF Bad
      <4> QED BY <1>2, <3>1
    <3>3. PICK g : Good(n - 1, g)
      BY <3>1, <3>2
    <3> DEFINE h == [T \in SUBSET (1..n) |-> SumStep(s, g, T)]
    <3>4. \A T \in SUBSET (1..(n - 1)) : T \in SUBSET (1..n) /\ h[T] = g[T]
      <4>1. \A T \in SUBSET (1..(n - 1)) : T \in SUBSET (1..n)
        BY <3>1
      <4> QED BY <3>3, <4>1
    <3>5. \A T \in SUBSET (1..n) : SumStep(s, g, T) = SumStep(s, h, T)
      <4> SUFFICES ASSUME NEW T \in SUBSET (1..n), T # {} PROVE SumStep(s, g, T) = SumStep(s, h, T)
        BY DEF SumStep
      <4>1. T \ {Max(T)} \in SUBSET (1..(n - 1))
        BY <1>1, <3>1
      <4>2. g[T \ {Max(T)}] = h[T \ {Max(T)}]
        BY <3>4, <4>1
      <4> HIDE DEF h
      <4> QED BY <4>2 DEF SumStep
    <3>6. Good(n, h)
      BY <3>5
    <3> QED BY <3>1, <3>6
  <2> QED BY <2>1, <2>2
<1>3. Bad = {}
  <2>1. Bad \in SUBSET Nat
    OBVIOUS
  <2> HIDE DEF Bad
  <2> QED BY <1>2, <2>1, LeastOfNat
<1>4. Len(s) \in Nat /\ DOMAIN s = 1..Len(s)
  BY LenProperties
<1>5. PICK g : Good(Len(s), g)
  BY <1>3, <1>4
<1>6. g = [T \in SUBSET DOMAIN s |-> SumStep(s, g, T)]
  BY <1>4, <1>5
<1> QED BY <1>6 DEF SumOn

\* The equation, one fragment at a time.
LEMMA SumIs ==
    ASSUME NEW s \in Seq(Nat)
    PROVE  /\ SumOn(s)[{}] = 0
           /\ \A k \in 1..Len(s) : SumOn(s)[1..k] = SumOn(s)[1..(k - 1)] + s[k]
<1>1. Len(s) \in Nat /\ DOMAIN s = 1..Len(s)
  BY LenProperties
<1>2. \A T \in SUBSET DOMAIN s : SumOn(s)[T] = SumStep(s, SumOn(s), T)
  <2> DEFINE F == SumOn(s)
  <2>1. F = [T \in SUBSET DOMAIN s |-> SumStep(s, F, T)]
    BY SumExists
  <2> HIDE DEF F
  <2>2. \A T \in SUBSET DOMAIN s : F[T] = SumStep(s, F, T)
    BY <2>1, Zenon
  <2> QED BY <2>2 DEF F
<1>3. ASSUME NEW k \in 1..Len(s) PROVE SumOn(s)[1..k] = SumOn(s)[1..(k - 1)] + s[k]
  <2>1. 1..k \in SUBSET (1..Len(s)) /\ 1..k # {}
    BY <1>1
  <2>2. Max(1..k) = k
    <3>1. k \in Nat /\ k \in 1..k
      BY <1>1
    <3>2. Max(1..k) \in 1..k /\ \A i \in 1..k : i <= Max(1..k)
      BY <2>1, <1>1, MaxIsLast
    <3> QED BY <3>1, <3>2
  <2>3. (1..k) \ {k} = 1..(k - 1)
    BY <1>1
  <2>4. SumOn(s)[1..k] = SumStep(s, SumOn(s), 1..k)
    BY <1>1, <1>2, <2>1
  <2> QED BY <2>1, <2>2, <2>3, <2>4 DEF SumStep
<1>4. SumOn(s)[{}] = 0
  BY <1>2 DEF SumStep
<1> QED BY <1>3, <1>4

\* The size of what the first k fragments carry.
Before(s, k) == Size(SubSeq(s, 1, k))

\* The first k fragments.
LEMMA Prefix ==
    ASSUME NEW s \in Seq(Nat), NEW k \in 0..Len(s)
    PROVE  /\ SubSeq(s, 1, k) \in Seq(Nat) /\ Len(SubSeq(s, 1, k)) = k
           /\ \A i \in 1..k : SubSeq(s, 1, k)[i] = s[i]
<1>1. Len(s) \in Nat
  BY LenProperties
<1>2. \A i \in 1..k : s[i] \in Nat
  BY <1>1, ElementOfSeq
<1> QED BY <1>1, <1>2, SubSeqProperties

\* The size of a prefix is the fold over the whole, stopped there.
LEMMA BeforeIsSum ==
    ASSUME NEW s \in Seq(Nat), NEW k \in 0..Len(s)
    PROVE  Before(s, k) = SumOn(s)[1..k]
<1> DEFINE u == SubSeq(s, 1, k)
           Bad == {j \in 0..k : SumOn(u)[1..j] # SumOn(s)[1..j]}
<1>1. Len(s) \in Nat /\ u \in Seq(Nat) /\ Len(u) = k /\ \A i \in 1..k : u[i] = s[i]
  BY Prefix, LenProperties
<1> HIDE DEF u
<1>2. ASSUME NEW j \in Bad, \A i \in Bad : j <= i PROVE FALSE
  <2>1. CASE j = 0
    <3>1. 1..0 = {}
      OBVIOUS
    <3>2. SumOn(u)[1..0] = 0 /\ SumOn(s)[1..0] = 0
      BY <1>1, <3>1, SumIs
    <3> QED BY <2>1, <3>2
  <2>2. CASE j # 0
    <3>1. j - 1 \in 0..k /\ j \in 1..k /\ j \in 1..Len(s)
      BY <1>1, <2>2
    <3>2. SumOn(u)[1..(j - 1)] = SumOn(s)[1..(j - 1)]
      BY <1>2, <3>1
    <3>3. SumOn(u)[1..j] = SumOn(u)[1..(j - 1)] + u[j] /\ SumOn(s)[1..j] = SumOn(s)[1..(j - 1)] + s[j]
      BY <1>1, <3>1, SumIs
    <3>4. SumOn(u)[1..j] = SumOn(s)[1..j]
      BY <1>1, <3>1, <3>2, <3>3
    <3> QED BY <3>4
  <2> QED BY <2>1, <2>2
<1>3. Bad = {}
  <2>1. Bad \in SUBSET Nat
    BY <1>1
  <2> HIDE DEF Bad
  <2> QED BY <1>2, <2>1, LeastOfNat
<1>4. SumOn(u)[1..k] = SumOn(s)[1..k]
  BY <1>1, <1>3
<1>5. DOMAIN u = 1..k
  BY <1>1, LenProperties
<1> QED BY <1>4, <1>5, SizeIsSum DEF Before, u

\* A fragment more is its size more.
LEMMA BeforeIs ==
    ASSUME NEW s \in Seq(Nat)
    PROVE  /\ Before(s, 0) = 0
           /\ \A k \in 1..Len(s) : Before(s, k) = Before(s, k - 1) + s[k]
           /\ Before(s, Len(s)) = Size(s)
<1>1. Len(s) \in Nat
  BY LenProperties
<1>2. Before(s, 0) = 0
  <2>1. 1..0 = {} /\ 0 \in 0..Len(s)
    BY <1>1
  <2> QED BY <2>1, BeforeIsSum, SumIs
<1>3. ASSUME NEW k \in 1..Len(s) PROVE Before(s, k) = Before(s, k - 1) + s[k]
  <2>1. k \in 0..Len(s) /\ k - 1 \in 0..Len(s)
    BY <1>1
  <2> QED BY <2>1, BeforeIsSum, SumIs
<1>4. SubSeq(s, 1, Len(s)) = s
  BY SubSeqFull
<1> QED BY <1>2, <1>3, <1>4 DEF Before

\* A prefix is no larger than a longer one.
LEMMA BeforeGrows ==
    ASSUME NEW s \in Seq(Nat)
    PROVE  \A k \in 0..Len(s) : Before(s, k) \in Nat /\ Before(s, k) <= Size(s)
<1>1. Len(s) \in Nat /\ \A i \in 1..Len(s) : s[i] \in Nat
  BY LenProperties, ElementOfSeq
<1>2. \A k \in 0..Len(s) : Before(s, k) \in Nat
  <2> DEFINE Bad == {k \in 0..Len(s) : Before(s, k) \notin Nat}
  <2>1. ASSUME NEW k \in Bad, \A i \in Bad : k <= i PROVE FALSE
    <3>1. CASE k = 0
      BY <3>1, BeforeIs
    <3>2. CASE k # 0
      <4>1. k - 1 \in 0..Len(s) /\ k \in 1..Len(s)
        BY <1>1, <3>2
      <4>2. Before(s, k - 1) \in Nat
        BY <2>1, <4>1
      <4> QED BY <1>1, <4>1, <4>2, BeforeIs
    <3> QED BY <3>1, <3>2
  <2>2. Bad \in SUBSET Nat
    BY <1>1
  <2>3. Bad = {}
    <3> HIDE DEF Bad
    <3> QED BY <2>1, <2>2, LeastOfNat
  <2> QED BY <2>3
<1>3. \A k \in 0..Len(s) : Before(s, k) <= Before(s, Len(s))
  <2> DEFINE Left == {Len(s) - k : k \in {j \in 0..Len(s) : ~(Before(s, j) <= Before(s, Len(s)))}}
  <2>1. ASSUME NEW d \in Left, \A e \in Left : d <= e PROVE FALSE
    <3>1. PICK k \in 0..Len(s) : d = Len(s) - k /\ ~(Before(s, k) <= Before(s, Len(s)))
      OBVIOUS
    <3>2. k # Len(s)
      BY <1>1, <1>2, <3>1
    <3>3. k + 1 \in 0..Len(s) /\ k + 1 \in 1..Len(s)
      BY <1>1, <3>2
    <3>4. Before(s, k + 1) <= Before(s, Len(s))
      <4>1. CASE ~(Before(s, k + 1) <= Before(s, Len(s)))
        <5>1. Len(s) - (k + 1) \in Left
          BY <3>3, <4>1
        <5> HIDE DEF Left
        <5> QED BY <1>1, <2>1, <3>1, <5>1
      <4> QED BY <4>1
    <3>5. Before(s, k + 1) = Before(s, k) + s[k + 1]
      <4>1. (k + 1) - 1 = k
        BY <1>1
      <4> QED BY <3>3, <4>1, BeforeIs
    <3>6. Before(s, k) \in Nat /\ Before(s, k + 1) \in Nat /\ s[k + 1] \in Nat /\ Before(s, Len(s)) \in Nat
      BY <1>1, <1>2, <3>3
    <3> QED BY <3>1, <3>4, <3>5, <3>6
  <2>2. Left \in SUBSET Nat
    BY <1>1
  <2>3. Left = {}
    <3> HIDE DEF Left
    <3> QED BY <2>1, <2>2, LeastOfNat
  <2> QED BY <2>3
<1> QED BY <1>2, <1>3, BeforeIs
-----------------------------------------------------------------------------
(***************************************************************************)
(* What has been handed on is one message after the other.                 *)
(***************************************************************************)
FlatStep(q, f, i) == IF i = 1 THEN q[i] ELSE f[i - 1] \o q[i]
FlatOf(q) == CHOOSE f : f = [i \in 1..Len(q) |-> FlatStep(q, f, i)]

\* FlattenSeq, as a function of how many messages are joined.
LEMMA FlattenIsFlat == \A q : FlattenSeq(q) = IF Len(q) = 0 THEN q ELSE FlatOf(q)[Len(q)]
BY DEF FlattenSeq, FlatOf, FlatStep

\* Its equation has a solution.
LEMMA FlatExists ==
    ASSUME NEW q, Len(q) \in Nat
    PROVE  \A i \in 1..Len(q) : FlatOf(q)[i] = FlatStep(q, FlatOf(q), i)
<1> DEFINE Good(n, f) == f = [i \in 1..n |-> FlatStep(q, f, i)]
           Bad == {n \in Nat : ~ \E f : Good(n, f)}
<1>1. ASSUME NEW n \in Bad, \A m \in Bad : n <= m PROVE FALSE
  <2>1. CASE n = 0
    <3>1. Good(0, [i \in 1..0 |-> 0])
      OBVIOUS
    <3> QED BY <2>1, <3>1
  <2>2. CASE n # 0
    <3>1. n \in Nat /\ n - 1 \in Nat
      BY <2>2
    <3>2. n - 1 \notin Bad
      <4> HIDE DEF Bad
      <4> QED BY <1>1, <3>1
    <3>3. PICK f : Good(n - 1, f)
      BY <3>1, <3>2
    <3> DEFINE h == [i \in 1..n |-> FlatStep(q, f, i)]
    <3>4. \A i \in 1..(n - 1) : i \in 1..n /\ h[i] = f[i]
      <4>1. \A i \in 1..(n - 1) : i \in 1..n
        BY <3>1
      <4> QED BY <3>3, <4>1
    <3>5. \A i \in 1..n : FlatStep(q, f, i) = FlatStep(q, h, i)
      <4> SUFFICES ASSUME NEW i \in 1..n, i # 1 PROVE FlatStep(q, f, i) = FlatStep(q, h, i)
        BY DEF FlatStep
      <4>1. i - 1 \in 1..(n - 1)
        BY <3>1
      <4>2. f[i - 1] = h[i - 1]
        BY <3>4, <4>1
      <4> HIDE DEF h
      <4> QED BY <4>2 DEF FlatStep
    <3>6. Good(n, h)
      BY <3>5
    <3> QED BY <3>1, <3>6
  <2> QED BY <2>1, <2>2
<1>2. Bad = {}
  <2>1. Bad \in SUBSET Nat
    OBVIOUS
  <2> HIDE DEF Bad
  <2> QED BY <1>1, <2>1, LeastOfNat
<1>3. PICK f : Good(Len(q), f)
  BY <1>2
<1> DEFINE F == FlatOf(q)
<1>4. F = [i \in 1..Len(q) |-> FlatStep(q, F, i)]
  BY <1>3 DEF FlatOf
<1> HIDE DEF F
<1>5. \A i \in 1..Len(q) : F[i] = FlatStep(q, F, i)
  BY <1>4, Zenon
<1> QED BY <1>5 DEF F

\* No message, nothing handed on.
LEMMA FlattenNone == FlattenSeq(<<>>) = <<>>
<1>1. Len(<<>>) = 0
  BY EmptySeq
<1> QED BY <1>1, FlattenIsFlat

\* A message more is joined at the end.
LEMMA FlattenAppend ==
    ASSUME NEW B, NEW p \in Seq(Seq(B)), NEW w \in Seq(B)
    PROVE  FlattenSeq(Append(p, w)) = FlattenSeq(p) \o w
<1> DEFINE q == Append(p, w)
           Bad == {i \in 1..Len(p) : FlatOf(q)[i] # FlatOf(p)[i]}
<1>1. /\ Len(p) \in Nat /\ Len(q) = Len(p) + 1
      /\ \A i \in 1..Len(p) : q[i] = p[i]
      /\ q[Len(p) + 1] = w
  <2>1. Len(p) \in Nat
    BY LenProperties
  <2> QED BY <2>1, AppendProperties
<1> HIDE DEF q
<1>2. /\ \A i \in 1..(Len(p) + 1) : FlatOf(q)[i] = FlatStep(q, FlatOf(q), i)
      /\ \A i \in 1..Len(p) : FlatOf(p)[i] = FlatStep(p, FlatOf(p), i)
  <2>1. Len(q) \in Nat
    BY <1>1
  <2> QED BY <1>1, <2>1, FlatExists
<1>3. ASSUME NEW i \in Bad, \A j \in Bad : i <= j PROVE FALSE
  <2>1. i \in 1..Len(p) /\ i \in 1..(Len(p) + 1) /\ q[i] = p[i]
    BY <1>1
  <2>2. i # 1 => FlatOf(q)[i - 1] = FlatOf(p)[i - 1]
    <3>1. i # 1 => i - 1 \in 1..Len(p) /\ ~(i <= i - 1)
      BY <1>1, <2>1
    <3> QED BY <1>3, <3>1
  <2>3. FlatOf(q)[i] = FlatOf(p)[i]
    BY <1>2, <2>1, <2>2 DEF FlatStep
  <2> QED BY <2>3
<1>4. Bad = {}
  <2>1. Bad \in SUBSET Nat
    BY <1>1
  <2> HIDE DEF Bad
  <2> QED BY <1>3, <2>1, LeastOfNat
<1>5. FlattenSeq(q) = FlatStep(q, FlatOf(q), Len(p) + 1)
  <2>1. Len(p) + 1 # 0 /\ Len(p) + 1 \in 1..(Len(p) + 1)
    BY <1>1
  <2> QED BY <1>1, <1>2, <2>1, FlattenIsFlat
<1>6. CASE Len(p) = 0
  <2>1. p = <<>>
    BY <1>6, EmptySeq
  <2>2. FlattenSeq(q) = w
    BY <1>1, <1>5, <1>6 DEF FlatStep
  <2> QED BY <2>1, <2>2, FlattenNone, ConcatEmptySeq DEF q
<1>7. CASE Len(p) # 0
  <2>1. Len(p) \in 1..Len(p) /\ Len(p) + 1 # 1 /\ (Len(p) + 1) - 1 = Len(p)
    BY <1>1, <1>7
  <2>2. FlattenSeq(q) = FlatOf(q)[Len(p)] \o w
    BY <1>1, <1>5, <2>1 DEF FlatStep
  <2>3. FlatOf(q)[Len(p)] = FlatOf(p)[Len(p)]
    BY <1>4, <2>1
  <2> QED BY <1>7, <2>2, <2>3, FlattenIsFlat DEF q
<1> QED BY <1>6, <1>7

-----------------------------------------------------------------------------
(***************************************************************************)
(* The invariant.  While runWSParser runs, what it holds of a message are  *)
(* the fragments sent so far, or nothing once they are too much; and its   *)
(* window is the peer's, but for the compressed message under way.         *)
(***************************************************************************)
Message == [text : BOOLEAN, compressed : BOOLEAN, sizes : Fragmentings, expands : Nat, dict : Seq(Byte)]

FrameTyped ==
    /\ messages \in Seq(Message) /\ fragment \in Nat
    /\ deflate \in BOOLEAN /\ overflowed \in BOOLEAN /\ stopped \in BOOLEAN
    /\ peerWindow \in Seq(Byte) /\ history \in Seq(Byte) /\ assembled \in Seq(Seq(Byte))
    /\ \A i \in 1..Len(messages) : messages[i].compressed => deflate
    /\ fragment > 0 => messages # <<>> /\ fragment < Len(Last(messages).sizes)

\* What add holds once the first k fragments of m came.
Held(n, m, k) ==
    /\ overflowed <=> Before(m.sizes, k) > WsMaxMessage
    /\ buf = IF overflowed THEN <<>> ELSE SubSeq(Payload(n, m), 1, Before(m.sizes, k))

HeldInv == ~stopped /\ fragment > 0 => Held(Len(messages), Last(messages), fragment)

WindowInv ==
    ~stopped =>
        IF fragment > 0 /\ Last(messages).compressed
        THEN /\ Last(messages).dict \in {<<>>, history}
             /\ peerWindow = Tail32K(history \o Plain(Len(messages), Last(messages)))
        ELSE peerWindow = history

FrameInv == FrameTyped /\ HeldInv /\ WindowInv /\ FramesDecoded

\* A message has a fragment, and its payload is the bytes its fragments carry.
LEMMA PayloadIs ==
    ASSUME NEW n \in Nat, NEW m \in Message
    PROVE  /\ m.sizes \in Seq(Nat) /\ Len(m.sizes) \in Nat \ {0} /\ Size(m.sizes) \in Nat
           /\ Payload(n, m) \in Seq(Byte) /\ Len(Payload(n, m)) = Size(m.sizes)
           /\ Plain(n, m) \in Seq(Byte) /\ Len(Plain(n, m)) \in Nat
           /\ ~m.compressed => Plain(n, m) = Payload(n, m)
<1>1. m.sizes \in Seq(Nat) /\ m.sizes # <<>> /\ m.expands \in Nat
  BY FrameAssumption DEF Message
<1>2. Len(m.sizes) \in Nat \ {0}
  BY <1>1, EmptySeq
<1>3. Size(m.sizes) \in Nat
  <2>1. Len(m.sizes) \in 0..Len(m.sizes)
    BY <1>2
  <2> QED BY <1>1, <2>1, BeforeIs, BeforeGrows
<1>4. \A l \in Nat : [i \in 1..l |-> <<n, i>>] \in Seq(Byte) /\ Len([i \in 1..l |-> <<n, i>>]) = l
  <2> SUFFICES ASSUME NEW l \in Nat
               PROVE  [i \in 1..l |-> <<n, i>>] \in Seq(Byte) /\ Len([i \in 1..l |-> <<n, i>>]) = l
    OBVIOUS
  <2> DEFINE q == [i \in 1..l |-> <<n, i>>]
  <2>1. q \in [1..l -> Byte]
    BY DEF Byte
  <2> HIDE DEF q
  <2>2. q \in Seq(Byte) /\ Len(q) = l
    BY <2>1
  <2> QED BY <2>2 DEF q
<1>5. Size(m.sizes) * m.expands \in Nat
  <2>1. \A a, b \in Nat : a * b \in Nat
    OBVIOUS
  <2> QED BY <1>1, <1>3, <2>1
<1>6. Payload(n, m) \in Seq(Byte) /\ Len(Payload(n, m)) = Size(m.sizes)
  BY <1>3, <1>4 DEF Payload
<1>7. Plain(n, m) \in Seq(Byte)
  BY <1>4, <1>5, <1>6 DEF Plain
<1> QED BY <1>1, <1>2, <1>3, <1>6, <1>7, LenProperties DEF Plain

\* A window is bytes.
LEMMA TailTyped ==
    ASSUME NEW h \in Seq(Byte)
    PROVE  Tail32K(h) \in Seq(Byte)
<1> DEFINE two == {Len(h), Window}
<1>1. Len(h) \in Nat /\ Window \in Nat
  BY LenProperties, FrameAssumption
<1>2. Min(two) \in Nat /\ Min(two) <= Len(h)
  <2>1. \E x \in two : \A y \in two : x <= y
    BY <1>1
  <2>2. Min(two) \in two /\ \A y \in two : Min(two) <= y
    BY <2>1 DEF Min
  <2> QED BY <1>1, <2>2
<1> DEFINE a == Len(h) - Min(two) + 1
<1>3. a \in Int /\ \A i \in a..Len(h) : h[i] \in Byte
  <2>1. a \in Int /\ 1 <= a
    BY <1>1, <1>2
  <2> HIDE DEF a
  <2>2. \A i \in a..Len(h) : i \in 1..Len(h)
    BY <1>1, <2>1
  <2> QED BY <2>1, <2>2, ElementOfSeq
<1>4. SubSeq(h, a, Len(h)) \in Seq(Byte)
  <2> HIDE DEF a
  <2> QED BY <1>1, <1>3, SubSeqProperties
<1> QED BY <1>4 DEF Tail32K

\* Two adjacent slices of a payload.
LEMMA Slices ==
    ASSUME NEW P \in Seq(Byte), NEW a \in Nat, NEW b \in Nat, a <= b, b <= Len(P)
    PROVE  /\ SubSeq(P, 1, a) \in Seq(Byte) /\ Len(SubSeq(P, 1, a)) = a
           /\ SubSeq(P, a + 1, b) \in Seq(Byte) /\ Len(SubSeq(P, a + 1, b)) = b - a
           /\ SubSeq(P, 1, a) \o SubSeq(P, a + 1, b) = SubSeq(P, 1, b)
<1>1. Len(P) \in Nat
  BY LenProperties
<1>2. \A i \in 1..b : P[i] \in Byte
  BY <1>1, ElementOfSeq
<1>3. \A i \in 1..a : P[i] \in Byte
  BY <1>2
<1>4. \A i \in (a + 1)..b : P[i] \in Byte
  BY <1>2
<1>5. SubSeq(P, 1, a) \in Seq(Byte) /\ Len(SubSeq(P, 1, a)) = a
  <2>1. 1 \in Int /\ a \in Int
    OBVIOUS
  <2>2. /\ SubSeq(P, 1, a) \in Seq(Byte)
        /\ Len(SubSeq(P, 1, a)) = IF 1 <= a THEN a - 1 + 1 ELSE 0
    BY <1>3, <2>1, SubSeqProperties
  <2> QED BY <2>2
<1>6. SubSeq(P, a + 1, b) \in Seq(Byte) /\ Len(SubSeq(P, a + 1, b)) = b - a
  <2> DEFINE l == a + 1
  <2>1. l \in Int /\ b \in Int /\ \A i \in l..b : P[i] \in Byte
    BY <1>4
  <2> HIDE DEF l
  <2>2. /\ SubSeq(P, l, b) \in Seq(Byte)
        /\ Len(SubSeq(P, l, b)) = IF l <= b THEN b - l + 1 ELSE 0
    BY <2>1, SubSeqProperties
  <2> QED BY <2>2 DEF l
<1>7. SubSeq(P, 1, a) \o SubSeq(P, a + 1, b) = SubSeq(P, 1, b)
  <2>1. 1 \in 1..(Len(P) + 1) /\ a \in (1 - 1)..Len(P) /\ b \in a..Len(P)
    BY <1>1
  <2> QED BY <2>1, ConcatAdjacentSubSeq
<1> QED BY <1>5, <1>6, <1>7

\* What add holds when fragment k comes, the fragment, and whether they are too much.
HeldAt(k)       == IF k = 1 THEN <<>> ELSE buf
Part(n, m, k)   == SubSeq(Payload(n, m), Before(m.sizes, k - 1) + 1, Before(m.sizes, k))
TooMuch(n, m, k) == (k > 1 /\ overflowed) \/ Len(HeldAt(k)) + Len(Part(n, m, k)) > WsMaxMessage

\* A fragment's part of the payload has its size, and the parts come one after the other.
LEMMA PartIs ==
    ASSUME NEW n \in Nat, NEW m \in Message, NEW k \in 1..Len(m.sizes)
    PROVE  /\ Before(m.sizes, k - 1) \in Nat /\ Before(m.sizes, k) \in Nat
           /\ Before(m.sizes, k - 1) <= Before(m.sizes, k)
           /\ k = 1 => Before(m.sizes, k - 1) = 0
           /\ Len(Part(n, m, k)) = Before(m.sizes, k) - Before(m.sizes, k - 1)
           /\ Len(SubSeq(Payload(n, m), 1, Before(m.sizes, k - 1))) = Before(m.sizes, k - 1)
           /\ SubSeq(Payload(n, m), 1, Before(m.sizes, k - 1)) \o Part(n, m, k)
                 = SubSeq(Payload(n, m), 1, Before(m.sizes, k))
<1> DEFINE P == Payload(n, m)
           a == Before(m.sizes, k - 1)
           b == Before(m.sizes, k)
           size == m.sizes[k]
           total == Size(m.sizes)
<1>1. /\ P \in Seq(Byte) /\ Len(P) = total /\ total \in Nat
      /\ m.sizes \in Seq(Nat) /\ Len(m.sizes) \in Nat
  BY PayloadIs
<1>2. k - 1 \in 0..Len(m.sizes) /\ k \in 0..Len(m.sizes) /\ size \in Nat
  BY <1>1, ElementOfSeq
<1>3. a \in Nat /\ b \in Nat /\ b <= total /\ b = a + size /\ (k = 1 => a = 0)
  <2>1. a \in Nat /\ b \in Nat /\ b <= total
    BY <1>1, <1>2, BeforeGrows
  <2>2. b = a + size
    BY <1>1, BeforeIs
  <2>3. k = 1 => a = 0
    BY <1>1, BeforeIs
  <2> QED BY <2>1, <2>2, <2>3
<1> HIDE DEF P, a, b, size, total
<1>4. a <= b /\ b <= Len(P)
  BY <1>1, <1>2, <1>3
<1>5. /\ Len(SubSeq(P, a + 1, b)) = b - a /\ Len(SubSeq(P, 1, a)) = a
      /\ SubSeq(P, 1, a) \o SubSeq(P, a + 1, b) = SubSeq(P, 1, b)
  BY <1>1, <1>3, <1>4, Slices
<1>6. Part(n, m, k) = SubSeq(P, a + 1, b)
  BY Zenon DEF Part, P, a, b
<1> QED BY <1>3, <1>4, <1>5, <1>6, Zenon DEF P, a, b

\* A fragment added to what is held of its message is what is to be held, or too much.
LEMMA FragmentKept ==
    ASSUME NEW n \in Nat, NEW m \in Message, NEW k \in 1..Len(m.sizes), overflowed \in BOOLEAN,
           k > 1 => Held(n, m, k - 1)
    PROVE  /\ TooMuch(n, m, k) <=> Before(m.sizes, k) > WsMaxMessage
           /\ ~TooMuch(n, m, k) => HeldAt(k) \o Part(n, m, k) = SubSeq(Payload(n, m), 1, Before(m.sizes, k))
<1> DEFINE P == Payload(n, m)
           a == Before(m.sizes, k - 1)
           b == Before(m.sizes, k)
           held == HeldAt(k)
           part == Part(n, m, k)
<1>1. k \in Nat /\ WsMaxMessage \in Nat
  BY PayloadIs, FrameAssumption
<1>2. a \in Nat /\ b \in Nat /\ a <= b /\ (k = 1 => a = 0)
  BY PartIs
<1>3. /\ Len(part) = b - a
      /\ Len(SubSeq(P, 1, a)) = a /\ SubSeq(P, 1, a) \o part = SubSeq(P, 1, b)
  BY PartIs
<1> HIDE DEF P, a, b, held, part
<1>4. CASE k > 1 /\ overflowed
  <2>1. a > WsMaxMessage
    BY <1>4 DEF Held, a
  <2>2. b > WsMaxMessage
    BY <1>1, <1>2, <2>1
  <2>3. TooMuch(n, m, k)
    BY <1>4, Zenon DEF TooMuch
  <2> QED BY <2>2, <2>3, Zenon DEF b
<1>5. CASE ~(k > 1 /\ overflowed)
  <2>1. held = SubSeq(P, 1, a)
    <3>1. CASE k = 1
      <4>1. SubSeq(P, 1, 0) = <<>>
        BY SubSeqEmpty
      <4> QED BY <1>2, <3>1, <4>1 DEF held, HeldAt
    <3>2. CASE k # 1
      BY <1>1, <1>5, <3>2 DEF Held, P, a, held, HeldAt
    <3> QED BY <3>1, <3>2
  <2>2. Len(held) + Len(part) = b
    <3>1. Len(held) = a
      BY <1>3, <2>1, Zenon
    <3>2. a + (b - a) = b
      BY <1>2
    <3> QED BY <1>3, <3>1, <3>2, Zenon
  <2>3. TooMuch(n, m, k) <=> b > WsMaxMessage
    BY <1>5, <2>2, Zenon DEF TooMuch, held, part
  <2>4. held \o part = SubSeq(P, 1, b)
    BY <1>3, <2>1
  <2> QED BY <2>3, <2>4, Zenon DEF P, b, held, part
<1> QED BY <1>4, <1>5

\* InCap and Wanted of a message m, the n-th.
InCapOf(n, m) == Len(Payload(n, m)) <= WsMaxMessage /\ Len(Plain(n, m)) <= WsMaxMessage
WantedOf(n, m) == IF m.text /\ InCapOf(n, m) THEN <<Plain(n, m)>> ELSE <<>>

\* What becomes of a message that is complete: an inflated one moves the window on,
\* wanted or not, and one beyond the caps stops a parser that inflates.
LEMMA CompleteDoes ==
    ASSUME NEW n \in Nat, NEW m \in Message, NEW over, NEW data,
           over <=> Size(m.sizes) > WsMaxMessage, ~over => data = Payload(n, m),
           assembled \in Seq(Seq(Byte)), stopped = FALSE, m.compressed => deflate,
           m.compressed => m.dict = <<>> \/ m.dict = history,
           Complete(n, m, over, data)
    PROVE  \/ /\ stopped' = TRUE /\ UNCHANGED <<assembled, history>> /\ ~InCapOf(n, m)
           \/ /\ stopped' = FALSE /\ assembled' = assembled \o WantedOf(n, m)
              /\ history' = IF m.compressed THEN Tail32K(history \o Plain(n, m)) ELSE history
<1>1. /\ Len(Payload(n, m)) = Size(m.sizes) /\ Plain(n, m) \in Seq(Byte)
      /\ ~m.compressed => Plain(n, m) = Payload(n, m)
      /\ Len(Plain(n, m)) \in Nat /\ Len(Payload(n, m)) \in Nat /\ WsMaxMessage \in Nat
  BY PayloadIs, LenProperties, FrameAssumption
<1>2. over <=> ~(Len(Payload(n, m)) <= WsMaxMessage)
  <2>1. \A x, y \in Nat : x > y <=> ~(x <= y)
    OBVIOUS
  <2> QED BY <1>1, <2>1, Zenon
<1>3. Len(Plain(n, m)) > WsMaxMessage <=> ~(Len(Plain(n, m)) <= WsMaxMessage)
  BY <1>1
<1>4. /\ Append(assembled, Plain(n, m)) = assembled \o <<Plain(n, m)>>
      /\ assembled = assembled \o <<>>
  BY <1>1, AppendIsConcat, ConcatEmptySeq
<1>5. CASE m.compressed
  <2>1. ~over => Inflated(n, m, data) = Plain(n, m)
    BY <1>5, Zenon DEF Inflated
  <2>2. CASE over \/ ~(Len(Plain(n, m)) <= WsMaxMessage)
    <3>1. Abort
      BY <1>3, <1>5, <2>1, <2>2, Zenon DEF Complete
    <3> QED BY <1>2, <2>2, <3>1, Zenon DEF Abort, InCapOf
  <2>3. CASE ~over /\ Len(Plain(n, m)) <= WsMaxMessage
    <3>1. /\ history' = Tail32K(history \o Plain(n, m))
          /\ IF m.text THEN Emit(Plain(n, m)) ELSE Drop
      BY <1>3, <1>5, <2>1, <2>3, Zenon DEF Complete
    <3>2. InCapOf(n, m)
      BY <1>2, <2>3, Zenon DEF InCapOf
    <3> QED BY <1>4, <1>5, <3>1, <3>2 DEF Emit, Drop, WantedOf
  <2> QED BY <2>2, <2>3
<1>6. CASE ~m.compressed
  <2>1. history' = history /\ (IF m.text /\ ~over THEN Emit(data) ELSE Drop)
    BY <1>6, Zenon DEF Complete
  <2>2. InCapOf(n, m) <=> ~over
    BY <1>1, <1>2, <1>6, Zenon DEF InCapOf
  <2>3. ~over => data = Plain(n, m)
    BY <1>1, <1>6
  <2>4. CASE m.text /\ ~over
    <3>1. assembled' = Append(assembled, Plain(n, m)) /\ stopped' = stopped
      BY <2>1, <2>3, <2>4, Zenon DEF Emit
    <3>2. WantedOf(n, m) = <<Plain(n, m)>>
      BY <2>2, <2>4, Zenon DEF WantedOf
    <3> QED BY <1>4, <1>6, <2>1, <3>1, <3>2, Zenon
  <2>5. CASE ~(m.text /\ ~over)
    <3>1. assembled' = assembled /\ stopped' = stopped
      BY <2>1, <2>5, Zenon DEF Drop
    <3>2. WantedOf(n, m) = <<>>
      BY <2>2, <2>5, Zenon DEF WantedOf
    <3> QED BY <1>4, <1>6, <2>1, <3>1, <3>2, Zenon
  <2> QED BY <2>4, <2>5
<1> QED BY <1>5, <1>6

\* What one fragment does: it stops the parser at a message beyond the caps, or it is
\* held, or it completes the message.
LEMMA FragmentDoes ==
    ASSUME NEW n \in Nat, NEW m \in Message, NEW k \in 1..Len(m.sizes),
           overflowed \in BOOLEAN, k > 1 => Held(n, m, k - 1),
           assembled \in Seq(Seq(Byte)), stopped = FALSE, m.compressed => deflate,
           m.compressed => m.dict = <<>> \/ m.dict = history,
           AddFragment(n, m, k)
    PROVE  /\ overflowed' \in BOOLEAN
           /\ \/ /\ stopped' = TRUE /\ UNCHANGED <<assembled, history>> /\ ~InCapOf(n, m)
              \/ /\ k < Len(m.sizes) /\ stopped' = FALSE /\ UNCHANGED <<assembled, history>>
                 /\ overflowed' <=> Before(m.sizes, k) > WsMaxMessage
                 /\ buf' = IF overflowed' THEN <<>> ELSE SubSeq(Payload(n, m), 1, Before(m.sizes, k))
              \/ /\ k = Len(m.sizes) /\ stopped' = FALSE
                 /\ assembled' = assembled \o WantedOf(n, m)
                 /\ history' = IF m.compressed THEN Tail32K(history \o Plain(n, m)) ELSE history
<1> DEFINE over == TooMuch(n, m, k)
           data == IF over THEN <<>> ELSE HeldAt(k) \o Part(n, m, k)
<1>1. /\ m.sizes \in Seq(Nat) /\ Len(m.sizes) \in Nat /\ Size(m.sizes) \in Nat
      /\ Payload(n, m) \in Seq(Byte) /\ Len(Payload(n, m)) = Size(m.sizes)
  BY PayloadIs
<1>2. /\ over <=> Before(m.sizes, k) > WsMaxMessage
      /\ ~over => HeldAt(k) \o Part(n, m, k) = SubSeq(Payload(n, m), 1, Before(m.sizes, k))
      /\ over \in BOOLEAN
  <2>1. over \in BOOLEAN
    BY Zenon DEF TooMuch
  <2> QED BY <2>1, FragmentKept
<1>3. CASE m.sizes[k] > WsMaxMessage
  <2>1. Abort /\ UNCHANGED msgVars
    BY <1>3, Zenon DEF AddFragment
  <2>2. Size(m.sizes) > WsMaxMessage
    <3>1. k - 1 \in 0..Len(m.sizes) /\ k \in 0..Len(m.sizes)
      BY <1>1
    <3>2. /\ Before(m.sizes, k - 1) \in Nat /\ Before(m.sizes, k) <= Size(m.sizes)
          /\ Before(m.sizes, k) \in Nat /\ m.sizes[k] \in Nat
      BY <1>1, <3>1, BeforeGrows, ElementOfSeq
    <3>3. Before(m.sizes, k) = Before(m.sizes, k - 1) + m.sizes[k]
      BY <1>1, BeforeIs
    <3> DEFINE a == Before(m.sizes, k - 1)
               b == Before(m.sizes, k)
               c == m.sizes[k]
               d == Size(m.sizes)
    <3>4. a \in Nat /\ b \in Nat /\ c \in Nat /\ b <= d /\ b = a + c /\ c > WsMaxMessage
      BY <1>3, <3>2, <3>3
    <3>5. d \in Nat
      BY <1>1
    <3> HIDE DEF a, b, c, d
    <3>6. d > WsMaxMessage
      BY <3>4, <3>5, FrameAssumption
    <3> QED BY <3>6 DEF d
  <2>3. ~InCapOf(n, m)
    BY <1>1, <2>2, FrameAssumption DEF InCapOf
  <2> QED BY <2>1, <2>3 DEF Abort, msgVars
<1>4. CASE ~(m.sizes[k] > WsMaxMessage)
  <2>1. /\ buf' = data /\ overflowed' = over
        /\ IF k = Len(m.sizes) THEN Complete(n, m, over, data) ELSE Drop /\ UNCHANGED history
    BY <1>4, Zenon DEF AddFragment, Before, TooMuch, HeldAt, Part
  <2>2. CASE k = Len(m.sizes)
    <3>1. Before(m.sizes, k) = Size(m.sizes)
      BY <1>1, <2>2, BeforeIs
    <3>2. SubSeq(Payload(n, m), 1, Size(m.sizes)) = Payload(n, m)
      BY <1>1, SubSeqFull
    <3> HIDE DEF over
    <3>3. over <=> Size(m.sizes) > WsMaxMessage
      BY <1>2, <3>1, Zenon
    <3>4. ~over => data = Payload(n, m)
      BY <1>2, <3>1, <3>2, Zenon
    <3>5. Complete(n, m, over, data)
      BY <2>1, <2>2, Zenon
    <3> HIDE DEF data
    <3>6. \/ /\ stopped' = TRUE /\ UNCHANGED <<assembled, history>> /\ ~InCapOf(n, m)
          \/ /\ stopped' = FALSE /\ assembled' = assembled \o WantedOf(n, m)
             /\ history' = IF m.compressed THEN Tail32K(history \o Plain(n, m)) ELSE history
      BY <3>3, <3>4, <3>5, CompleteDoes, Zenon
    <3> QED BY <1>2, <2>1, <2>2, <3>6, Zenon
  <2>3. CASE k # Len(m.sizes)
    <3>1. k < Len(m.sizes)
      BY <1>1, <2>3
    <3>2. Drop /\ UNCHANGED history
      BY <2>1, <2>3, Zenon
    <3> HIDE DEF over
    <3>3. buf' = IF over THEN <<>> ELSE SubSeq(Payload(n, m), 1, Before(m.sizes, k))
      BY <1>2, <2>1, Zenon
    <3>4. UNCHANGED <<assembled, history>> /\ stopped' = FALSE
      BY <3>2 DEF Drop
    <3> QED BY <1>2, <2>1, <3>1, <3>3, <3>4, Zenon
  <2> QED BY <2>2, <2>3
<1> QED BY <1>3, <1>4
-----------------------------------------------------------------------------
\* What the first c messages are to hand on.
Out(ms, c) == FlattenSeq([i \in 1..c |-> WantedOf(i, ms[i])])

\* The first half of FramesDecoded, by Out.
LEMMA DecodedIs ==
    FramesDecoded <=> /\ assembled = Out(messages, Completed)
                      /\ stopped => ~InCapOf(Len(messages), messages[Len(messages)])
BY DEF FramesDecoded, Out, Wanted, WantedOf, InCap, InCapOf

\* A message more hands on what is wanted of it.
LEMMA OutGrows ==
    ASSUME NEW ms \in Seq(Message), NEW m \in Message
    PROVE  /\ \A c \in 0..Len(ms) : Out(Append(ms, m), c) = Out(ms, c)
           /\ Out(Append(ms, m), Len(ms) + 1) = Out(ms, Len(ms)) \o WantedOf(Len(ms) + 1, m)
<1> DEFINE new == Append(ms, m)
           f == [i \in 1..Len(ms) |-> WantedOf(i, ms[i])]
           g == [i \in 1..(Len(ms) + 1) |-> WantedOf(i, new[i])]
<1>1. /\ Len(ms) \in Nat /\ new[Len(ms) + 1] = m /\ \A i \in 1..Len(ms) : new[i] = ms[i]
      /\ \A i \in 1..(Len(ms) + 1) : i \in Nat /\ new[i] \in Message
  <2>1. Len(ms) \in Nat
    BY LenProperties
  <2>2. new \in Seq(Message) /\ Len(new) = Len(ms) + 1
    BY AppendProperties
  <2> QED BY <2>1, <2>2, AppendProperties, ElementOfSeq
<1> HIDE DEF new
<1>2. \A i \in 1..(Len(ms) + 1) : WantedOf(i, new[i]) \in Seq(Seq(Byte))
  <2>1. \A p \in Seq(Byte) : <<p>> \in Seq(Seq(Byte))
    OBVIOUS
  <2>2. <<>> \in Seq(Seq(Byte))
    OBVIOUS
  <2>3. \A i \in 1..(Len(ms) + 1) : Plain(i, new[i]) \in Seq(Byte)
    BY <1>1, PayloadIs
  <2> QED BY <2>1, <2>2, <2>3 DEF WantedOf
<1>3. /\ \A i \in 1..(Len(ms) + 1) : g[i] \in Seq(Seq(Byte))
      /\ \A i \in 1..Len(ms) : f[i] = g[i]
      /\ g[Len(ms) + 1] = WantedOf(Len(ms) + 1, m)
  BY <1>1, <1>2
<1>4. ASSUME NEW c \in 0..Len(ms) PROVE Out(new, c) = Out(ms, c)
  <2>1. \A i \in 1..c : new[i] = ms[i]
    BY <1>1
  <2>2. [i \in 1..c |-> WantedOf(i, new[i])] = [i \in 1..c |-> WantedOf(i, ms[i])]
    BY <2>1
  <2> QED BY <2>2 DEF Out
<1>5. f \in Seq(Seq(Seq(Byte))) /\ Len(f) = Len(ms)
  <2>1. \A i \in 1..Len(ms) : f[i] \in Seq(Seq(Byte))
    BY <1>1, <1>3
  <2>2. f \in [1..Len(ms) -> Seq(Seq(Byte))]
    BY <2>1
  <2> HIDE DEF f
  <2> QED BY <1>1, <2>2
<1>6. g \in Seq(Seq(Seq(Byte))) /\ Len(g) = Len(ms) + 1
  <2>1. g \in [1..(Len(ms) + 1) -> Seq(Seq(Byte))]
    BY <1>3
  <2>2. Len(ms) + 1 \in Nat
    BY <1>1
  <2> HIDE DEF g
  <2> QED BY <2>1, <2>2
<1>7. Out(new, Len(ms) + 1) = FlattenSeq(g) /\ Out(ms, Len(ms)) = FlattenSeq(f)
  BY DEF Out
<1>8. WantedOf(Len(ms) + 1, m) \in Seq(Seq(Byte))
  <2>1. Len(ms) + 1 \in 1..(Len(ms) + 1)
    BY <1>1
  <2> QED BY <1>3, <2>1
<1> HIDE DEF f, g
<1>9. g = Append(f, WantedOf(Len(ms) + 1, m))
  <2> DEFINE w == WantedOf(Len(ms) + 1, m)
  <2> HIDE DEF w
  <2>1. /\ Append(f, w) \in Seq(Seq(Seq(Byte))) /\ Len(Append(f, w)) = Len(ms) + 1
        /\ \A i \in 1..Len(ms) : Append(f, w)[i] = f[i]
        /\ Append(f, w)[Len(ms) + 1] = w
    BY <1>5, <1>8, AppendProperties DEF w
  <2>2. \A i \in 1..(Len(ms) + 1) : i \in 1..Len(ms) \/ i = Len(ms) + 1
    BY <1>1
  <2>3. \A i \in 1..Len(g) : g[i] = Append(f, w)[i]
    BY <1>3, <1>6, <2>1, <2>2 DEF w
  <2>4. g = Append(f, w)
    BY <1>6, <2>1, <2>3, SeqEqual
  <2> QED BY <2>4 DEF w
<1>10. FlattenSeq(Append(f, WantedOf(Len(ms) + 1, m))) = FlattenSeq(f) \o WantedOf(Len(ms) + 1, m)
  BY <1>5, <1>8, FlattenAppend
<1>11. Out(new, Len(ms) + 1) = Out(ms, Len(ms)) \o WantedOf(Len(ms) + 1, m)
  BY <1>7, <1>9, <1>10, Zenon
<1> QED BY <1>4, <1>11 DEF new

\* It leaves what the messages before it handed on.
LEMMA OutCompletes ==
    ASSUME NEW ms \in Seq(Message), ms # <<>>
    PROVE  Out(ms, Len(ms)) = Out(ms, Len(ms) - 1) \o WantedOf(Len(ms), Last(ms))
<1> DEFINE c == Len(ms) - 1
           front == SubSeq(ms, 1, c)
<1>1. Len(ms) \in Nat /\ c \in Nat /\ Len(ms) = c + 1 /\ c \in 0..Len(ms)
  BY EmptySeq
<1>2. Last(ms) = ms[Len(ms)] /\ Last(ms) \in Message
  <2>1. Len(ms) \in 1..Len(ms)
    BY <1>1
  <2> QED BY <2>1, ElementOfSeq DEF Last
<1>3. front \in Seq(Message) /\ Len(front) = c /\ \A i \in 1..c : front[i] = ms[i]
  <2> HIDE DEF c
  <2>1. \A i \in 1..c : ms[i] \in Message
    BY <1>1, ElementOfSeq
  <2>2. /\ front \in Seq(Message) /\ Len(front) = IF 1 <= c THEN c - 1 + 1 ELSE 0
        /\ \A i \in 1..(c - 1 + 1) : front[i] = ms[1 + i - 1]
    BY <1>1, <2>1, SubSeqProperties
  <2>3. c - 1 + 1 = c /\ \A i \in 1..c : 1 + i - 1 = i
    BY <1>1
  <2> QED BY <1>1, <2>2, <2>3
<1> HIDE DEF c, front
<1>4. Append(front, Last(ms)) = ms
  <2>1. /\ Append(front, Last(ms)) \in Seq(Message) /\ Len(Append(front, Last(ms))) = c + 1
        /\ \A i \in 1..c : Append(front, Last(ms))[i] = ms[i]
        /\ Append(front, Last(ms))[c + 1] = ms[c + 1]
    BY <1>1, <1>2, <1>3, AppendProperties
  <2>2. \A i \in 1..(c + 1) : i \in 1..c \/ i = c + 1
    BY <1>1
  <2> QED BY <1>1, <2>1, <2>2, SeqEqual
<1>5. Out(ms, c + 1) = Out(front, c) \o WantedOf(c + 1, Last(ms))
  BY <1>2, <1>3, <1>4, OutGrows
<1>6. Out(ms, c) = Out(front, c)
  <2>1. c \in 0..Len(front)
    BY <1>1, <1>3
  <2> QED BY <1>2, <1>3, <1>4, <2>1, OutGrows
<1> QED BY <1>1, <1>5, <1>6 DEF c

\* A message that is not wanted leaves nothing.
LEMMA NothingWanted ==
    ASSUME NEW n, NEW m, ~InCapOf(n, m)
    PROVE  WantedOf(n, m) = <<>>
BY DEF WantedOf

\* Fragment k of message n, the last begun, keeps the invariant.
LEMMA FragmentKeeps ==
    ASSUME NEW n \in Nat, NEW m \in Message, NEW k \in 1..Len(m.sizes),
           overflowed \in BOOLEAN, deflate \in BOOLEAN, history \in Seq(Byte),
           assembled \in Seq(Seq(Byte)), stopped = FALSE,
           k > 1 => Held(n, m, k - 1),
           m.compressed => deflate,
           m.compressed => m.dict = <<>> \/ m.dict = history,
           AddFragment(n, m, k),
           messages' \in Seq(Message), messages' # <<>>, Len(messages') = n, Last(messages') = m,
           \A i \in 1..n : messages'[i].compressed => deflate,
           deflate' = deflate,
           fragment' = IF k = Len(m.sizes) THEN 0 ELSE k,
           peerWindow' = IF m.compressed THEN Tail32K(history \o Plain(n, m)) ELSE history,
           assembled = Out(messages', n - 1)
    PROVE  FrameInv'
<1> DEFINE Stops == stopped' = TRUE /\ UNCHANGED <<assembled, history>> /\ ~InCapOf(n, m)
           Holds == /\ k < Len(m.sizes) /\ stopped' = FALSE /\ UNCHANGED <<assembled, history>>
                    /\ overflowed' <=> Before(m.sizes, k) > WsMaxMessage
                    /\ buf' = IF overflowed' THEN <<>> ELSE SubSeq(Payload(n, m), 1, Before(m.sizes, k))
           Ends  == /\ k = Len(m.sizes) /\ stopped' = FALSE /\ assembled' = assembled \o WantedOf(n, m)
                    /\ history' = IF m.compressed THEN Tail32K(history \o Plain(n, m)) ELSE history
<1>1. overflowed' \in BOOLEAN /\ (Stops \/ Holds \/ Ends)
  BY FragmentDoes, Zenon
<1>2. Len(m.sizes) \in Nat \ {0} /\ Plain(n, m) \in Seq(Byte) /\ k \in Nat
  <2>1. Len(m.sizes) \in Nat \ {0} /\ Plain(n, m) \in Seq(Byte)
    BY PayloadIs, Zenon
  <2>2. Len(m.sizes) \in Nat
    BY <2>1
  <2>3. \A j \in 1..Len(m.sizes) : j \in Nat
    BY <2>2, SMT
  <2> QED BY <2>1, <2>3, Zenon
<1>3. Tail32K(history \o Plain(n, m)) \in Seq(Byte)
  BY <1>2, TailTyped, ConcatProperties
<1>4. messages'[n] = m /\ Out(messages', n) = Out(messages', n - 1) \o WantedOf(n, m)
  <2>1. messages'[Len(messages')] = m
    BY DEF Last
  <2> QED BY <2>1, OutCompletes
<1>5. WantedOf(n, m) \in Seq(Seq(Byte))
  BY <1>2 DEF WantedOf
<1>6. assembled \o <<>> = assembled
  BY ConcatEmptySeq
<1>7. assembled \o WantedOf(n, m) \in Seq(Seq(Byte))
  BY <1>5, ConcatProperties
<1>8. /\ stopped' \in BOOLEAN /\ history' \in Seq(Byte) /\ assembled' \in Seq(Seq(Byte))
      /\ peerWindow' \in Seq(Byte)
  <2>1. peerWindow' \in Seq(Byte)
    BY <1>3
  <2>2. CASE Stops
    BY <2>1, <2>2
  <2>3. CASE Holds
    BY <2>1, <2>3
  <2>4. CASE Ends
    BY <1>3, <1>7, <2>1, <2>4
  <2> QED BY <1>1, <2>2, <2>3, <2>4
<1>9. fragment' \in Nat /\ (fragment' > 0 => fragment' = k /\ k < Len(m.sizes))
  BY <1>2
<1>10. FrameTyped'
  BY <1>1, <1>8, <1>9 DEF FrameTyped
<1>11. HeldInv'
  <2>1. SUFFICES ASSUME ~stopped', fragment' > 0 PROVE Held(Len(messages), Last(messages), fragment)'
    BY DEF HeldInv
  <2>2. fragment' = k /\ k < Len(m.sizes)
    BY <1>9, <2>1
  <2>3. Holds
    BY <1>1, <1>2, <2>1, <2>2
  <2> QED BY <2>2, <2>3 DEF Held
<1>12. WindowInv'
  <2>1. SUFFICES ASSUME ~stopped'
                 PROVE  IF fragment' > 0 /\ m.compressed
                        THEN /\ m.dict \in {<<>>, history'}
                             /\ peerWindow' = Tail32K(history' \o Plain(n, m))
                        ELSE peerWindow' = history'
    BY DEF WindowInv
  <2>2. CASE Holds
    BY <1>2, <2>2
  <2>3. CASE Ends
    BY <1>2, <2>3
  <2> QED BY <1>1, <2>1, <2>2, <2>3
<1>13. FramesDecoded'
  <2>1. Completed' = IF k = Len(m.sizes) THEN n ELSE n - 1
    BY <1>2 DEF Completed
  <2>2. SUFFICES /\ assembled' = Out(messages', Completed')
                 /\ stopped' => ~InCapOf(n, m)
    <3>1. FramesDecoded' <=> /\ assembled' = Out(messages', Completed')
                             /\ stopped' => ~InCapOf(Len(messages'), messages'[Len(messages')])
      BY DEF FramesDecoded, Out, Wanted, WantedOf, InCap, InCapOf
    <3> QED BY <1>4, <3>1
  <2>3. CASE Stops
    <3>1. WantedOf(n, m) = <<>>
      BY <2>3, NothingWanted
    <3> QED BY <1>4, <1>6, <2>1, <2>3, <3>1
  <2>4. CASE Holds
    <3>1. k # Len(m.sizes)
      BY <1>2, <2>4
    <3> QED BY <2>1, <2>4, <3>1
  <2>5. CASE Ends
    BY <1>4, <2>1, <2>5
  <2> QED BY <1>1, <2>3, <2>4, <2>5
<1> QED BY <1>10, <1>11, <1>12, <1>13 DEF FrameInv

\* The first fragment of a message.
LEMMA BeginKeeps ==
    ASSUME FrameInv, BeginMessage
    PROVE  FrameInv'
<1> DEFINE M(text, compressed, sizes, expands, dict) ==
             [text |-> text, compressed |-> compressed, sizes |-> sizes,
              expands |-> IF compressed THEN expands ELSE 1,
              dict |-> IF compressed THEN dict ELSE <<>>]
<1>1. PICK text \in BOOLEAN, compressed \in {FALSE, deflate}, sizes \in Fragmentings, expands \in Expands,
           dict \in {<<>>, peerWindow} :
         /\ messages' = Append(messages, M(text, compressed, sizes, expands, dict))
         /\ fragment' = IF Len(sizes) = 1 THEN 0 ELSE 1
         /\ peerWindow' = IF compressed
                          THEN Tail32K(peerWindow \o Plain(Len(messages) + 1, M(text, compressed, sizes, expands, dict)))
                          ELSE peerWindow
         /\ AddFragment(Len(messages) + 1, M(text, compressed, sizes, expands, dict), 1)
  BY DEF BeginMessage
<1>2. PICK n, m : n = Len(messages) + 1 /\ m = M(text, compressed, sizes, expands, dict)
  OBVIOUS
<1>3. /\ messages' = Append(messages, m)
      /\ peerWindow' = IF compressed THEN Tail32K(peerWindow \o Plain(n, m)) ELSE peerWindow
      /\ AddFragment(n, m, 1)
  BY <1>1, <1>2, Zenon
<1>4. /\ messages \in Seq(Message) /\ deflate \in BOOLEAN /\ overflowed \in BOOLEAN /\ stopped = FALSE
      /\ fragment = 0 /\ history \in Seq(Byte) /\ assembled \in Seq(Seq(Byte)) /\ deflate' = deflate
      /\ peerWindow \in Seq(Byte)
      /\ \A i \in 1..Len(messages) : messages[i].compressed => deflate
  BY DEF BeginMessage, FrameInv, FrameTyped
<1>5. peerWindow = history
  <2>1. ~(fragment > 0)
    BY <1>4
  <2> QED BY <1>4, <2>1, Zenon DEF FrameInv, WindowInv
<1>6. /\ m.compressed = compressed /\ m.sizes = sizes /\ m.dict = IF compressed THEN dict ELSE <<>>
      /\ m \in Message
  <2>1. compressed \in BOOLEAN
    BY <1>4
  <2>2. (IF compressed THEN expands ELSE 1) \in Nat
    BY FrameAssumption
  <2>3. (IF compressed THEN dict ELSE <<>>) \in Seq(Byte)
    <3>1. <<>> \in Seq(Byte)
      BY EmptySeq
    <3>2. dict \in Seq(Byte)
      BY <1>4, <3>1, Zenon
    <3> QED BY <3>1, <3>2, Zenon
  <2> QED BY <1>2, <2>1, <2>2, <2>3 DEF Message
<1> HIDE DEF M
<1>7. /\ m.compressed => deflate
      /\ m.compressed => m.dict = <<>> \/ m.dict = history
  BY <1>4, <1>5, <1>6
<1>8. /\ Len(messages) \in Nat /\ n \in Nat /\ n - 1 = Len(messages)
      /\ messages' \in Seq(Message) /\ Len(messages') = n /\ messages'[n] = m
      /\ \A i \in 1..Len(messages) : messages'[i] = messages[i]
  <2>1. Len(messages) \in Nat
    BY <1>4, LenProperties
  <2>2. /\ Append(messages, m) \in Seq(Message) /\ Len(Append(messages, m)) = Len(messages) + 1
        /\ \A i \in 1..Len(messages) : Append(messages, m)[i] = messages[i]
        /\ Append(messages, m)[Len(messages) + 1] = m
    BY <1>4, <1>6, AppendProperties
  <2> QED BY <1>2, <1>3, <2>1, <2>2
<1>9. messages' # <<>> /\ Last(messages') = m
  BY <1>8, EmptySeq DEF Last
<1>10. \A i \in 1..n : messages'[i].compressed => deflate
  <2>1. \A i \in 1..n : i \in 1..Len(messages) \/ i = n
    BY <1>8
  <2> QED BY <1>4, <1>7, <1>8, <2>1
<1>11. assembled = Out(messages', n - 1)
  <2>1. Completed = Len(messages)
    BY <1>4, <1>8 DEF Completed
  <2>2. assembled = Out(messages, Len(messages))
    BY <2>1, DecodedIs DEF FrameInv
  <2>3. Len(messages) \in 0..Len(messages)
    BY <1>8
  <2>4. Out(Append(messages, m), Len(messages)) = Out(messages, Len(messages))
    BY <1>4, <1>6, <2>3, OutGrows
  <2> QED BY <1>3, <1>8, <2>2, <2>4
<1>12. 1 \in 1..Len(m.sizes) /\ fragment' = IF 1 = Len(m.sizes) THEN 0 ELSE 1
  <2>1. Len(m.sizes) \in Nat \ {0}
    BY <1>6, <1>8, PayloadIs
  <2> QED BY <1>1, <1>6, <2>1
<1>13. peerWindow' = IF m.compressed THEN Tail32K(history \o Plain(n, m)) ELSE history
  BY <1>3, <1>5, <1>6
<1>14. ~(1 > 1)
  OBVIOUS
<1> QED BY <1>3, <1>4, <1>6, <1>7, <1>8, <1>9, <1>10, <1>11, <1>12, <1>13, <1>14, FragmentKeeps

\* A fragment after the first.
LEMMA ContinueKeeps ==
    ASSUME FrameInv, ContinueMessage
    PROVE  FrameInv'
<1>1. PICK n, m, k : n = Len(messages) /\ m = Last(messages) /\ k = fragment + 1
  OBVIOUS
<1>2. /\ stopped = FALSE /\ fragment > 0 /\ AddFragment(n, m, k)
      /\ fragment' = IF k = Len(m.sizes) THEN 0 ELSE k
      /\ messages' = messages /\ peerWindow' = peerWindow /\ deflate' = deflate
  BY <1>1 DEF ContinueMessage, FrameInv, FrameTyped
<1>3. /\ messages \in Seq(Message) /\ deflate \in BOOLEAN /\ overflowed \in BOOLEAN /\ fragment \in Nat
      /\ history \in Seq(Byte) /\ assembled \in Seq(Seq(Byte)) /\ messages # <<>>
      /\ fragment < Len(m.sizes)
      /\ \A i \in 1..Len(messages) : messages[i].compressed => deflate
  BY <1>1, <1>2 DEF FrameInv, FrameTyped
<1>4. n \in Nat \ {0} /\ m = messages[n] /\ m \in Message
  <2>1. n \in Nat \ {0}
    BY <1>1, <1>3, EmptySeq
  <2> QED BY <1>1, <1>3, <2>1, ElementOfSeq DEF Last
<1>5. k \in 1..Len(m.sizes) /\ k > 1 /\ k - 1 = fragment
  <2>1. Len(m.sizes) \in Nat
    BY <1>4, PayloadIs
  <2> QED BY <1>1, <1>2, <1>3, <2>1
<1>6. Held(n, m, k - 1)
  BY <1>1, <1>2, <1>5, Zenon DEF FrameInv, HeldInv
<1>7. /\ m.compressed => m.dict \in {<<>>, history} /\ peerWindow = Tail32K(history \o Plain(n, m))
      /\ ~m.compressed => peerWindow = history
  BY <1>1, <1>2, Zenon DEF FrameInv, WindowInv
<1>8. /\ m.compressed => deflate
      /\ m.compressed => m.dict = <<>> \/ m.dict = history
      /\ peerWindow' = IF m.compressed THEN Tail32K(history \o Plain(n, m)) ELSE history
  BY <1>1, <1>2, <1>3, <1>4, <1>7
<1>9. assembled = Out(messages', n - 1)
  <2>1. Completed = n - 1
    BY <1>1, <1>2, <1>3 DEF Completed
  <2> QED BY <1>2, <2>1, DecodedIs DEF FrameInv
<1>10. /\ messages' \in Seq(Message) /\ messages' # <<>> /\ Len(messages') = n /\ Last(messages') = m
       /\ \A i \in 1..n : messages'[i].compressed => deflate
  BY <1>1, <1>2, <1>3
<1> QED BY <1>2, <1>3, <1>4, <1>5, <1>6, <1>8, <1>9, <1>10, FragmentKeeps

\* Whatever cap, window and cuts: the captured stream of a direction is its text
\* messages within the caps, decoded, in their order, and a parser stops only at a
\* message beyond them (readWSFrame, wsMessageAssembler.add, wsInflater.inflate).
THEOREM FramesAreDecoded == FrameSpec => []FramesDecoded
<1>1. FrameInit => FrameInv
  <2> SUFFICES ASSUME FrameInit PROVE FrameInv
    OBVIOUS
  <2>1. messages = <<>> /\ fragment = 0 /\ stopped = FALSE /\ assembled = <<>> /\ Len(messages) = 0
    BY EmptySeq DEF FrameInit
  <2>2. FrameTyped /\ HeldInv /\ WindowInv
    <3>1. /\ <<>> \in Seq(Message) /\ <<>> \in Seq(Byte) /\ <<>> \in Seq(Seq(Byte))
          /\ fragment \in Nat /\ ~(fragment > 0)
          /\ \A i \in 1..Len(messages) : messages[i].compressed => deflate
      BY <2>1, EmptySeq
    <3>2. /\ deflate \in BOOLEAN /\ overflowed \in BOOLEAN /\ stopped \in BOOLEAN
          /\ history = <<>> /\ peerWindow = <<>>
      BY Zenon DEF FrameInit
    <3>3. HeldInv
      BY <3>1, Zenon DEF HeldInv
    <3>4. WindowInv
      BY <3>1, <3>2, Zenon DEF WindowInv
    <3>5. FrameTyped
      BY <2>1, <3>1, <3>2, Zenon DEF FrameTyped
    <3> QED BY <3>3, <3>4, <3>5
  <2>3. Out(messages, 0) = <<>>
    <3>1. [i \in 1..0 |-> WantedOf(i, messages[i])] = <<>>
      OBVIOUS
    <3> QED BY <3>1, FlattenNone, Zenon DEF Out
  <2>4. Completed = 0
    BY <2>1 DEF Completed
  <2> QED BY <2>1, <2>2, <2>3, <2>4, DecodedIs DEF FrameInv
<1>2. FrameInv /\ [FrameNext]_frameVars => FrameInv'
  <2> SUFFICES ASSUME FrameInv, [FrameNext]_frameVars PROVE FrameInv'
    OBVIOUS
  <2>1. CASE AddControl \/ UNCHANGED frameVars
    <3>1. UNCHANGED <<messages, fragment, peerWindow, deflate, msgVars, history, stopped, assembled>>
      BY <2>1 DEF AddControl, frameVars, peerVars
    <3> QED BY <3>1 DEF FrameInv, FrameTyped, HeldInv, Held, WindowInv, FramesDecoded, Completed, InCap, Wanted, msgVars
  <2> QED BY <2>1, BeginKeeps, ContinueKeeps DEF FrameNext
<1>3. FrameInv => FramesDecoded
  BY DEF FrameInv
<1> QED BY <1>1, <1>2, <1>3, PTL DEF FrameSpec

-----------------------------------------------------------------------------
(***************************************************************************)
(* What is joined.                                                         *)
(***************************************************************************)
\* What is joined is of what its parts are.
LEMMA FlattenTyped ==
    ASSUME NEW B, NEW p \in Seq(Seq(B))
    PROVE  FlattenSeq(p) \in Seq(B)
<1> DEFINE Bad == {i \in 1..Len(p) : FlatOf(p)[i] \notin Seq(B)}
<1>1. Len(p) \in Nat /\ \A i \in 1..Len(p) : p[i] \in Seq(B)
  BY LenProperties, ElementOfSeq
<1>2. \A i \in 1..Len(p) : FlatOf(p)[i] = FlatStep(p, FlatOf(p), i)
  BY <1>1, FlatExists
<1>3. ASSUME NEW i \in Bad, \A j \in Bad : i <= j PROVE FALSE
  <2>1. CASE i = 1
    BY <1>1, <1>2, <2>1 DEF FlatStep
  <2>2. CASE i # 1
    <3>1. i - 1 \in 1..Len(p) /\ ~(i <= i - 1) /\ i \in 1..Len(p)
      BY <1>1, <2>2
    <3>2. FlatOf(p)[i - 1] \in Seq(B)
      BY <1>3, <3>1
    <3>3. FlatOf(p)[i - 1] \o p[i] \in Seq(B)
      BY <1>1, <3>1, <3>2, ConcatProperties
    <3> QED BY <1>2, <2>2, <3>1, <3>3 DEF FlatStep
  <2> QED BY <2>1, <2>2
<1>4. Bad = {}
  <2>1. Bad \in SUBSET Nat
    BY <1>1
  <2> HIDE DEF Bad
  <2> QED BY <1>3, <2>1, LeastOfNat
<1>5. CASE Len(p) = 0
  <2>1. p = <<>>
    BY <1>5, EmptySeq
  <2> QED BY <2>1, FlattenNone, EmptySeq
<1>6. CASE Len(p) # 0
  <2>1. Len(p) \in 1..Len(p)
    BY <1>1, <1>6
  <2> QED BY <1>4, <1>6, <2>1, FlattenIsFlat
<1> QED BY <1>5, <1>6

\* One part more.
LEMMA FlattenGrows ==
    ASSUME NEW B, NEW n \in Nat, NEW w, \A i \in 1..(n + 1) : w[i] \in Seq(B)
    PROVE  /\ FlattenSeq([i \in 1..(n + 1) |-> w[i]]) = FlattenSeq([i \in 1..n |-> w[i]]) \o w[n + 1]
           /\ FlattenSeq([i \in 1..n |-> w[i]]) \in Seq(B)
           /\ FlattenSeq([i \in 1..(n + 1) |-> w[i]]) \in Seq(B)
<1> DEFINE p == [i \in 1..n |-> w[i]]
           q == [i \in 1..(n + 1) |-> w[i]]
<1>1. p \in Seq(Seq(B)) /\ q \in Seq(Seq(B)) /\ Len(p) = n /\ Len(q) = n + 1 /\ w[n + 1] \in Seq(B)
  <2>1. \A i \in 1..n : i \in 1..(n + 1)
    OBVIOUS
  <2>2. p \in [1..n -> Seq(B)] /\ q \in [1..(n + 1) -> Seq(B)]
    BY <2>1
  <2>3. n + 1 \in 1..(n + 1) /\ n + 1 \in Nat
    OBVIOUS
  <2> QED BY <2>2, <2>3, IsASeq, LenProperties
<1>2. q = Append(p, w[n + 1])
  <2>1. Append(p, w[n + 1]) \in Seq(Seq(B)) /\ Len(Append(p, w[n + 1])) = n + 1
    BY <1>1, AppendProperties
  <2>2. \A i \in 1..(n + 1) : q[i] = Append(p, w[n + 1])[i]
    <3> SUFFICES ASSUME NEW i \in 1..(n + 1) PROVE q[i] = Append(p, w[n + 1])[i]
      OBVIOUS
    <3>1. CASE i = n + 1
      BY <1>1, <3>1, AppendProperties
    <3>2. CASE i # n + 1
      <4>1. i \in 1..n /\ q[i] = w[i] /\ p[i] = w[i]
        BY <3>2
      <4> QED BY <1>1, <4>1, AppendProperties
    <3> QED BY <3>1, <3>2
  <2> HIDE DEF q, p
  <2> QED BY <1>1, <2>1, <2>2, SeqEqual
<1>3. FlattenSeq(q) = FlattenSeq(p) \o w[n + 1]
  <2> HIDE DEF q, p
  <2> QED BY <1>1, <1>2, FlattenAppend
<1>4. FlattenSeq(p) \in Seq(B) /\ FlattenSeq(q) \in Seq(B)
  <2> HIDE DEF q, p
  <2> QED BY <1>1, FlattenTyped
<1> QED BY <1>3, <1>4
-----------------------------------------------------------------------------
(***************************************************************************)
(* Sums.                                                                   *)
(***************************************************************************)
AddStep(s, g, i) == IF i = 0 THEN 0 ELSE g[i - 1] + s[i]
AddedUp(s) == CHOOSE g : g = [i \in 0..Len(s) |-> AddStep(s, g, i)]

\* Sum, as a function of how many are added.
LEMMA SumIsAdded == \A s : Sum(s) = AddedUp(s)[Len(s)]
BY DEF Sum, AddedUp, AddStep

\* Its equation has a solution.
LEMMA AddedExists ==
    ASSUME NEW s, Len(s) \in Nat
    PROVE  \A i \in 0..Len(s) : AddedUp(s)[i] = AddStep(s, AddedUp(s), i)
<1> DEFINE Good(n, f) == f = [i \in 0..n |-> AddStep(s, f, i)]
           Bad == {n \in Nat : ~ \E f : Good(n, f)}
<1>1. ASSUME NEW n \in Bad, \A m \in Bad : n <= m PROVE FALSE
  <2>1. CASE n = 0
    <3>1. Good(0, [i \in 0..0 |-> 0])
      BY DEF AddStep
    <3> QED BY <2>1, <3>1
  <2>2. CASE n # 0
    <3>1. n \in Nat /\ n - 1 \in Nat
      BY <2>2
    <3>2. n - 1 \notin Bad
      <4> HIDE DEF Bad
      <4> QED BY <1>1, <3>1
    <3>3. PICK f : Good(n - 1, f)
      BY <3>1, <3>2
    <3> DEFINE h == [i \in 0..n |-> AddStep(s, f, i)]
    <3>4. \A i \in 0..(n - 1) : i \in 0..n /\ h[i] = f[i]
      <4>1. \A i \in 0..(n - 1) : i \in 0..n
        BY <3>1
      <4> QED BY <3>3, <4>1
    <3>5. \A i \in 0..n : AddStep(s, f, i) = AddStep(s, h, i)
      <4> SUFFICES ASSUME NEW i \in 0..n, i # 0 PROVE AddStep(s, f, i) = AddStep(s, h, i)
        BY DEF AddStep
      <4>1. i - 1 \in 0..(n - 1)
        BY <3>1
      <4>2. f[i - 1] = h[i - 1]
        BY <3>4, <4>1
      <4> HIDE DEF h
      <4> QED BY <4>2 DEF AddStep
    <3>6. Good(n, h)
      BY <3>5
    <3> QED BY <3>1, <3>6
  <2> QED BY <2>1, <2>2
<1>2. Bad = {}
  <2>1. Bad \in SUBSET Nat
    OBVIOUS
  <2> HIDE DEF Bad
  <2> QED BY <1>1, <2>1, LeastOfNat
<1>3. PICK f : Good(Len(s), f)
  BY <1>2
<1> DEFINE F == AddedUp(s)
<1>4. F = [i \in 0..Len(s) |-> AddStep(s, F, i)]
  BY <1>3 DEF AddedUp
<1> HIDE DEF F
<1>5. \A i \in 0..Len(s) : F[i] = AddStep(s, F, i)
  BY <1>4, Zenon
<1> QED BY <1>5 DEF F

\* The equation, one number at a time.
LEMMA AddedIs ==
    ASSUME NEW s \in Seq(Nat)
    PROVE  /\ AddedUp(s)[0] = 0 /\ AddedUp(s)[Len(s)] = Sum(s) /\ Len(s) \in Nat
           /\ \A i \in 1..Len(s) : AddedUp(s)[i] = AddedUp(s)[i - 1] + s[i]
           /\ \A i \in 0..Len(s) : AddedUp(s)[i] \in Nat
<1> DEFINE Bad == {i \in 0..Len(s) : AddedUp(s)[i] \notin Nat}
<1>1. Len(s) \in Nat /\ \A i \in 1..Len(s) : s[i] \in Nat
  BY LenProperties, ElementOfSeq
<1>2. \A i \in 0..Len(s) : AddedUp(s)[i] = AddStep(s, AddedUp(s), i)
  BY <1>1, AddedExists
<1>3. AddedUp(s)[0] = 0 /\ \A i \in 1..Len(s) : AddedUp(s)[i] = AddedUp(s)[i - 1] + s[i]
  BY <1>1, <1>2 DEF AddStep
<1>4. ASSUME NEW i \in Bad, \A j \in Bad : i <= j PROVE FALSE
  <2>1. CASE i = 0
    BY <1>3, <2>1
  <2>2. CASE i # 0
    <3>1. i - 1 \in 0..Len(s) /\ ~(i <= i - 1) /\ i \in 1..Len(s)
      BY <1>1, <2>2
    <3>2. AddedUp(s)[i - 1] \in Nat
      BY <1>4, <3>1
    <3> QED BY <1>1, <1>3, <3>1, <3>2
  <2> QED BY <2>1, <2>2
<1>5. Bad = {}
  <2>1. Bad \in SUBSET Nat
    BY <1>1
  <2> HIDE DEF Bad
  <2> QED BY <1>4, <2>1, LeastOfNat
<1> QED BY <1>1, <1>3, <1>5, SumIsAdded

\* The sum of two sequences after one another.
LEMMA SumConcat ==
    ASSUME NEW s \in Seq(Nat), NEW t \in Seq(Nat)
    PROVE  Sum(s \o t) = Sum(s) + Sum(t)
<1> DEFINE c == s \o t
           BadS == {i \in 0..Len(s) : AddedUp(c)[i] # AddedUp(s)[i]}
           BadT == {i \in 0..Len(t) : AddedUp(c)[Len(s) + i] # Sum(s) + AddedUp(t)[i]}
<1>1. /\ c \in Seq(Nat) /\ Len(s) \in Nat /\ Len(t) \in Nat /\ Len(c) = Len(s) + Len(t)
      /\ \A i \in 1..Len(s) : c[i] = s[i]
      /\ \A i \in 1..Len(t) : c[Len(s) + i] = t[i]
  <2>1. Len(s) \in Nat /\ Len(t) \in Nat
    BY LenProperties
  <2>2. /\ c \in Seq(Nat) /\ Len(c) = Len(s) + Len(t)
        /\ \A i \in 1..(Len(s) + Len(t)) : c[i] = IF i <= Len(s) THEN s[i] ELSE t[i - Len(s)]
    BY ConcatProperties
  <2> HIDE DEF c
  <2>3. \A i \in 1..Len(s) : c[i] = s[i]
    BY <2>1, <2>2
  <2>4. \A i \in 1..Len(t) : c[Len(s) + i] = t[i]
    <3> SUFFICES ASSUME NEW i \in 1..Len(t) PROVE c[Len(s) + i] = t[i]
      OBVIOUS
    <3>1. Len(s) + i \in 1..(Len(s) + Len(t)) /\ ~(Len(s) + i <= Len(s)) /\ (Len(s) + i) - Len(s) = i
      BY <2>1
    <3> QED BY <2>2, <3>1
  <2> QED BY <2>1, <2>2, <2>3, <2>4
<1> HIDE DEF c
<1>2. /\ AddedUp(c)[0] = 0 /\ \A i \in 1..Len(c) : AddedUp(c)[i] = AddedUp(c)[i - 1] + c[i]
      /\ AddedUp(s)[0] = 0 /\ \A i \in 1..Len(s) : AddedUp(s)[i] = AddedUp(s)[i - 1] + s[i]
      /\ AddedUp(t)[0] = 0 /\ \A i \in 1..Len(t) : AddedUp(t)[i] = AddedUp(t)[i - 1] + t[i]
      /\ Sum(c) = AddedUp(c)[Len(c)] /\ Sum(s) = AddedUp(s)[Len(s)] /\ Sum(t) = AddedUp(t)[Len(t)]
      /\ \A i \in 0..Len(t) : AddedUp(t)[i] \in Nat
      /\ Sum(s) \in Nat /\ \A i \in 1..Len(t) : t[i] \in Nat
  <2>1. Len(s) \in 0..Len(s) /\ \A i \in 1..Len(t) : t[i] \in Nat
    BY <1>1, ElementOfSeq
  <2> QED BY <1>1, <2>1, AddedIs
<1>3. ASSUME NEW i \in BadS, \A j \in BadS : i <= j PROVE FALSE
  <2>1. CASE i = 0
    BY <1>2, <2>1
  <2>2. CASE i # 0
    <3>1. i - 1 \in 0..Len(s) /\ ~(i <= i - 1) /\ i \in 1..Len(s) /\ i \in 1..Len(c)
      BY <1>1, <2>2
    <3>2. AddedUp(c)[i - 1] = AddedUp(s)[i - 1]
      BY <1>3, <3>1
    <3>3. AddedUp(c)[i] = AddedUp(s)[i]
      BY <1>1, <1>2, <3>1, <3>2
    <3> QED BY <3>3
  <2> QED BY <2>1, <2>2
<1>4. BadS = {}
  <2>1. BadS \in SUBSET Nat
    BY <1>1
  <2> HIDE DEF BadS
  <2> QED BY <1>3, <2>1, LeastOfNat
<1>5. AddedUp(c)[Len(s)] = Sum(s)
  <2>1. Len(s) \in 0..Len(s)
    BY <1>1
  <2> QED BY <1>2, <1>4, <2>1
<1>6. ASSUME NEW i \in BadT, \A j \in BadT : i <= j PROVE FALSE
  <2>1. CASE i = 0
    <3>1. Len(s) + i = Len(s) /\ Sum(s) + 0 = Sum(s)
      BY <1>1, <1>2, <2>1
    <3> QED BY <1>2, <1>5, <2>1, <3>1
  <2>2. CASE i # 0
    <3>0. i \in 1..Len(t) /\ Len(s) \in Nat /\ Len(t) \in Nat /\ Len(c) = Len(s) + Len(t)
      BY <1>1, <2>2
    <3>1. i - 1 \in 0..Len(t) /\ ~(i <= i - 1) /\ i \in 1..Len(t) /\ Len(s) + i \in 1..Len(c) /\ (Len(s) + i) - 1 = Len(s) + (i - 1)
      BY ONLY <3>0
    <3>2. AddedUp(c)[Len(s) + (i - 1)] = Sum(s) + AddedUp(t)[i - 1]
      BY <1>6, <3>1
    <3>3. AddedUp(c)[Len(s) + i] = AddedUp(c)[Len(s) + (i - 1)] + t[i]
      BY <1>1, <1>2, <3>1
    <3>4. AddedUp(t)[i] = AddedUp(t)[i - 1] + t[i]
      BY <1>2, <3>1
    <3>5. t[i] \in Nat /\ AddedUp(t)[i - 1] \in Nat
      BY <1>2, <3>1
    <3>6. AddedUp(c)[Len(s) + i] = Sum(s) + AddedUp(t)[i]
      BY <1>2, <3>2, <3>3, <3>4, <3>5
    <3> QED BY <3>6
  <2> QED BY <2>1, <2>2
<1>7. BadT = {}
  <2>1. BadT \in SUBSET Nat
    BY <1>1
  <2> HIDE DEF BadT
  <2> QED BY <1>6, <2>1, LeastOfNat
<1>8. Sum(c) = Sum(s) + Sum(t)
  <2>1. Len(t) \in 0..Len(t)
    BY <1>1
  <2> QED BY <1>1, <1>2, <1>7, <2>1
<1> QED BY <1>8 DEF c

\* The sum of none, of one, and of one more.
LEMMA SumOfOne ==
    /\ Sum(<<>>) = 0
    /\ \A x \in Nat : Sum(<<x>>) = x
    /\ \A s \in Seq(Nat) : Sum(s) \in Nat
<1>1. <<>> \in Seq(Nat) /\ Len(<<>>) = 0
  BY EmptySeq
<1>2. Sum(<<>>) = 0
  BY <1>1, AddedIs
<1>3. ASSUME NEW x \in Nat PROVE Sum(<<x>>) = x
  <2> DEFINE s == <<x>>
  <2>1. s \in Seq(Nat) /\ Len(s) = 1 /\ s[1] = x
    OBVIOUS
  <2> HIDE DEF s
  <2>2. AddedUp(s)[0] = 0 /\ AddedUp(s)[Len(s)] = Sum(s) /\ \A i \in 1..Len(s) : AddedUp(s)[i] = AddedUp(s)[i - 1] + s[i]
    BY <2>1, AddedIs
  <2>3. 1 \in 1..Len(s) /\ 1 - 1 = 0
    BY <2>1
  <2>4. AddedUp(s)[1] = AddedUp(s)[0] + x
    BY <2>1, <2>2, <2>3
  <2>5. Sum(s) = x
    BY <2>1, <2>2, <2>4
  <2> QED BY <2>5 DEF s
<1>4. ASSUME NEW s \in Seq(Nat) PROVE Sum(s) \in Nat
  <2>1. Len(s) \in Nat /\ Len(s) \in 0..Len(s)
    BY LenProperties
  <2> QED BY <2>1, AddedIs
<1> QED BY <1>2, <1>3, <1>4

-----------------------------------------------------------------------------
(***************************************************************************)
(* The size of a text.                                                     *)
(***************************************************************************)
\* The tokens of a text: those the sidecar writes are named, as no prover knows
\* that a literal is a string.
Token == STRING \cup {"[", "] (relevance: ", ")\n", "\n", "<retrieved-context>", "</retrieved-context>", "notice",
                     "[REDACTED]", "&lt;context source=muninn", "&lt;context", ".", "..."}
Words == Seq(Token)
Weight(w) == IF w \in DOMAIN Wide THEN Wide[w] ELSE 1
Weights(t) == [i \in DOMAIN t |-> Weight(t[i])]

\* A byte of a token, or as many as it is wide.
LEMMA WeightTyped == \A w : Weight(w) \in Nat
BY BlockAssumption DEF Weight

\* A text is as large as its words.
LEMMA BytesIsSum == \A t : Bytes(t) = Sum(Weights(t))
BY DEF Bytes, Weights, Weight

\* The bytes of a text's tokens.
LEMMA WeightsTyped ==
    ASSUME NEW t \in Words
    PROVE  Weights(t) \in Seq(Nat) /\ Len(Weights(t)) = Len(t) /\ Len(t) \in Nat /\ Bytes(t) \in Nat
<1>1. DOMAIN t = 1..Len(t) /\ Len(t) \in Nat
  BY LenProperties DEF Words
<1>2. Weights(t) \in [1..Len(t) -> Nat]
  BY <1>1, WeightTyped DEF Weights
<1>3. Weights(t) \in Seq(Nat) /\ Len(Weights(t)) = Len(t)
  BY <1>1, <1>2, IsASeq, LenProperties
<1> QED BY <1>1, <1>3, BytesIsSum, SumOfOne

\* Two texts after one another.
LEMMA BytesConcat ==
    ASSUME NEW a \in Words, NEW b \in Words
    PROVE  Bytes(a \o b) = Bytes(a) + Bytes(b) /\ a \o b \in Words
<1>1. /\ a \o b \in Words /\ Len(a \o b) = Len(a) + Len(b) /\ Len(a) \in Nat /\ Len(b) \in Nat
      /\ \A i \in 1..(Len(a) + Len(b)) : (a \o b)[i] = IF i <= Len(a) THEN a[i] ELSE b[i - Len(a)]
  BY ConcatProperties, LenProperties DEF Words
<1>2. /\ Weights(a) \in Seq(Nat) /\ Weights(b) \in Seq(Nat) /\ Weights(a \o b) \in Seq(Nat)
      /\ Len(Weights(a)) = Len(a) /\ Len(Weights(b)) = Len(b) /\ Len(Weights(a \o b)) = Len(a) + Len(b)
  BY <1>1, WeightsTyped
<1>3. DOMAIN a = 1..Len(a) /\ DOMAIN b = 1..Len(b) /\ DOMAIN (a \o b) = 1..(Len(a) + Len(b))
  BY <1>1, LenProperties DEF Words
<1>4. /\ Weights(a) \o Weights(b) \in Seq(Nat) /\ Len(Weights(a) \o Weights(b)) = Len(a) + Len(b)
      /\ \A i \in 1..(Len(a) + Len(b)) :
            (Weights(a) \o Weights(b))[i] = IF i <= Len(a) THEN Weights(a)[i] ELSE Weights(b)[i - Len(a)]
  <2>1. \A u, v \in Seq(Nat) :
          /\ u \o v \in Seq(Nat) /\ Len(u \o v) = Len(u) + Len(v)
          /\ \A i \in 1..(Len(u) + Len(v)) : (u \o v)[i] = IF i <= Len(u) THEN u[i] ELSE v[i - Len(u)]
    BY ConcatProperties, Zenon
  <2> QED BY <1>2, <2>1
<1>5. \A i \in 1..(Len(a) + Len(b)) : Weights(a \o b)[i] = (Weights(a) \o Weights(b))[i]
  <2> SUFFICES ASSUME NEW i \in 1..(Len(a) + Len(b))
               PROVE Weights(a \o b)[i] = (Weights(a) \o Weights(b))[i]
    OBVIOUS
  <2>1. Weights(a \o b)[i] = Weight((a \o b)[i])
    BY <1>3 DEF Weights
  <2>2. CASE i <= Len(a)
    <3>1. i \in 1..Len(a)
      BY <1>1, <2>2
    <3>2. Weights(a)[i] = Weight(a[i])
      BY <1>3, <3>1 DEF Weights
    <3>3. (a \o b)[i] = a[i] /\ (Weights(a) \o Weights(b))[i] = Weights(a)[i]
      BY <1>1, <1>4, <2>2
    <3> QED BY <2>1, <3>2, <3>3
  <2>3. CASE ~(i <= Len(a))
    <3>1. i - Len(a) \in 1..Len(b)
      BY <1>1, <2>3
    <3>2. Weights(b)[i - Len(a)] = Weight(b[i - Len(a)])
      BY <1>3, <3>1 DEF Weights
    <3>3. (a \o b)[i] = b[i - Len(a)] /\ (Weights(a) \o Weights(b))[i] = Weights(b)[i - Len(a)]
      BY <1>1, <1>4, <2>3
    <3> QED BY <2>1, <3>2, <3>3
  <2> QED BY <2>2, <2>3
<1>6. Weights(a \o b) = Weights(a) \o Weights(b)
  BY <1>1, <1>2, <1>4, <1>5, SeqEqual
<1>7. Sum(Weights(a \o b)) = Sum(Weights(a)) + Sum(Weights(b))
  BY <1>2, <1>6, SumConcat
<1> QED BY <1>1, <1>7, BytesIsSum

\* No word, and one.
LEMMA BytesOfOne ==
    /\ <<>> \in Words /\ Bytes(<<>>) = 0
    /\ \A w \in Token : <<w>> \in Words /\ Bytes(<<w>>) = Weight(w)
<1>1. <<>> \in Words
  BY EmptySeq DEF Words
<1>2. Bytes(<<>>) = 0
  <2>1. Weights(<<>>) \in Seq(Nat) /\ Len(Weights(<<>>)) = 0
    BY <1>1, WeightsTyped, EmptySeq
  <2>2. Weights(<<>>) = <<>>
    BY <2>1, EmptySeq
  <2> QED BY <2>2, BytesIsSum, SumOfOne
<1>3. ASSUME NEW w \in Token PROVE <<w>> \in Words /\ Bytes(<<w>>) = Weight(w)
  <2> DEFINE t == <<w>>
             v == <<Weight(w)>>
  <2>1. t \in Words /\ Len(t) = 1 /\ t[1] = w
    BY DEF Words
  <2>2. v \in Seq(Nat) /\ Len(v) = 1 /\ v[1] = Weight(w) /\ Sum(v) = Weight(w)
    BY WeightTyped, SumOfOne
  <2> HIDE DEF t, v
  <2>3. Weights(t) \in Seq(Nat) /\ Len(Weights(t)) = 1 /\ DOMAIN t = 1..1
    BY <2>1, WeightsTyped, LenProperties DEF Words
  <2>4. \A i \in 1..1 : Weights(t)[i] = v[i]
    BY <2>1, <2>2, <2>3 DEF Weights
  <2>5. Weights(t) = v
    BY <2>2, <2>3, <2>4, SeqEqual
  <2> QED BY <2>1, <2>2, <2>5, BytesIsSum DEF t
<1> QED BY <1>1, <1>2, <1>3

\* A sequence and one token more.
LEMMA OneAdded ==
    ASSUME NEW t \in Words, NEW p \in Words, NEW w \in Words, Len(w) = 1, Len(t) = Len(p) + 1,
           \A i \in 1..Len(p) : t[i] = p[i], t[Len(p) + 1] = w[1]
    PROVE  t = p \o w
<1>1. /\ p \o w \in Words /\ Len(p \o w) = Len(t) /\ Len(p) \in Nat
      /\ \A i \in 1..Len(t) : (p \o w)[i] = IF i <= Len(p) THEN p[i] ELSE w[i - Len(p)]
  <2>1. /\ p \o w \in Words /\ Len(p \o w) = Len(p) + Len(w) /\ Len(p) \in Nat
        /\ \A i \in 1..(Len(p) + Len(w)) : (p \o w)[i] = IF i <= Len(p) THEN p[i] ELSE w[i - Len(p)]
    BY ConcatProperties, LenProperties, Zenon DEF Words
  <2> QED BY <2>1
<1>2. \A i \in 1..Len(t) : t[i] = (p \o w)[i]
  <2> SUFFICES ASSUME NEW i \in 1..Len(t) PROVE t[i] = (p \o w)[i]
    OBVIOUS
  <2>1. CASE i <= Len(p)
    BY <1>1, <2>1
  <2>2. CASE ~(i <= Len(p))
    <3>1. i = Len(p) + 1 /\ i - Len(p) = 1
      BY <1>1, <2>2
    <3> QED BY <1>1, <2>2, <3>1
  <2> QED BY <2>1, <2>2
<1> QED BY <1>1, <1>2, SeqEqual DEF Words

\* A few words.
LEMMA BytesOfTwo ==
    \A a, b \in Token : <<a, b>> \in Words /\ Bytes(<<a, b>>) = Weight(a) + Weight(b)
<1> SUFFICES ASSUME NEW a \in Token, NEW b \in Token
             PROVE  <<a, b>> \in Words /\ Bytes(<<a, b>>) = Weight(a) + Weight(b)
  OBVIOUS
<1> DEFINE t == <<a, b>>
           p == <<a>>
           w == <<b>>
<1>1. t \in Words /\ Len(t) = 2 /\ t[1] = a /\ t[2] = b
  BY DEF Words
<1>2. p \in Words /\ Len(p) = 1 /\ p[1] = a
  BY DEF Words
<1>3. w \in Words /\ Len(w) = 1 /\ w[1] = b
  BY DEF Words
<1>4. Bytes(p) = Weight(a) /\ Bytes(w) = Weight(b)
  BY BytesOfOne, Zenon
<1> HIDE DEF t, p, w
<1>5. \A i \in 1..Len(p) : t[i] = p[i]
  BY <1>1, <1>2
<1>6. Len(t) = Len(p) + 1 /\ t[Len(p) + 1] = w[1]
  BY <1>1, <1>2, <1>3
<1>7. t = p \o w
  BY <1>1, <1>2, <1>3, <1>5, <1>6, OneAdded
<1>8. Bytes(t) = Bytes(p) + Bytes(w)
  BY <1>2, <1>3, <1>7, BytesConcat
<1> QED BY <1>1, <1>4, <1>8 DEF t

\* The size of three pieces.
LEMMA BytesOfThree ==
    \A a, b, c \in Token : <<a, b, c>> \in Words /\ Bytes(<<a, b, c>>) = Weight(a) + Weight(b) + Weight(c)
<1> SUFFICES ASSUME NEW a \in Token, NEW b \in Token, NEW c \in Token
             PROVE  <<a, b, c>> \in Words /\ Bytes(<<a, b, c>>) = Weight(a) + Weight(b) + Weight(c)
  OBVIOUS
<1> DEFINE t == <<a, b, c>>
           p == <<a, b>>
           w == <<c>>
<1>1. t \in Words /\ Len(t) = 3 /\ t[1] = a /\ t[2] = b /\ t[3] = c
  BY DEF Words
<1>2. p \in Words /\ Len(p) = 2 /\ p[1] = a /\ p[2] = b
  BY DEF Words
<1>3. w \in Words /\ Len(w) = 1 /\ w[1] = c
  BY DEF Words
<1>4. Bytes(p) = Weight(a) + Weight(b) /\ Bytes(w) = Weight(c)
  BY BytesOfOne, BytesOfTwo, Zenon
<1> HIDE DEF t, p, w
<1>5. \A i \in 1..Len(p) : t[i] = p[i]
  BY <1>1, <1>2
<1>6. Len(t) = Len(p) + 1 /\ t[Len(p) + 1] = w[1]
  BY <1>1, <1>2, <1>3
<1>7. t = p \o w
  BY <1>1, <1>2, <1>3, <1>5, <1>6, OneAdded
<1>8. Bytes(t) = Bytes(p) + Bytes(w)
  BY <1>2, <1>3, <1>7, BytesConcat
<1> QED BY <1>1, <1>4, <1>8 DEF t

\* Of four.
LEMMA BytesOfFour ==
    \A a, b, c, d \in Token : <<a, b, c, d>> \in Words /\ Bytes(<<a, b, c, d>>) = Weight(a) + Weight(b) + Weight(c) + Weight(d)
<1> SUFFICES ASSUME NEW a \in Token, NEW b \in Token, NEW c \in Token, NEW d \in Token
             PROVE  <<a, b, c, d>> \in Words /\ Bytes(<<a, b, c, d>>) = Weight(a) + Weight(b) + Weight(c) + Weight(d)
  OBVIOUS
<1> DEFINE t == <<a, b, c, d>>
           p == <<a, b, c>>
           w == <<d>>
<1>1. t \in Words /\ Len(t) = 4 /\ t[1] = a /\ t[2] = b /\ t[3] = c /\ t[4] = d
  BY DEF Words
<1>2. p \in Words /\ Len(p) = 3 /\ p[1] = a /\ p[2] = b /\ p[3] = c
  BY DEF Words
<1>3. w \in Words /\ Len(w) = 1 /\ w[1] = d
  BY DEF Words
<1>4. Bytes(p) = Weight(a) + Weight(b) + Weight(c) /\ Bytes(w) = Weight(d)
  BY BytesOfOne, BytesOfThree, Zenon
<1> HIDE DEF t, p, w
<1>5. \A i \in 1..Len(p) : t[i] = p[i]
  BY <1>1, <1>2
<1>6. Len(t) = Len(p) + 1 /\ t[Len(p) + 1] = w[1]
  BY <1>1, <1>2, <1>3
<1>7. t = p \o w
  BY <1>1, <1>2, <1>3, <1>5, <1>6, OneAdded
<1>8. Bytes(t) = Bytes(p) + Bytes(w)
  BY <1>2, <1>3, <1>7, BytesConcat
<1> QED BY <1>1, <1>4, <1>8 DEF t

\* Of five.
LEMMA BytesOfFive ==
    \A a, b, c, d, e \in Token : <<a, b, c, d, e>> \in Words /\ Bytes(<<a, b, c, d, e>>) = Weight(a) + Weight(b) + Weight(c) + Weight(d) + Weight(e)
<1> SUFFICES ASSUME NEW a \in Token, NEW b \in Token, NEW c \in Token, NEW d \in Token, NEW e \in Token
             PROVE  <<a, b, c, d, e>> \in Words /\ Bytes(<<a, b, c, d, e>>) = Weight(a) + Weight(b) + Weight(c) + Weight(d) + Weight(e)
  OBVIOUS
<1> DEFINE t == <<a, b, c, d, e>>
           p == <<a, b, c, d>>
           w == <<e>>
<1>1. t \in Words /\ Len(t) = 5 /\ t[1] = a /\ t[2] = b /\ t[3] = c /\ t[4] = d /\ t[5] = e
  BY DEF Words
<1>2. p \in Words /\ Len(p) = 4 /\ p[1] = a /\ p[2] = b /\ p[3] = c /\ p[4] = d
  BY DEF Words
<1>3. w \in Words /\ Len(w) = 1 /\ w[1] = e
  BY DEF Words
<1>4. Bytes(p) = Weight(a) + Weight(b) + Weight(c) + Weight(d) /\ Bytes(w) = Weight(e)
  <2>1. Bytes(p) = Weight(a) + Weight(b) + Weight(c) + Weight(d)
    BY BytesOfFour
  <2> QED BY <2>1, BytesOfOne, Zenon
<1> HIDE DEF t, p, w
<1>5. \A i \in 1..Len(p) : t[i] = p[i]
  BY <1>1, <1>2
<1>6. Len(t) = Len(p) + 1 /\ t[Len(p) + 1] = w[1]
  BY <1>1, <1>2, <1>3
<1>7. t = p \o w
  BY <1>1, <1>2, <1>3, <1>5, <1>6, OneAdded
<1>8. Bytes(t) = Bytes(p) + Bytes(w)
  BY <1>2, <1>3, <1>7, BytesConcat
<1> QED BY <1>1, <1>4, <1>8 DEF t

-----------------------------------------------------------------------------
(***************************************************************************)
(* The size of an entry, and of a block.                                   *)
(***************************************************************************)
Memory == [concept : Words, content : Words, score : Token]

\* What the sidecar itself writes is of tokens.
LEMMA Literals ==
    /\ "[" \in Token /\ "] (relevance: " \in Token /\ ")\n" \in Token /\ "\n" \in Token
    /\ "<retrieved-context>" \in Token /\ "</retrieved-context>" \in Token /\ "notice" \in Token
    /\ "[REDACTED]" \in Token /\ "&lt;context source=muninn" \in Token /\ "&lt;context" \in Token
    /\ "." \in Token /\ "..." \in Token
BY DEF Token

\* What is written of a text is of tokens.
LEMMA WrittenTyped ==
    ASSUME NEW t \in Words
    PROVE  Written(t) \in Words
<1>1. DOMAIN t = 1..Len(t) /\ Len(t) \in Nat /\ \A i \in 1..Len(t) : t[i] \in Token
  BY LenProperties, ElementOfSeq DEF Words
<1>2. Redact(t) \in [1..Len(t) -> Token]
  BY <1>1, Literals DEF Redact
<1>3. Written(t) \in [1..Len(t) -> Token]
  <2>1. \A r \in [1..Len(t) -> Token] : NeutralizeMarkers(r) \in [1..Len(t) -> Token]
    BY Literals DEF NeutralizeMarkers
  <2> QED BY <1>2, <2>1 DEF Written
<1> QED BY <1>1, <1>3, IsASeq DEF Words

\* Five texts after one another.
LEMMA BytesOfParts ==
    ASSUME NEW a \in Words, NEW b \in Words, NEW c \in Words, NEW d \in Words, NEW e \in Words
    PROVE  /\ a \o b \o c \o d \o e \in Words
           /\ Bytes(a \o b \o c \o d \o e) = Bytes(a) + Bytes(b) + Bytes(c) + Bytes(d) + Bytes(e)
<1>1. a \o b \in Words /\ Bytes(a \o b) = Bytes(a) + Bytes(b)
  BY BytesConcat
<1>2. a \o b \o c \in Words /\ Bytes(a \o b \o c) = Bytes(a) + Bytes(b) + Bytes(c)
  BY <1>1, BytesConcat
<1>3. a \o b \o c \o d \in Words /\ Bytes(a \o b \o c \o d) = Bytes(a) + Bytes(b) + Bytes(c) + Bytes(d)
  BY <1>2, BytesConcat
<1> QED BY <1>3, BytesConcat

\* The framing of an entry.
LEMMA EntryFramed ==
    ASSUME NEW open \in Token, NEW close \in Token, NEW score \in Token, NEW paren \in Token, NEW break \in Token,
           NEW n \in Words, NEW c \in Words
    PROVE  LET entry == <<open>> \o n \o <<close, score, paren>> \o c \o <<break, break>>
           IN /\ entry \in Words
              /\ Bytes(entry) = Bytes(n) + Bytes(c) + (Bytes(<<open, close, paren, break, break>>) + Bytes(<<score>>))
              /\ Bytes(<<open, close, paren, break, break>>) + Bytes(<<score>>) \in Nat
<1> DEFINE entry == <<open>> \o n \o <<close, score, paren>> \o c \o <<break, break>>
<1>0. /\ <<open>> \in Words /\ Bytes(<<open>>) = Weight(open)
      /\ <<score>> \in Words /\ Bytes(<<score>>) = Weight(score)
  BY BytesOfOne, Zenon
<1>1. /\ <<open>> \in Words /\ Bytes(<<open>>) = Weight(open)
      /\ <<score>> \in Words /\ Bytes(<<score>>) = Weight(score)
      /\ <<close, score, paren>> \in Words
      /\ Bytes(<<close, score, paren>>) = Weight(close) + Weight(score) + Weight(paren)
      /\ <<break, break>> \in Words /\ Bytes(<<break, break>>) = Weight(break) + Weight(break)
      /\ Bytes(<<open, close, paren, break, break>>)
           = Weight(open) + Weight(close) + Weight(paren) + Weight(break) + Weight(break)
  <2>1. <<close, score, paren>> \in Words /\ Bytes(<<close, score, paren>>) = Weight(close) + Weight(score) + Weight(paren)
    BY BytesOfThree
  <2>2. <<break, break>> \in Words /\ Bytes(<<break, break>>) = Weight(break) + Weight(break)
    BY BytesOfTwo
  <2>3. Bytes(<<open, close, paren, break, break>>)
           = Weight(open) + Weight(close) + Weight(paren) + Weight(break) + Weight(break)
    BY BytesOfFive
  <2> QED BY <1>0, <2>1, <2>2, <2>3
<1>2. /\ Weight(open) \in Nat /\ Weight(close) \in Nat /\ Weight(score) \in Nat /\ Weight(paren) \in Nat
      /\ Weight(break) \in Nat /\ Bytes(n) \in Nat /\ Bytes(c) \in Nat
  BY WeightTyped, WeightsTyped
<1>3. /\ entry \in Words
      /\ Bytes(entry) = Bytes(<<open>>) + Bytes(n) + Bytes(<<close, score, paren>>) + Bytes(c) + Bytes(<<break, break>>)
  BY <1>1, BytesOfParts
<1> HIDE DEF entry
<1>4. /\ Bytes(entry) = Bytes(n) + Bytes(c) + (Bytes(<<open, close, paren, break, break>>) + Bytes(<<score>>))
      /\ Bytes(<<open, close, paren, break, break>>) + Bytes(<<score>>) \in Nat
  BY <1>1, <1>2, <1>3
<1> QED BY <1>3, <1>4 DEF entry

\* An entry is as large as it is taken to be.
LEMMA EntrySize ==
    ASSUME NEW m \in Memory
    PROVE  /\ Entry(m) \in Words /\ Bytes(Entry(m)) = EntryBytes(m) /\ EntryBytes(m) \in Nat
           /\ ConceptBytes(m) \in Nat /\ ContentBytes(m) \in Nat /\ EntryOverhead(m) \in Nat
<1>1. m.concept \in Words /\ m.content \in Words /\ m.score \in Token
  BY DEF Memory
<1>2. Written(m.concept) \in Words /\ Written(m.content) \in Words
  BY <1>1, WrittenTyped
<1>3. /\ Entry(m) \in Words
      /\ Bytes(Entry(m)) = Bytes(Written(m.concept)) + Bytes(Written(m.content)) + EntryOverhead(m)
      /\ EntryOverhead(m) \in Nat
  BY <1>1, <1>2, Literals, EntryFramed, Zenon DEF Entry, EntryOverhead, EntryFraming
<1>4. Bytes(Written(m.concept)) \in Nat /\ Bytes(Written(m.content)) \in Nat
  BY <1>2, WeightsTyped
<1> QED BY <1>3, <1>4 DEF EntryBytes, ConceptBytes, ContentBytes

\* The first k of a sequence.
LEMMA PrefixOf ==
    ASSUME NEW S, NEW s \in Seq(S), NEW k \in 0..Len(s)
    PROVE  /\ SubSeq(s, 1, k) \in Seq(S) /\ Len(SubSeq(s, 1, k)) = k /\ k \in Nat
           /\ DOMAIN SubSeq(s, 1, k) = 1..k
           /\ \A i \in 1..k : SubSeq(s, 1, k)[i] = s[i] /\ s[i] \in S
<1>1. Len(s) \in Nat
  BY LenProperties
<1>2. \A i \in 1..k : s[i] \in S
  BY <1>1, ElementOfSeq
<1>3. SubSeq(s, 1, k) \in Seq(S) /\ Len(SubSeq(s, 1, k)) = k /\ \A i \in 1..k : SubSeq(s, 1, k)[i] = s[i]
  BY <1>1, <1>2, SubSeqProperties
<1> QED BY <1>1, <1>2, <1>3, LenProperties

\* One number more.
LEMMA SumGrows ==
    ASSUME NEW n \in Nat, NEW w, \A i \in 1..(n + 1) : w[i] \in Nat
    PROVE  /\ Sum([i \in 1..(n + 1) |-> w[i]]) = Sum([i \in 1..n |-> w[i]]) + w[n + 1]
           /\ Sum([i \in 1..n |-> w[i]]) \in Nat /\ w[n + 1] \in Nat
<1> DEFINE p == [i \in 1..n |-> w[i]]
           q == [i \in 1..(n + 1) |-> w[i]]
           l == <<w[n + 1]>>
<1>1. p \in Seq(Nat) /\ q \in Seq(Nat) /\ Len(p) = n /\ Len(q) = n + 1 /\ w[n + 1] \in Nat
  <2>1. \A i \in 1..n : i \in 1..(n + 1)
    OBVIOUS
  <2>2. p \in [1..n -> Nat] /\ q \in [1..(n + 1) -> Nat]
    BY <2>1
  <2>3. n + 1 \in 1..(n + 1) /\ n + 1 \in Nat
    OBVIOUS
  <2> QED BY <2>2, <2>3, IsASeq, LenProperties
<1>2. \A i \in 1..n : q[i] = p[i]
  OBVIOUS
<1>3. q[n + 1] = w[n + 1]
  OBVIOUS
<1>4. l \in Seq(Nat) /\ Len(l) = 1 /\ l[1] = w[n + 1] /\ Sum(l) = w[n + 1]
  BY <1>1, SumOfOne
<1> HIDE DEF p, q, l
<1>5. /\ p \o l \in Seq(Nat) /\ Len(p \o l) = n + 1
      /\ \A i \in 1..(n + 1) : (p \o l)[i] = IF i <= n THEN p[i] ELSE l[i - n]
  <2>1. /\ p \o l \in Seq(Nat) /\ Len(p \o l) = Len(p) + Len(l)
        /\ \A i \in 1..(Len(p) + Len(l)) : (p \o l)[i] = IF i <= Len(p) THEN p[i] ELSE l[i - Len(p)]
    BY <1>1, <1>4, ConcatProperties
  <2> QED BY <1>1, <1>4, <2>1
<1>6. \A i \in 1..(n + 1) : q[i] = (p \o l)[i]
  <2> SUFFICES ASSUME NEW i \in 1..(n + 1) PROVE q[i] = (p \o l)[i]
    OBVIOUS
  <2>1. CASE i <= n
    <3>1. i \in 1..n
      BY <2>1
    <3> QED BY <1>2, <1>5, <2>1, <3>1
  <2>2. CASE ~(i <= n)
    <3>1. i = n + 1 /\ i - n = 1
      BY <2>2
    <3> QED BY <1>3, <1>4, <1>5, <2>2, <3>1
  <2> QED BY <2>1, <2>2
<1>7. q = p \o l
  BY <1>1, <1>5, <1>6, SeqEqual
<1>8. Sum(q) = Sum(p) + w[n + 1]
  BY <1>1, <1>4, <1>7, SumConcat
<1> QED BY <1>1, <1>8, SumOfOne DEF p, q

\* What the first k memories are joined to, and what they take.
LEMMA PrefixParts ==
    ASSUME NEW ms \in Seq(Memory), NEW k \in 0..Len(ms)
    PROVE  /\ Joined(Entry, SubSeq(ms, 1, k)) = FlattenSeq([i \in 1..k |-> Entry(ms[i])])
           /\ TotalBytes(SubSeq(ms, 1, k)) = Sum([i \in 1..k |-> EntryBytes(ms[i])])
<1> DEFINE p == SubSeq(ms, 1, k)
<1>1. DOMAIN p = 1..k /\ \A i \in 1..k : p[i] = ms[i]
  BY PrefixOf
<1> HIDE DEF p
<1>2. [i \in DOMAIN p |-> Entry(p[i])] = [i \in 1..k |-> Entry(ms[i])]
  BY <1>1
<1>3. [i \in DOMAIN p |-> EntryBytes(p[i])] = [i \in 1..k |-> EntryBytes(ms[i])]
  BY <1>1
<1>4. Joined(Entry, p) = FlattenSeq([i \in 1..k |-> Entry(ms[i])])
  BY <1>2 DEF Joined
<1>5. TotalBytes(p) = Sum([i \in 1..k |-> EntryBytes(ms[i])])
  BY <1>3 DEF TotalBytes
<1> QED BY <1>4, <1>5 DEF p

\* One memory more.
LEMMA PrefixGrows ==
    ASSUME NEW ms \in Seq(Memory), NEW k \in 0..(Len(ms) - 1)
    PROVE  /\ Joined(Entry, SubSeq(ms, 1, k + 1)) = Joined(Entry, SubSeq(ms, 1, k)) \o Entry(ms[k + 1])
           /\ TotalBytes(SubSeq(ms, 1, k + 1)) = TotalBytes(SubSeq(ms, 1, k)) + EntryBytes(ms[k + 1])
           /\ TotalBytes(SubSeq(ms, 1, k)) \in Nat /\ ms[k + 1] \in Memory
<1> DEFINE e == [i \in 1..(k + 1) |-> Entry(ms[i])]
           b == [i \in 1..(k + 1) |-> EntryBytes(ms[i])]
<1>1. /\ Len(ms) \in Nat /\ k \in Nat /\ k \in 0..Len(ms) /\ k + 1 \in 0..Len(ms) /\ k + 1 \in 1..(k + 1)
      /\ \A i \in 1..(k + 1) : i \in 1..Len(ms)
  BY LenProperties
<1>2. \A i \in 1..(k + 1) : ms[i] \in Memory
  BY <1>1, ElementOfSeq
<1>3. \A i \in 1..(k + 1) : e[i] \in Seq(Token) /\ b[i] \in Nat
  BY <1>2, EntrySize DEF Words
<1>4. /\ [i \in 1..(k + 1) |-> e[i]] = [i \in 1..(k + 1) |-> Entry(ms[i])] /\ e[k + 1] = Entry(ms[k + 1])
      /\ [i \in 1..k |-> e[i]] = [i \in 1..k |-> Entry(ms[i])]
  BY <1>1
<1>5. /\ [i \in 1..(k + 1) |-> b[i]] = [i \in 1..(k + 1) |-> EntryBytes(ms[i])] /\ b[k + 1] = EntryBytes(ms[k + 1])
      /\ [i \in 1..k |-> b[i]] = [i \in 1..k |-> EntryBytes(ms[i])]
  BY <1>1
<1> HIDE DEF e, b
<1>6. FlattenSeq([i \in 1..(k + 1) |-> e[i]]) = FlattenSeq([i \in 1..k |-> e[i]]) \o e[k + 1]
  BY <1>1, <1>3, FlattenGrows
<1>7. /\ Sum([i \in 1..(k + 1) |-> b[i]]) = Sum([i \in 1..k |-> b[i]]) + b[k + 1]
      /\ Sum([i \in 1..k |-> b[i]]) \in Nat
  BY <1>1, <1>3, SumGrows
<1>8. /\ Joined(Entry, SubSeq(ms, 1, k + 1)) = FlattenSeq([i \in 1..(k + 1) |-> Entry(ms[i])])
      /\ Joined(Entry, SubSeq(ms, 1, k)) = FlattenSeq([i \in 1..k |-> Entry(ms[i])])
      /\ TotalBytes(SubSeq(ms, 1, k + 1)) = Sum([i \in 1..(k + 1) |-> EntryBytes(ms[i])])
      /\ TotalBytes(SubSeq(ms, 1, k)) = Sum([i \in 1..k |-> EntryBytes(ms[i])])
  BY <1>1, PrefixParts
<1>9. Joined(Entry, SubSeq(ms, 1, k + 1)) = Joined(Entry, SubSeq(ms, 1, k)) \o Entry(ms[k + 1])
  BY <1>4, <1>6, <1>8
<1>10. /\ TotalBytes(SubSeq(ms, 1, k + 1)) = TotalBytes(SubSeq(ms, 1, k)) + EntryBytes(ms[k + 1])
       /\ TotalBytes(SubSeq(ms, 1, k)) \in Nat
  BY <1>5, <1>7, <1>8
<1> QED BY <1>1, <1>2, <1>9, <1>10

\* No memory.
LEMMA PrefixNone ==
    ASSUME NEW ms \in Seq(Memory)
    PROVE  Joined(Entry, SubSeq(ms, 1, 0)) = <<>> /\ TotalBytes(SubSeq(ms, 1, 0)) = 0
<1>1. 0 \in 0..Len(ms)
  BY LenProperties
<1>2. [i \in 1..0 |-> Entry(ms[i])] = <<>> /\ [i \in 1..0 |-> EntryBytes(ms[i])] = <<>>
  <2>1. \A f, g : DOMAIN f = {} /\ DOMAIN g = {} /\ f = [x \in {} |-> f[x]] /\ g = [x \in {} |-> g[x]] => f = g
    OBVIOUS
  <2>2. 1..0 = {}
    OBVIOUS
  <2>3. [i \in 1..0 |-> Entry(ms[i])] \in Seq(Nat) /\ Len([i \in 1..0 |-> Entry(ms[i])]) = 0
    BY <2>2, IsASeq
  <2>4. [i \in 1..0 |-> EntryBytes(ms[i])] \in Seq(Nat) /\ Len([i \in 1..0 |-> EntryBytes(ms[i])]) = 0
    BY <2>2, IsASeq
  <2> QED BY <2>3, <2>4, EmptySeq
<1> QED BY <1>1, <1>2, PrefixParts, FlattenNone, SumOfOne

\* The memories of a block are as large as they are taken to be.
LEMMA EntriesSize ==
    ASSUME NEW ms \in Seq(Memory), NEW k \in 0..Len(ms)
    PROVE  /\ Joined(Entry, SubSeq(ms, 1, k)) \in Words
           /\ Bytes(Joined(Entry, SubSeq(ms, 1, k))) = TotalBytes(SubSeq(ms, 1, k))
           /\ TotalBytes(SubSeq(ms, 1, k)) \in Nat
<1> DEFINE Right(j) == /\ Joined(Entry, SubSeq(ms, 1, j)) \in Words
                       /\ Bytes(Joined(Entry, SubSeq(ms, 1, j))) = TotalBytes(SubSeq(ms, 1, j))
                       /\ TotalBytes(SubSeq(ms, 1, j)) \in Nat
           Bad == {j \in 0..Len(ms) : ~Right(j)}
<1>1. Len(ms) \in Nat
  BY LenProperties
<1>2. ASSUME NEW j \in Bad, \A i \in Bad : j <= i PROVE FALSE
  <2>1. CASE j = 0
    <3>1. Right(0)
      BY PrefixNone, BytesOfOne
    <3> QED BY <2>1, <3>1
  <2>2. CASE j # 0
    <3> DEFINE i == j - 1
    <3>1. i \in 0..(Len(ms) - 1) /\ i \in 0..Len(ms) /\ i + 1 = j /\ ~(j <= i)
      BY <1>1, <2>2
    <3> HIDE DEF i
    <3>2. Right(i)
      BY <1>2, <3>1
    <3>3. /\ Joined(Entry, SubSeq(ms, 1, j)) = Joined(Entry, SubSeq(ms, 1, i)) \o Entry(ms[j])
          /\ TotalBytes(SubSeq(ms, 1, j)) = TotalBytes(SubSeq(ms, 1, i)) + EntryBytes(ms[j])
          /\ ms[j] \in Memory
      BY <3>1, PrefixGrows
    <3>4. Entry(ms[j]) \in Words /\ Bytes(Entry(ms[j])) = EntryBytes(ms[j]) /\ EntryBytes(ms[j]) \in Nat
      BY <3>3, EntrySize
    <3> DEFINE I == Joined(Entry, SubSeq(ms, 1, i))
               E == Entry(ms[j])
    <3>5. I \in Words /\ E \in Words
      BY <3>2, <3>4
    <3>6. Bytes(I \o E) = Bytes(I) + Bytes(E) /\ I \o E \in Words
      <4> HIDE DEF I, E
      <4> QED BY <3>5, BytesConcat
    <3> DEFINE Ti == TotalBytes(SubSeq(ms, 1, i))
               Tj == TotalBytes(SubSeq(ms, 1, j))
    <3>a. /\ Bytes(I) = Ti /\ Ti \in Nat /\ Tj = Ti + EntryBytes(ms[j])
          /\ Bytes(E) = EntryBytes(ms[j]) /\ EntryBytes(ms[j]) \in Nat
      BY <3>2, <3>3, <3>4, Zenon
    <3>7. Bytes(I \o E) = Tj /\ Tj \in Nat
      <4> HIDE DEF I, E, Ti, Tj
      <4> QED BY <3>6, <3>a
    <3>8. Right(j)
      BY <3>3, <3>6, <3>7
    <3> QED BY <3>8
  <2> QED BY <2>1, <2>2
<1>3. Bad = {}
  <2>1. Bad \in SUBSET Nat
    BY <1>1
  <2> HIDE DEF Bad
  <2> QED BY <1>2, <2>1, LeastOfNat
<1> QED BY <1>3

\* More memories take no less.
LEMMA TotalRises ==
    ASSUME NEW ms \in Seq(Memory), NEW k \in 0..Len(ms), NEW n \in 0..Len(ms), k <= n
    PROVE  TotalBytes(SubSeq(ms, 1, k)) <= TotalBytes(SubSeq(ms, 1, n))
<1> DEFINE T(j) == TotalBytes(SubSeq(ms, 1, j))
           Bad == {j \in k..Len(ms) : ~(T(k) <= T(j))}
<1>1. Len(ms) \in Nat /\ k \in Nat /\ n \in k..Len(ms)
  BY LenProperties
<1>2. \A j \in 0..Len(ms) : T(j) \in Nat
  BY EntriesSize
<1>3. \A j \in 0..(Len(ms) - 1) : T(j + 1) = T(j) + EntryBytes(ms[j + 1]) /\ EntryBytes(ms[j + 1]) \in Nat
  BY PrefixGrows, EntrySize
<1> HIDE DEF T
<1>4. ASSUME NEW j \in Bad, \A i \in Bad : j <= i PROVE FALSE
  <2>1. CASE j = k
    BY <1>1, <1>2, <2>1
  <2>2. CASE j # k
    <3> DEFINE i == j - 1
    <3>1. i \in k..Len(ms) /\ i \in 0..(Len(ms) - 1) /\ i \in 0..Len(ms) /\ i + 1 = j /\ ~(j <= i)
      BY <1>1, <2>2
    <3> HIDE DEF i
    <3>2. T(k) <= T(i)
      BY <1>4, <3>1
    <3>3. T(j) = T(i) + EntryBytes(ms[j]) /\ EntryBytes(ms[j]) \in Nat
      BY <1>3, <3>1
    <3>4. T(k) <= T(j)
      BY <1>1, <1>2, <3>1, <3>2, <3>3
    <3> QED BY <3>4
  <2> QED BY <2>1, <2>2
<1>5. Bad = {}
  <2>1. Bad \in SUBSET Nat
    BY <1>1
  <2> HIDE DEF Bad
  <2> QED BY <1>4, <2>1, LeastOfNat
<1>6. T(k) <= T(n)
  BY <1>1, <1>5
<1> QED BY <1>6 DEF T

\* The block is as large as it is taken to be.
LEMMA BlockFraming ==
    ASSUME NEW open \in Token, NEW notice \in Token, NEW close \in Token, NEW break \in Token, NEW e \in Words
    PROVE  LET overhead == Bytes(<<open, notice, close, break, break>>)
               block == <<open, break, notice, break>> \o e \o <<close>>
           IN overhead \in Nat /\ block \in Words /\ Bytes(block) = overhead + Bytes(e)
<1> DEFINE overhead == Bytes(<<open, notice, close, break, break>>)
           front == <<open, break, notice, break>>
           back == <<close>>
<1>1. /\ front \in Words /\ Bytes(front) = Weight(open) + Weight(break) + Weight(notice) + Weight(break)
      /\ overhead = Weight(open) + Weight(notice) + Weight(close) + Weight(break) + Weight(break)
      /\ back \in Words /\ Bytes(back) = Weight(close)
  <2>1. front \in Words /\ Bytes(front) = Weight(open) + Weight(break) + Weight(notice) + Weight(break)
    BY BytesOfFour
  <2>2. overhead = Weight(open) + Weight(notice) + Weight(close) + Weight(break) + Weight(break)
    BY BytesOfFive
  <2>3. back \in Words /\ Bytes(back) = Weight(close)
    BY BytesOfOne
  <2> QED BY <2>1, <2>2, <2>3
<1>2. Weight(open) \in Nat /\ Weight(notice) \in Nat /\ Weight(close) \in Nat /\ Weight(break) \in Nat /\ Bytes(e) \in Nat
  BY WeightTyped, WeightsTyped
<1> HIDE DEF overhead, front, back
<1>3. front \o e \in Words /\ Bytes(front \o e) = Bytes(front) + Bytes(e)
  BY <1>1, BytesConcat
<1>4. front \o e \o back \in Words /\ Bytes(front \o e \o back) = Bytes(front) + Bytes(e) + Bytes(back)
  BY <1>1, <1>3, BytesConcat
<1>5. overhead \in Nat /\ Bytes(front \o e \o back) = overhead + Bytes(e)
  BY <1>1, <1>2, <1>4
<1> QED BY <1>4, <1>5 DEF overhead, front, back

\* A block is as large as its header, its entries and its footer.
LEMMA BlockSize ==
    ASSUME NEW e \in Words
    PROVE  /\ ContextOverheadBytes \in Nat /\ Opening \o e \o Closing \in Words
           /\ Bytes(Opening \o e \o Closing) = ContextOverheadBytes + Bytes(e)
<1> DEFINE open == "<retrieved-context>"
           notice == "notice"
           close == "</retrieved-context>"
           break == "\n"
<1>1. open \in Token /\ notice \in Token /\ close \in Token /\ break \in Token
  BY Literals, Zenon
<1>2. /\ Bytes(<<open, notice, close, break, break>>) \in Nat
      /\ <<open, break, notice, break>> \o e \o <<close>> \in Words
      /\ Bytes(<<open, break, notice, break>> \o e \o <<close>>) = Bytes(<<open, notice, close, break, break>>) + Bytes(e)
  <2> HIDE DEF open, notice, close, break
  <2> QED BY <1>1, BlockFraming
<1> QED BY <1>2, Zenon DEF ContextOverheadBytes, Opening, Closing

\* A set of numbers up to n has a largest one.
LEMMA MaxWithin ==
    ASSUME NEW n \in Nat, NEW T \in SUBSET (0..n), T # {}
    PROVE  Max(T) \in T /\ \A i \in T : i <= Max(T)
<1> DEFINE Gap == {n - i : i \in T}
<1>1. Gap \in SUBSET Nat /\ Gap # {}
  <2>1. \A i \in T : i \in Nat /\ i <= n
    OBVIOUS
  <2>2. \A i \in T : n - i \in Nat
    BY <2>1
  <2> QED BY <2>2
<1>2. PICK g \in Gap : \A h \in Gap : g <= h
  <2> HIDE DEF Gap
  <2> QED BY <1>1, LeastOfNat
<1>3. PICK i \in T : g = n - i
  BY <1>2
<1>4. \A j \in T : i >= j
  <2>1. ASSUME NEW j \in T PROVE i >= j
    <3>1. n - i <= n - j
      BY <1>2, <1>3
    <3>2. i \in Nat /\ j \in Nat
      OBVIOUS
    <3> QED BY <3>1, <3>2
  <2> QED BY <2>1
<1>5. Max(T) \in T /\ \A j \in T : Max(T) >= j
  BY <1>4 DEF Max
<1> QED BY <1>5

\* The larger of two.
LEMMA MaxOfTwo == \A a, b \in Int : Max({a, b}) = IF a >= b THEN a ELSE b
<1> SUFFICES ASSUME NEW a \in Int, NEW b \in Int PROVE Max({a, b}) = IF a >= b THEN a ELSE b
  OBVIOUS
<1>1. \E x \in {a, b} : \A y \in {a, b} : x >= y
  OBVIOUS
<1>2. Max({a, b}) \in {a, b} /\ \A y \in {a, b} : Max({a, b}) >= y
  BY <1>1 DEF Max
<1> QED BY <1>2

-----------------------------------------------------------------------------
(***************************************************************************)
(* Clipping.                                                               *)
(***************************************************************************)
LEMMA FirstBytesTyped ==
    ASSUME NEW s \in Words, NEW n \in Nat
    PROVE  FirstBytes(s, n) \in Words
<1> DEFINE T == {i \in 0..Len(s) : Bytes(SubSeq(s, 1, i)) <= n}
           k == Max(T)
           rest == n - Bytes(SubSeq(s, 1, k))
<1>1. Len(s) \in Nat /\ \A i \in 0..Len(s) : SubSeq(s, 1, i) \in Words
  BY PrefixOf, LenProperties DEF Words
<1>2. 0 \in T
  <2>1. SubSeq(s, 1, 0) = <<>>
    BY SubSeqEmpty
  <2>2. Bytes(SubSeq(s, 1, 0)) = 0
    BY <2>1, BytesOfOne, Zenon
  <2> QED BY <1>1, <2>2
<1>3. k \in T
  <2>1. T \in SUBSET (0..Len(s)) /\ T # {}
    BY <1>2
  <2> HIDE DEF T
  <2> QED BY <1>1, <2>1, MaxWithin
<1>4. SubSeq(s, 1, k) \in Words /\ Bytes(SubSeq(s, 1, k)) <= n
  BY <1>1, <1>3
<1> HIDE DEF k
<1>5. rest \in Nat
  BY <1>4, WeightsTyped
<1> HIDE DEF rest
<1>6. <<>> \in Words /\ [i \in 1..rest |-> "."] \in Words
  <2>1. \A i \in 1..rest : "." \in Token
    BY Literals, Zenon
  <2>2. [i \in 1..rest |-> "."] \in [1..rest -> Token]
    BY <2>1
  <2> QED BY <1>5, <2>2, IsASeq, BytesOfOne DEF Words
<1>7. (IF s[k + 1] \in Runes THEN <<>> ELSE [i \in 1..rest |-> "."]) \in Words
  BY <1>6
<1>8. SubSeq(s, 1, k) \o (IF s[k + 1] \in Runes THEN <<>> ELSE [i \in 1..rest |-> "."]) \in Words
  BY <1>4, <1>7, BytesConcat
<1> QED BY <1>8, Zenon DEF FirstBytes, k, rest, T

\* A clipped text is one; without room there is none.
LEMMA TruncateTyped ==
    ASSUME NEW s \in Words, NEW max \in Int
    PROVE  TruncateToBytes(s, max) \in Words /\ (max <= 0 => TruncateToBytes(s, max) = <<>>)
<1> DEFINE cut == FirstBytes(s, Max({0, max - Bytes(Ellipsis)}))
           ends == {i \in DOMAIN cut : cut[i] \in Blanks /\ Bytes(SubSeq(cut, 1, i - 1)) >= BreakWindowStart(Bytes(cut))}
           kept == IF ends = {} THEN cut ELSE SubSeq(cut, 1, Max(ends) - 1)
<1>1. Ellipsis \in Words
  <2>1. "..." \in Token
    BY Literals, Zenon
  <2> QED BY <2>1, BytesOfOne, Zenon DEF Ellipsis
<1>2. cut \in Words
  <2>1. Bytes(Ellipsis) \in Nat
    BY <1>1, WeightsTyped
  <2>2. max - Bytes(Ellipsis) \in Int /\ 0 \in Int
    BY <2>1
  <2>3. Max({0, max - Bytes(Ellipsis)}) \in Nat
    BY <2>2, MaxOfTwo
  <2> QED BY <2>3, FirstBytesTyped
<1> HIDE DEF cut
<1>3. Len(cut) \in Nat /\ DOMAIN cut = 1..Len(cut) /\ \A i \in 0..Len(cut) : SubSeq(cut, 1, i) \in Words
  BY <1>2, PrefixOf, LenProperties DEF Words
<1>4. ends # {} => Max(ends) - 1 \in 0..Len(cut)
  <2>1. ends \in SUBSET (1..Len(cut)) /\ ends \in SUBSET (0..Len(cut))
    BY <1>3
  <2> HIDE DEF ends
  <2>2. ends # {} => Max(ends) \in ends
    BY <1>3, <2>1, MaxWithin
  <2>3. ends # {} => Max(ends) \in 1..Len(cut)
    BY <2>1, <2>2
  <2> QED BY <1>3, <2>3
<1>5. kept \in Words
  <2> HIDE DEF ends
  <2> QED BY <1>2, <1>3, <1>4
<1> HIDE DEF kept
<1>6. kept \o Ellipsis \in Words /\ <<>> \in Words
  BY <1>1, <1>5, BytesConcat, BytesOfOne
<1>7. TruncateToBytes(s, max) = IF max <= 0 THEN <<>> ELSE IF Bytes(s) <= max THEN s ELSE kept \o Ellipsis
  BY DEF TruncateToBytes, kept, ends, cut
<1> QED BY <1>6, <1>7

Clip(left, to) == [memory |-> [left EXCEPT !.content = TruncateToBytes(@, to)], room |-> to]
PassStep(m, room, spare, f, k) ==
    IF k = 0 THEN Clip(m, room)
    ELSE IF EntryBytes(f[k - 1].memory) - spare <= 0 THEN f[k - 1]
    ELSE Clip(f[k - 1].memory, f[k - 1].room - (EntryBytes(f[k - 1].memory) - spare))
Passes(m, room, spare) == CHOOSE f : f = [k \in 0..room |-> PassStep(m, room, spare, f, k)]

\* Reclip, as a function of the passes made.
LEMMA ReclipIs == \A m, room, spare : Reclip(m, room, spare) = Passes(m, room, spare)[room].memory
BY DEF Reclip, Passes, PassStep, Clip

\* Its equation has a solution.
LEMMA PassExists ==
    ASSUME NEW m, NEW room \in Nat, NEW spare
    PROVE  \A k \in 0..room : Passes(m, room, spare)[k] = PassStep(m, room, spare, Passes(m, room, spare), k)
<1> DEFINE Good(n, f) == f = [i \in 0..n |-> PassStep(m, room, spare, f, i)]
           Bad == {n \in Nat : ~ \E f : Good(n, f)}
<1>1. ASSUME NEW n \in Bad, \A i \in Bad : n <= i PROVE FALSE
  <2>1. CASE n = 0
    <3>1. Good(0, [i \in 0..0 |-> Clip(m, room)])
      BY DEF PassStep
    <3> QED BY <2>1, <3>1
  <2>2. CASE n # 0
    <3>1. n \in Nat /\ n - 1 \in Nat
      BY <2>2
    <3>2. n - 1 \notin Bad
      <4> HIDE DEF Bad
      <4> QED BY <1>1, <3>1
    <3>3. PICK f : Good(n - 1, f)
      BY <3>1, <3>2
    <3> DEFINE h == [i \in 0..n |-> PassStep(m, room, spare, f, i)]
    <3>4. \A i \in 0..(n - 1) : i \in 0..n /\ h[i] = f[i]
      <4>1. \A i \in 0..(n - 1) : i \in 0..n
        BY <3>1
      <4> QED BY <3>3, <4>1
    <3>5. \A i \in 0..n : PassStep(m, room, spare, f, i) = PassStep(m, room, spare, h, i)
      <4> SUFFICES ASSUME NEW i \in 0..n, i # 0 PROVE PassStep(m, room, spare, f, i) = PassStep(m, room, spare, h, i)
        BY DEF PassStep
      <4>1. i - 1 \in 0..(n - 1)
        BY <3>1
      <4>2. f[i - 1] = h[i - 1]
        BY <3>4, <4>1
      <4> HIDE DEF h
      <4> QED BY <4>2 DEF PassStep
    <3>6. Good(n, h)
      BY <3>5
    <3> QED BY <3>1, <3>6
  <2> QED BY <2>1, <2>2
<1>2. Bad = {}
  <2>1. Bad \in SUBSET Nat
    OBVIOUS
  <2> HIDE DEF Bad
  <2> QED BY <1>1, <2>1, LeastOfNat
<1>3. PICK f : Good(room, f)
  BY <1>2
<1> DEFINE F == Passes(m, room, spare)
<1>4. F = [i \in 0..room |-> PassStep(m, room, spare, F, i)]
  BY <1>3 DEF Passes
<1> HIDE DEF F
<1>5. \A i \in 0..room : F[i] = PassStep(m, room, spare, F, i)
  BY <1>4, Zenon
<1> QED BY <1>5 DEF F

Clipped(m, c) == [concept |-> m.concept, content |-> c, score |-> m.score]

\* One clip of a memory's content, and its size.
LEMMA ClipIs ==
    ASSUME NEW m \in Memory, NEW c \in Words, NEW r \in Int
    PROVE  /\ Clip(Clipped(m, c), r) = [memory |-> Clipped(m, TruncateToBytes(c, r)), room |-> r]
           /\ Clipped(m, m.content) = m /\ Clipped(m, c) \in Memory /\ m.content \in Words
           /\ [m EXCEPT !.content = c] = Clipped(m, c)
BY DEF Clip, Clipped, Memory

\* The memory ends up within what is spare, or with nothing of its content.
LEMMA ReclipFits ==
    ASSUME NEW m \in Memory, NEW room \in Nat, NEW spare \in Int
    PROVE  \E c \in Words : /\ Reclip(m, room, spare) = Clipped(m, c)
                            /\ EntryBytes(Clipped(m, c)) <= spare \/ c = <<>>
<1> DEFINE F == Passes(m, room, spare)
           Fits(k, c, r) == /\ F[k] = [memory |-> Clipped(m, c), room |-> r]
                            /\ EntryBytes(Clipped(m, c)) <= spare \/ (r <= room - k /\ (r <= 0 => c = <<>>))
           Bad == {k \in 0..room : ~ \E c \in Words, r \in Int : Fits(k, c, r)}
<1>1. \A k \in 0..room : F[k] = PassStep(m, room, spare, F, k)
  BY PassExists
<1> HIDE DEF F
<1>2. ASSUME NEW k \in Bad, \A i \in Bad : k <= i PROVE FALSE
  <2>1. CASE k = 0
    <3> DEFINE c == TruncateToBytes(m.content, room)
    <3>1. F[0] = Clip(Clipped(m, m.content), room)
      BY <1>1, ClipIs, BytesOfOne DEF PassStep
    <3>2. m.content \in Words /\ room \in Int
      BY ClipIs, BytesOfOne
    <3>3. F[0] = [memory |-> Clipped(m, c), room |-> room]
      BY <3>1, <3>2, ClipIs
    <3>4. c \in Words /\ (room <= 0 => c = <<>>)
      BY <3>2, TruncateTyped
    <3> HIDE DEF c
    <3>5. Fits(0, c, room)
      BY <3>3, <3>4
    <3> QED BY <2>1, <3>2, <3>4, <3>5
  <2>2. CASE k # 0
    <3> DEFINE j == k - 1
    <3>1. j \in 0..room /\ ~(k <= j) /\ k \in 0..room /\ j = k - 1
      BY <2>2
    <3> HIDE DEF j
    <3>2. j \notin Bad
      <4> HIDE DEF Bad
      <4> QED BY <1>2, <3>1
    <3>3. PICK c \in Words, r \in Int : Fits(j, c, r)
      BY <3>1, <3>2
    <3> DEFINE x == Clipped(m, c)
               excess == EntryBytes(x) - spare
               d == TruncateToBytes(c, r - excess)
    <3>4. x \in Memory /\ Clip(x, r - excess) = [memory |-> Clipped(m, d), room |-> r - excess] /\ excess \in Int
      <4>1. x \in Memory
        BY ClipIs
      <4>2. EntryBytes(x) \in Nat
        BY <4>1, EntrySize
      <4>3. excess \in Int /\ r - excess \in Int
        BY <4>2
      <4> QED BY <4>1, <4>3, ClipIs
    <3>5. d \in Words /\ (r - excess <= 0 => d = <<>>) /\ r - excess \in Int
      <4> DEFINE to == r - excess
      <4>1. to \in Int
        BY <3>4
      <4> HIDE DEF to
      <4>2. TruncateToBytes(c, to) \in Words /\ (to <= 0 => TruncateToBytes(c, to) = <<>>)
        BY <4>1, TruncateTyped
      <4> QED BY <4>1, <4>2 DEF to
    <3>6. F[j].memory = x /\ F[j].room = r
      BY <3>3
    <3>7. F[k] = IF excess <= 0 THEN F[j] ELSE Clip(x, r - excess)
      BY <1>1, <2>2, <3>1, <3>6 DEF PassStep
    <3>8. EntryBytes(x) \in Nat
      BY <3>4, EntrySize
    <3>9. CASE excess <= 0
      <4>1. F[k] = [memory |-> Clipped(m, c), room |-> r]
        BY <3>3, <3>7, <3>9
      <4>2. EntryBytes(Clipped(m, c)) <= spare
        BY <3>8, <3>9
      <4>3. Fits(k, c, r)
        BY <4>1, <4>2
      <4> QED BY <4>3
    <3>10. CASE ~(excess <= 0)
      <4>1. F[k] = [memory |-> Clipped(m, d), room |-> r - excess]
        BY <3>4, <3>7, <3>10
      <4>2. ~(EntryBytes(x) <= spare)
        BY <3>8, <3>10
      <4>3. r <= room - j
        BY <3>3, <4>2
      <4>4. r - excess <= room - k
        <5> HIDE DEF excess
        <5> QED BY <3>1, <3>4, <3>10, <4>3
      <4>5. Fits(k, d, r - excess)
        <5> HIDE DEF d, excess
        <5> QED BY <3>5, <4>1, <4>4
      <4> QED BY <3>5, <4>5
    <3> QED BY <3>9, <3>10
  <2> QED BY <2>1, <2>2
<1>3. Bad = {}
  <2>1. Bad \in SUBSET Nat
    OBVIOUS
  <2> HIDE DEF Bad
  <2> QED BY <1>2, <2>1, LeastOfNat
<1>4. PICK c \in Words, r \in Int : Fits(room, c, r)
  <2>1. room \in 0..room
    OBVIOUS
  <2> HIDE DEF Fits
  <2> QED BY <1>3, <2>1
<1>5. Reclip(m, room, spare) = F[room].memory
  BY ReclipIs DEF F
<1>6. Reclip(m, room, spare) = Clipped(m, c)
  BY <1>4, <1>5
<1>7. EntryBytes(Clipped(m, c)) <= spare \/ c = <<>>
  <2>1. r <= room - room => r <= 0
    OBVIOUS
  <2> QED BY <1>4, <2>1
<1> QED BY <1>6, <1>7

\* The whole of a sequence, and a sequence of one.
LEMMA OneMemory ==
    ASSUME NEW x \in Memory
    PROVE  /\ <<x>> \in Seq(Memory) /\ Len(<<x>>) = 1
           /\ Joined(Entry, <<x>>) = Entry(x) /\ TotalBytes(<<x>>) = EntryBytes(x)
<1> DEFINE s == <<x>>
<1>1. s \in Seq(Memory) /\ Len(s) = 1 /\ s[1] = x
  OBVIOUS
<1> HIDE DEF s
<1>2. DOMAIN s = 1..1 /\ 1 \in 1..Len(s)
  BY <1>1, LenProperties
<1>3. SubSeq(s, 1, 1) = s /\ SubSeq(s, 1, 0 + 1) = s
  BY <1>1, SubSeqFull
<1>4. 0 \in 0..(Len(s) - 1)
  BY <1>1
<1>5. /\ Joined(Entry, s) = Joined(Entry, SubSeq(s, 1, 0)) \o Entry(x)
      /\ TotalBytes(s) = TotalBytes(SubSeq(s, 1, 0)) + EntryBytes(x)
  <2>1. /\ Joined(Entry, SubSeq(s, 1, 0 + 1)) = Joined(Entry, SubSeq(s, 1, 0)) \o Entry(s[0 + 1])
        /\ TotalBytes(SubSeq(s, 1, 0 + 1)) = TotalBytes(SubSeq(s, 1, 0)) + EntryBytes(s[0 + 1])
    BY <1>1, <1>4, PrefixGrows
  <2>2. s[0 + 1] = x
    BY <1>1
  <2> QED BY <1>3, <2>1, <2>2, Zenon
<1>6. Joined(Entry, SubSeq(s, 1, 0)) = <<>> /\ TotalBytes(SubSeq(s, 1, 0)) = 0
  BY <1>1, PrefixNone
<1>7. Entry(x) \in Words /\ EntryBytes(x) \in Nat
  BY EntrySize
<1>8. <<>> \o Entry(x) = Entry(x)
  BY <1>7, ConcatEmptySeq DEF Words
<1>9. TotalBytes(s) = EntryBytes(x)
  BY <1>5, <1>6, <1>7
<1>10. Joined(Entry, s) = Entry(x)
  BY <1>5, <1>6, <1>8, Zenon
<1> QED BY <1>1, <1>9, <1>10 DEF s

\* The block of some memories is of the size it is estimated to have.
LEMMA BlockOfSize ==
    ASSUME NEW ms \in Seq(Memory), NEW kept \in Seq(Memory), kept # <<>>, NEW total \in Nat
    PROVE  LET b == BlockOf(kept, total)
           IN /\ b.text = Opening \o Joined(Entry, kept) \o Closing
              /\ Bytes(b.text) = ContextOverheadBytes + TotalBytes(kept)
              /\ b.tokens = Max({1, Bytes(b.text) \div CharPerToken})
              /\ Bytes(b.text) \in Nat /\ b.dropped = total - Len(kept)
<1> DEFINE e == Joined(Entry, kept)
<1>1. SubSeq(kept, 1, Len(kept)) = kept /\ Len(kept) \in 0..Len(kept)
  BY SubSeqFull, LenProperties
<1>2. e \in Words /\ Bytes(e) = TotalBytes(kept) /\ TotalBytes(kept) \in Nat
  <2>1. /\ Joined(Entry, SubSeq(kept, 1, Len(kept))) \in Words
        /\ Bytes(Joined(Entry, SubSeq(kept, 1, Len(kept)))) = TotalBytes(SubSeq(kept, 1, Len(kept)))
        /\ TotalBytes(SubSeq(kept, 1, Len(kept))) \in Nat
    BY <1>1, EntriesSize
  <2> QED BY <1>1, <2>1, Zenon
<1>3. BlockOf(kept, total) =
        [text |-> Opening \o e \o Closing, tokens |-> Max({1, (ContextOverheadBytes + TotalBytes(kept)) \div CharPerToken}),
         dropped |-> total - Len(kept)]
  BY DEF BlockOf
<1> HIDE DEF e
<1>4. /\ ContextOverheadBytes \in Nat
      /\ Bytes(Opening \o e \o Closing) = ContextOverheadBytes + Bytes(e)
  BY <1>2, BlockSize
<1>5. Bytes(Opening \o e \o Closing) = ContextOverheadBytes + TotalBytes(kept) /\ Bytes(Opening \o e \o Closing) \in Nat
  BY <1>2, <1>4
<1> DEFINE t == Opening \o e \o Closing
<1> HIDE DEF t
<1>6. /\ BlockOf(kept, total).text = t
      /\ BlockOf(kept, total).tokens = Max({1, (ContextOverheadBytes + TotalBytes(kept)) \div CharPerToken})
      /\ BlockOf(kept, total).dropped = total - Len(kept)
  BY <1>3 DEF t
<1>7. Bytes(t) = ContextOverheadBytes + TotalBytes(kept) /\ Bytes(t) \in Nat
  BY <1>5 DEF t
<1>8. BlockOf(kept, total).tokens = Max({1, Bytes(t) \div CharPerToken})
  BY <1>6, <1>7, Zenon
<1> QED BY <1>6, <1>7, <1>8, Zenon DEF t, e

\* How many of the first memories fit.
Spare(budget) == BudgetBytes(budget) - ContextOverheadBytes
Fitting(ms, budget) == {n \in 1..Len(ms) : TotalBytes(SubSeq(ms, 1, n)) <= Spare(budget)}

\* The budget in bytes is the one asked for, or more than any recall takes.
LEMMA BudgetTyped ==
    ASSUME NEW budget \in Nat
    PROVE  /\ BudgetBytes(budget) \in Nat /\ Spare(budget) \in Int /\ ContextOverheadBytes \in Nat
           /\ BudgetBytes(budget) \in {budget * CharPerToken, MaxInt}
<1>1. CharPerToken \in Nat /\ MaxInt \in Nat
  BY BlockAssumption
<1>2. budget * CharPerToken \in Nat
  BY <1>1
<1>3. BudgetBytes(budget) \in {budget * CharPerToken, MaxInt}
  BY Zenon DEF BudgetBytes
<1>4. ContextOverheadBytes \in Nat
  BY BlockSize, BytesOfOne
<1>5. BudgetBytes(budget) \in Nat
  BY <1>1, <1>2, <1>3, Zenon
<1>6. Spare(budget) \in Int
  BY <1>4, <1>5 DEF Spare
<1> QED BY <1>3, <1>4, <1>5, <1>6

\* What does not fit in the packing would not fit in the block.
LEMMA TooLarge ==
    ASSUME NEW ms \in Seq(Memory), NEW budget \in Nat, ContextOverheadBytes + TotalBytes(ms) <= MaxInt,
           NEW n \in 1..Len(ms), n \notin Fitting(ms, budget)
    PROVE  Bytes(Opening \o Joined(Entry, SubSeq(ms, 1, n)) \o Closing) > budget * CharPerToken
<1> DEFINE e == Joined(Entry, SubSeq(ms, 1, n))
           T == TotalBytes(SubSeq(ms, 1, n))
           C == ContextOverheadBytes
           B == budget * CharPerToken
<1>1. Len(ms) \in Nat /\ n \in 0..Len(ms) /\ Len(ms) \in 0..Len(ms) /\ n <= Len(ms)
  BY LenProperties
<1>2. e \in Words /\ Bytes(e) = T /\ T \in Nat
  BY <1>1, EntriesSize
<1>3. ~(T <= Spare(budget))
  BY DEF Fitting
<1>4. BudgetBytes(budget) \in Nat /\ C \in Nat /\ BudgetBytes(budget) \in {B, MaxInt}
  BY BudgetTyped, Zenon
<1>5. T <= TotalBytes(ms) /\ TotalBytes(ms) \in Nat
  <2>1. SubSeq(ms, 1, Len(ms)) = ms
    BY SubSeqFull
  <2>2. T <= TotalBytes(SubSeq(ms, 1, Len(ms))) /\ TotalBytes(SubSeq(ms, 1, Len(ms))) \in Nat
    BY <1>1, TotalRises, EntriesSize
  <2> QED BY <2>1, <2>2
<1>6. MaxInt \in Nat /\ C + TotalBytes(ms) <= MaxInt
  BY BlockAssumption
<1>7. ~(C + T <= BudgetBytes(budget))
  <2>1. Spare(budget) = BudgetBytes(budget) - C
    BY DEF Spare
  <2> HIDE DEF T, C
  <2> QED BY <1>2, <1>3, <1>4, <2>1
<1>8. C + T <= MaxInt
  <2> HIDE DEF T, C
  <2> QED BY <1>2, <1>4, <1>5, <1>6
<1>9. BudgetBytes(budget) = B
  BY <1>4, <1>7, <1>8, Zenon
<1>10. C + T > B
  <2> HIDE DEF T, C, B
  <2> QED BY <1>2, <1>4, <1>7, <1>9
<1>11. Bytes(Opening \o e \o Closing) = C + T
  <2>1. \A t \in Words : Bytes(Opening \o t \o Closing) = C + Bytes(t)
    BY BlockSize
  <2> QED BY <1>2, <2>1, Zenon
<1> QED BY <1>10, <1>11, Zenon

\* A block made of what was recalled.
LEMMA BlockSized ==
    ASSUME NEW ms \in Seq(Memory), NEW budget \in Nat, ContextOverheadBytes + TotalBytes(ms) <= MaxInt, NEW r,
           r.memories = ms, r.budget = budget, r.block = FormatContextBlock(ms, budget)
    PROVE  Sized(r)
<1> DEFINE F == Fitting(ms, budget)
           kept == WithinBudget(ms, budget)
           C == ContextOverheadBytes
           size == Bytes(r.block.text)
           n == Len(r.memories) - r.block.dropped
           bare == [Head(r.memories) EXCEPT !.content = <<>>]
           E(i) == Opening \o Joined(Entry, SubSeq(ms, 1, i)) \o Closing
<1>1. Len(ms) \in Nat
  BY LenProperties
<1>2. BudgetBytes(budget) \in Nat /\ Spare(budget) \in Int /\ C \in Nat /\ Spare(budget) = BudgetBytes(budget) - C
  BY BudgetTyped DEF Spare
<1>3. r.block = BlockOf(kept, Len(ms))
  BY DEF FormatContextBlock
<1>4. \A i \in 1..Len(ms) : i \notin F => Bytes(E(i)) > budget * CharPerToken
  BY TooLarge
<1>5. F \in SUBSET (1..Len(ms)) /\ F \in SUBSET (0..Len(ms))
  BY DEF Fitting
<1>6. CASE ms = <<>>
  <2>1. kept = <<>> /\ Len(ms) = 0
    BY <1>6, EmptySeq DEF WithinBudget
  <2>2. r.block.text = <<>> /\ r.block.dropped = Len(ms) - Len(kept)
    BY <1>3, <2>1 DEF BlockOf
  <2>3. n = 0
    BY <1>6, <2>1, <2>2
  <2> QED BY <1>6, <2>2, <2>3 DEF Sized
<1>7. CASE ms # <<>> /\ F # {}
  <2> DEFINE f == Max(F)
  <2>1. f \in F /\ \A i \in F : i <= f
    <3> HIDE DEF F
    <3> QED BY <1>1, <1>5, <1>7, MaxWithin
  <2>2. kept = SubSeq(ms, 1, f)
    BY <1>7 DEF WithinBudget, Fitting, Spare
  <2> HIDE DEF f
  <2>3. f \in 1..Len(ms) /\ f \in 0..Len(ms) /\ TotalBytes(SubSeq(ms, 1, f)) <= Spare(budget)
    BY <2>1 DEF Fitting
  <2> HIDE DEF F, kept
  <2>4. kept \in Seq(Memory) /\ Len(kept) = f /\ kept # <<>>
    <3>1. kept \in Seq(Memory) /\ Len(kept) = f
      BY <2>2, <2>3, PrefixOf
    <3> QED BY <2>3, <3>1, EmptySeq
  <2>5. /\ r.block.text = E(f) /\ size = C + TotalBytes(kept)
        /\ r.block.tokens = Max({1, size \div CharPerToken}) /\ size \in Nat
        /\ r.block.dropped = Len(ms) - f
    <3>1. LET b == BlockOf(kept, Len(ms))
          IN /\ b.text = Opening \o Joined(Entry, kept) \o Closing
             /\ Bytes(b.text) = C + TotalBytes(kept)
             /\ b.tokens = Max({1, Bytes(b.text) \div CharPerToken})
             /\ Bytes(b.text) \in Nat /\ b.dropped = Len(ms) - Len(kept)
      BY <1>1, <2>4, BlockOfSize, Zenon
    <3> QED BY <1>3, <2>2, <2>4, <3>1, Zenon
  <2>6. n = f /\ f # 0
    BY <1>1, <2>3, <2>5
  <2>7. size <= BudgetBytes(budget)
    <3>1. TotalBytes(kept) \in Nat
      BY <2>2, <2>3, EntriesSize
    <3> HIDE DEF size
    <3> QED BY <1>2, <2>2, <2>3, <2>5, <3>1
  <2>8. f < Len(ms) => Bytes(E(f + 1)) > budget * CharPerToken
    <3>1. f < Len(ms) => f + 1 \in 1..Len(ms) /\ ~(f + 1 <= f)
      BY <1>1, <2>3
    <3> QED BY <1>4, <2>1, <3>1
  <2> HIDE DEF size, n
  <2>9. Sized(r)
    BY <2>5, <2>6, <2>7, <2>8, Zenon DEF Sized, size, n
  <2> QED BY <2>9
<1>8. CASE ms # <<>> /\ F = {}
  <2> DEFINE m == Head(ms)
             room == Spare(budget) - ConceptBytes(m) - EntryOverhead(m)
             most == Max({room, MinOversizedMemoryBytes})
             x == Reclip(m, most, Spare(budget))
  <2>1. m \in Memory /\ Len(ms) \in Nat /\ 1 \in 1..Len(ms)
    BY <1>1, <1>8, HeadTailProperties, EmptySeq
  <2>2. most \in Nat
    <3>1. ConceptBytes(m) \in Nat /\ EntryOverhead(m) \in Nat /\ MinOversizedMemoryBytes \in Nat
      BY <2>1, EntrySize, BlockAssumption
    <3>2. room \in Int /\ MinOversizedMemoryBytes \in Int /\ MinOversizedMemoryBytes >= 0
      BY <1>2, <3>1
    <3> HIDE DEF room
    <3>3. most = IF room >= MinOversizedMemoryBytes THEN room ELSE MinOversizedMemoryBytes
      BY <3>2, MaxOfTwo
    <3> QED BY <3>2, <3>3
  <2>3. kept = <<x>>
    BY <1>8 DEF WithinBudget, Fitting, Spare
  <2> HIDE DEF m, most
  <2>4. PICK c \in Words : /\ x = Clipped(m, c)
                           /\ EntryBytes(Clipped(m, c)) <= Spare(budget) \/ c = <<>>
    BY <1>2, <2>1, <2>2, ReclipFits
  <2>5. x \in Memory
    BY <2>1, <2>4, ClipIs
  <2> HIDE DEF x
  <2>6. /\ kept \in Seq(Memory) /\ Len(kept) = 1 /\ kept # <<>>
        /\ Joined(Entry, kept) = Entry(x) /\ TotalBytes(kept) = EntryBytes(x)
    <3>1. <<x>> \in Seq(Memory) /\ Len(<<x>>) = 1 /\ Joined(Entry, <<x>>) = Entry(x) /\ TotalBytes(<<x>>) = EntryBytes(x)
      BY <2>5, OneMemory
    <3> HIDE DEF kept
    <3> QED BY <2>3, <3>1, EmptySeq
  <2> HIDE DEF F, kept
  <2>7. /\ r.block.text = Opening \o Entry(x) \o Closing /\ size = C + EntryBytes(x)
        /\ r.block.tokens = Max({1, size \div CharPerToken}) /\ size \in Nat
        /\ r.block.dropped = Len(ms) - 1
    <3>1. LET b == BlockOf(kept, Len(ms))
          IN /\ b.text = Opening \o Joined(Entry, kept) \o Closing
             /\ Bytes(b.text) = C + TotalBytes(kept)
             /\ b.tokens = Max({1, Bytes(b.text) \div CharPerToken})
             /\ Bytes(b.text) \in Nat /\ b.dropped = Len(ms) - Len(kept)
      BY <1>1, <2>6, BlockOfSize, Zenon
    <3> QED BY <1>3, <2>6, <3>1, Zenon
  <2>8. n = 1 /\ n # 0
    BY <1>1, <2>7
  <2>9. size <= BudgetBytes(budget) \/ r.block.text = Opening \o Entry(bare) \o Closing
    <3>1. CASE EntryBytes(x) <= Spare(budget)
      <4>1. EntryBytes(x) \in Nat
        BY <2>5, EntrySize
      <4>2. size <= BudgetBytes(budget)
        <5> HIDE DEF size
        <5> QED BY <1>2, <2>7, <3>1, <4>1
      <4> QED BY <4>2
    <3>2. CASE c = <<>>
      <4>1. bare = x
        BY <2>1, <2>4, <3>2, ClipIs, BytesOfOne DEF m
      <4> QED BY <2>7, <4>1
    <3> QED BY <2>4, <3>1, <3>2
  <2>10. Bytes(E(1)) > budget * CharPerToken
    BY <1>4, <1>8, <2>1
  <2>11. 1 < Len(ms) => Bytes(E(1 + 1)) > budget * CharPerToken
    <3>1. 1 < Len(ms) => 1 + 1 \in 1..Len(ms)
      BY <1>1
    <3> QED BY <1>4, <1>8, <3>1
  <2> HIDE DEF size, n, bare
  <2>12. Sized(r)
    BY <2>7, <2>8, <2>9, <2>10, <2>11, Zenon DEF Sized, size, n, bare
  <2> QED BY <2>12
<1> QED BY <1>6, <1>7, <1>8

\* No block was asked for.
LEMMA NotAskedSized == Sized(NotAsked)
<1>1. Len(<<>>) = 0
  BY EmptySeq
<1>2. NotAsked.memories = <<>> /\ NotAsked.block.text = <<>> /\ NotAsked.block.dropped = 0
  BY DEF NotAsked
<1>3. Len(NotAsked.memories) - NotAsked.block.dropped = 0
  BY <1>1, <1>2
<1> QED BY <1>2, <1>3, Zenon DEF Sized

\* What a sequence of anything has once something is appended.
IsList(s) == \E S : s \in Seq(S)

\* One thing more.
LEMMA ListAppended ==
    \A s, x : IsList(s) =>
       /\ IsList(Append(s, x)) /\ Len(s) \in Nat /\ Len(Append(s, x)) = Len(s) + 1
       /\ DOMAIN s = 1..Len(s) /\ DOMAIN Append(s, x) = 1..(Len(s) + 1)
       /\ \A i \in 1..Len(s) : Append(s, x)[i] = s[i]
       /\ Append(s, x)[Len(s) + 1] = x
<1> SUFFICES ASSUME NEW s, NEW x, NEW R, s \in Seq(R)
             PROVE  /\ IsList(Append(s, x)) /\ Len(s) \in Nat /\ Len(Append(s, x)) = Len(s) + 1
                    /\ DOMAIN s = 1..Len(s) /\ DOMAIN Append(s, x) = 1..(Len(s) + 1)
                    /\ \A i \in 1..Len(s) : Append(s, x)[i] = s[i]
                    /\ Append(s, x)[Len(s) + 1] = x
  BY DEF IsList
<1> DEFINE S == R \cup {x}
<1>1. Len(s) \in Nat /\ s \in [1..Len(s) -> R]
  BY LenProperties
<1>2. s \in [1..Len(s) -> S] /\ x \in S
  BY <1>1
<1> HIDE DEF S
<1>3. s \in Seq(S)
  <2> DEFINE n == Len(s)
  <2>1. n \in Nat /\ \A i \in 1..n : s[i] \in S
    BY <1>1, <1>2
  <2>2. s = [i \in 1..n |-> s[i]]
    BY <1>1
  <2> HIDE DEF n
  <2>3. [i \in 1..n |-> s[i]] \in Seq(S)
    BY <2>1, IsASeq
  <2> QED BY <2>2, <2>3
<1>4. Append(s, x) \in Seq(S) /\ Len(Append(s, x)) = Len(s) + 1
  BY <1>2, <1>3, AppendProperties
<1>5. \A i \in 1..Len(s) : Append(s, x)[i] = s[i]
  BY <1>2, <1>3, AppendProperties
<1>6. Append(s, x)[Len(s) + 1] = x
  BY <1>2, <1>3, AppendProperties
<1>7. DOMAIN s = 1..Len(s) /\ DOMAIN Append(s, x) = 1..(Len(s) + 1)
  BY <1>3, <1>4, LenProperties
<1> QED BY <1>1, <1>4, <1>5, <1>6, <1>7 DEF IsList

\* A sequence of nothing, and of one thing.
LEMMA ListNew == IsList(<<>>) /\ Len(<<>>) = 0 /\ \A x : IsList(<<x>>) /\ Len(<<x>>) = 1
<1>1. <<>> \in Seq(Nat) /\ Len(<<>>) = 0
  BY EmptySeq
<1>2. ASSUME NEW x PROVE <<x>> \in Seq({x}) /\ Len(<<x>>) = 1
  OBVIOUS
<1> QED BY <1>1, <1>2 DEF IsList

\* What a sidecar recalls, for the block.
LEMMA RecalledTyped ==
    ASSUME NEW s \in Scenes, NEW h \in 1..Len(s.recalls)
    PROVE  /\ s.recalls[h].memories \in Seq(Memory) /\ s.recalls[h].budget \in Nat
           /\ ContextOverheadBytes + TotalBytes(s.recalls[h].memories) <= MaxInt
<1> DEFINE ms == s.recalls[h].memories
           Told == [concept : Seq(STRING), content : Seq(STRING), score : STRING]
<1>1. /\ ms \in Seq(Told) /\ s.recalls[h].budget \in Nat
      /\ ContextOverheadBytes + TotalBytes(ms) <= MaxInt
  BY SceneAssumption, Zenon
<1>2. STRING \subseteq Token
  BY Zenon DEF Token
<1>3. ASSUME NEW t \in Seq(STRING) PROVE t \in Words
  <2>1. Len(t) \in Nat /\ t \in [1..Len(t) -> STRING]
    BY LenProperties
  <2>2. \A i \in 1..Len(t) : t[i] \in Token
    BY <1>2, <2>1
  <2> DEFINE n == Len(t)
  <2>3. t = [i \in 1..n |-> t[i]] /\ n \in Nat /\ \A i \in 1..n : t[i] \in Token
    BY <2>1, <2>2
  <2> HIDE DEF n
  <2>4. [i \in 1..n |-> t[i]] \in Seq(Token)
    BY <2>3, IsASeq
  <2> QED BY <2>3, <2>4 DEF Words
<1>4. ASSUME NEW m \in Told PROVE m \in Memory
  <2>1. m.concept \in Words /\ m.content \in Words /\ m.score \in Token
    BY <1>2, <1>3
  <2>2. m = [concept |-> m.concept, content |-> m.content, score |-> m.score]
    OBVIOUS
  <2> QED BY <2>1, <2>2 DEF Memory
<1> HIDE DEF ms, Told
<1>5. Len(ms) \in Nat /\ ms \in [1..Len(ms) -> Told]
  BY <1>1, LenProperties
<1>6. \A i \in 1..Len(ms) : ms[i] \in Memory
  BY <1>4, <1>5
<1> DEFINE n == Len(ms)
<1>7. ms = [i \in 1..n |-> ms[i]] /\ n \in Nat /\ \A i \in 1..n : ms[i] \in Memory
  BY <1>5, <1>6
<1> HIDE DEF n
<1>8. [i \in 1..n |-> ms[i]] \in Seq(Memory)
  BY <1>7, IsASeq
<1>9. ms \in Seq(Memory)
  BY <1>7, <1>8
<1> QED BY <1>1, <1>9 DEF ms

-----------------------------------------------------------------------------
(***************************************************************************)
(* A sidecar enriches the request once, with what it recalled for it.      *)
(***************************************************************************)
RecallInv ==
    /\ scene \in Scenes
    /\ IsList(bodies) /\ Len(bodies) >= 1
    /\ IsList(recalls)
    /\ BlockFitsItsBudget

\* No sidecar has recalled anything at first.
LEMMA RecallInit == PathInit => RecallInv
<1> SUFFICES ASSUME PathInit PROVE RecallInv
  OBVIOUS
<1>1. scene \in Scenes /\ recalls = <<>> /\ bodies = <<Render(scene.conv)>>
  BY DEF PathInit
<1>2. IsList(recalls) /\ IsList(bodies) /\ Len(bodies) = 1
  BY <1>1, ListNew, Zenon
<1>3. DOMAIN recalls = {}
  BY <1>1
<1>4. Len(bodies) >= 1
  BY <1>2
<1> QED BY <1>1, <1>2, <1>3, <1>4, Zenon DEF RecallInv, BlockFitsItsBudget

\* A sidecar that enriches the request puts a block of the right size into it.
LEMMA EnrichKeeps ==
    ASSUME RecallInv, EnrichRequest
    PROVE  RecallInv'
<1> DEFINE found == scene.recalls[Len(bodies)]
           doc == Last(bodies)
           format == DetectFormat(doc)
           block == FormatContextBlock(found.memories, found.budget)
           text == WithSession(SessionContext(ParseWhereLeftOff(found.leftOff), ParseGuide(found.guide)), block.text)
           asked == format # "" /\ UserQuery(doc, format) # <<>>
           sent == IF asked /\ text # <<>> THEN InjectContext(doc, format, text) ELSE doc
           full == [query |-> Query(doc, format), memories |-> found.memories, budget |-> found.budget, block |-> block]
           r == IF asked THEN full ELSE NotAsked
<1>1. /\ Len(bodies) <= Len(scene.recalls) /\ bodies' = Append(bodies, sent) /\ recalls' = Append(recalls, r)
      /\ scene' = scene
  BY Zenon DEF EnrichRequest, Sidecars
<1>2. scene \in Scenes /\ IsList(bodies) /\ Len(bodies) >= 1 /\ IsList(recalls) /\ BlockFitsItsBudget
  BY DEF RecallInv
<1>3. Sized(full)
  <2>1. full.memories = found.memories /\ full.budget = found.budget /\ full.block = block
    BY Zenon
  <2>2. scene \in Scenes /\ Len(bodies) \in 1..Len(scene.recalls)
    <3>1. Len(bodies) \in Nat
      BY <1>2, ListAppended, Zenon
    <3>2. \A a, b : a \in Nat /\ 1 <= a /\ a <= b => a \in 1..b
      OBVIOUS
    <3> QED BY <1>1, <1>2, <3>1, <3>2
  <2> HIDE DEF full
  <2>3. /\ found.memories \in Seq(Memory) /\ found.budget \in Nat
        /\ ContextOverheadBytes + TotalBytes(found.memories) <= MaxInt
    BY <2>2, RecalledTyped
  <2> HIDE DEF found
  <2> QED BY <2>1, <2>3, BlockSized
<1>4. Sized(r)
  <2> HIDE DEF full
  <2> QED BY <1>3, NotAskedSized
<1> HIDE DEF r, sent
<1>5. /\ IsList(bodies') /\ Len(bodies') = Len(bodies) + 1 /\ Len(bodies) \in Nat
      /\ IsList(recalls')
  BY <1>1, <1>2, ListAppended, Zenon
<1>6. BlockFitsItsBudget'
  <2>1. SUFFICES ASSUME NEW h \in DOMAIN recalls' PROVE Sized(recalls'[h])
    BY DEF BlockFitsItsBudget
  <2>2. /\ DOMAIN recalls = 1..Len(recalls) /\ DOMAIN recalls' = 1..(Len(recalls) + 1) /\ Len(recalls) \in Nat
        /\ \A i \in 1..Len(recalls) : recalls'[i] = recalls[i]
        /\ recalls'[Len(recalls) + 1] = r
    <3>1. /\ DOMAIN recalls = 1..Len(recalls) /\ DOMAIN Append(recalls, r) = 1..(Len(recalls) + 1) /\ Len(recalls) \in Nat
          /\ \A i \in 1..Len(recalls) : Append(recalls, r)[i] = recalls[i]
          /\ Append(recalls, r)[Len(recalls) + 1] = r
      BY <1>2, ListAppended
    <3> QED BY <1>1, <3>1
  <2>3. h \in 1..Len(recalls) \/ h = Len(recalls) + 1
    BY <2>2
  <2>4. CASE h \in 1..Len(recalls)
    BY <1>2, <2>2, <2>4, Zenon DEF BlockFitsItsBudget
  <2>5. CASE h = Len(recalls) + 1
    BY <1>4, <2>2, <2>5, Zenon
  <2> QED BY <2>3, <2>4, <2>5
<1> QED BY <1>1, <1>2, <1>5, <1>6 DEF RecallInv

\* The other actions leave the request and what was recalled alone.
LEMMA OthersKeep ==
    ASSUME RecallInv, UNCHANGED <<scene, bodies, recalls>>
    PROVE  RecallInv'
BY DEF RecallInv, BlockFitsItsBudget

\* The block a sidecar puts into a request is as large as it was estimated, and
\* within the budget (BlockFitsItsBudget).
THEOREM BlocksFit == PathSpec => []BlockFitsItsBudget
<1>1. RecallInv /\ [PathNext]_pathVars => RecallInv'
  <2> SUFFICES ASSUME RecallInv, [PathNext]_pathVars PROVE RecallInv'
    OBVIOUS
  <2>1. CASE EnrichRequest
    BY <2>1, EnrichKeeps
  <2>2. CASE CaptureResponse
    BY <2>2, OthersKeep DEF CaptureResponse
  <2>3. CASE ReadStream
    BY <2>3, OthersKeep DEF ReadStream, exchange
  <2>4. CASE ReadEOF
    BY <2>4, OthersKeep DEF ReadEOF
  <2>5. CASE Close
    BY <2>5, OthersKeep DEF Close
  <2>6. CASE StoreExchange
    BY <2>6, OthersKeep DEF StoreExchange
  <2>7. CASE UNCHANGED pathVars
    BY <2>7, OthersKeep DEF pathVars, exchange
  <2> QED BY <2>1, <2>2, <2>3, <2>4, <2>5, <2>6, <2>7 DEF PathNext
<1>2. RecallInv => BlockFitsItsBudget
  BY DEF RecallInv
<1> QED BY RecallInit, <1>1, <1>2, PTL DEF PathSpec

\* An event that is no JSON has no members.
LEMMA NothingHas ==
    \A k : /\ ~Has(Nothing, k) /\ Member(Nothing, k) = Nothing /\ Label(Nothing, k) = ""
           /\ TextAt(Nothing, k) = <<>> /\ Elements(Nothing, k) = <<>> /\ First(Nothing, k) = Nothing
<1>1. \A k : ~Has(Nothing, k)
  BY DEF Has, Nothing
<1>2. \A k : Member(Nothing, k) = Nothing /\ Label(Nothing, k) = ""
  BY <1>1, Zenon DEF Member, Label
<1>3. \A k : TextAt(Nothing, k) = <<>> /\ Elements(Nothing, k) = <<>>
  BY <1>1, <1>2, Zenon DEF TextAt, Elements, IsText, IsArray
<1>4. \A k : First(Nothing, k) = Nothing
  BY <1>3, Zenon DEF First
<1> QED BY <1>1, <1>2, <1>3, <1>4

\* A line that is no event says nothing.
LEMMA NothingSaid ==
    ExtractSSEDelta(Nothing) = <<>> /\ ExtractSSEToolName(Nothing) = <<>>
<1>1. UnwrapCloudCodeResponse(Nothing) = Nothing
  BY NothingHas, Zenon DEF UnwrapCloudCodeResponse
<1>2. /\ "" # "content_block_delta" /\ "" # "response.output_text.delta"
      /\ "" # "content_block_start" /\ "" # "response.output_item.added"
  OBVIOUS
<1>3. ExtractSSEDelta(Nothing) = <<>>
  BY <1>1, <1>2, NothingHas, Zenon DEF ExtractSSEDelta
<1>4. FirstSaid(<<>>) = <<>>
  <2>1. Len(<<>>) = 0 /\ 1..0 = {}
    BY EmptySeq
  <2>2. SelectInSeq(<<>>, LAMBDA t : t # <<>>) = 0
    BY <2>1 DEF SelectInSeq
  <2> QED BY <2>2 DEF FirstSaid
<1> DEFINE parts == Elements(Member(First(Nothing, "candidates"), "content"), "parts")
           names == [i \in DOMAIN parts |-> Name(Member(parts[i], "functionCall"))]
<1>5. parts = <<>>
  BY NothingHas, Zenon
<1>6. names = <<>>
  <2>1. \A q : q = <<>> => [i \in DOMAIN q |-> Name(Member(q[i], "functionCall"))] = <<>>
    OBVIOUS
  <2> QED BY <1>5, <2>1, Zenon
<1>7. ExtractSSEToolName(Nothing) = FirstSaid(names)
  <2>1. Elements(Nothing, "choices") = <<>> /\ Label(Nothing, "type") = ""
    BY NothingHas, Zenon
  <2> QED BY <1>1, <1>2, <2>1, Zenon DEF ExtractSSEToolName
<1> QED BY <1>3, <1>4, <1>6, <1>7, Zenon

-----------------------------------------------------------------------------
(***************************************************************************)
(* The lines of a stream.                                                  *)
(***************************************************************************)
\* The line that ends at a newline: it starts after the one before.
LineAt(units, i) == IF units[i] = NewLine THEN <<SubSeq(units, StartOf(units, i), i - 1)>> ELSE <<>>
LinesTo(units, k) == FlattenSeq([i \in 1..k |-> LineAt(units, i)])

\* A line starts after the last newline before it.
LEMMA StartIs ==
    ASSUME NEW units, NEW i \in Nat \ {0}
    PROVE  /\ StartOf(units, i) \in 1..i
           /\ \A j \in StartOf(units, i)..(i - 1) : units[j] # NewLine
           /\ StartOf(units, i) > 1 => units[StartOf(units, i) - 1] = NewLine
<1> DEFINE T == {0} \cup {j \in 1..(i - 1) : units[j] = NewLine}
           m == Max(T)
<1>1. T \in SUBSET (0..(i - 1)) /\ T # {} /\ i - 1 \in Nat
  OBVIOUS
<1>2. m \in T /\ \A j \in T : j <= m
  <2> HIDE DEF T
  <2> QED BY <1>1, MaxWithin
<1>3. StartOf(units, i) = m + 1
  BY DEF StartOf
<1>4. m \in 0..(i - 1) /\ m \in Nat
  BY <1>1, <1>2
<1>5. \A j \in (m + 1)..(i - 1) : units[j] # NewLine
  <2> SUFFICES ASSUME NEW j \in (m + 1)..(i - 1), units[j] = NewLine PROVE FALSE
    OBVIOUS
  <2>1. j \in 1..(i - 1) /\ ~(j <= m)
    BY <1>4
  <2>2. j \in T
    BY <2>1
  <2> QED BY <1>2, <2>1, <2>2
<1>6. m > 0 => units[m] = NewLine
  BY <1>2
<1> HIDE DEF m
<1>7. m + 1 \in 1..i /\ (m + 1) - 1 = m
  BY <1>4
<1> QED BY <1>3, <1>4, <1>5, <1>6, <1>7

\* After a unit that is no newline the line goes on; after one, a new one starts.
LEMMA StartNext ==
    ASSUME NEW units, NEW i \in Nat \ {0}
    PROVE  StartOf(units, i + 1) = IF units[i] = NewLine THEN i + 1 ELSE StartOf(units, i)
<1> DEFINE a == StartOf(units, i)
           b == StartOf(units, i + 1)
<1>1. /\ a \in 1..i /\ \A j \in a..(i - 1) : units[j] # NewLine
      /\ a > 1 => units[a - 1] = NewLine
  BY StartIs
<1>2. /\ b \in 1..(i + 1) /\ \A j \in b..i : units[j] # NewLine
      /\ b > 1 => units[b - 1] = NewLine
  <2>1. i + 1 \in Nat \ {0} /\ (i + 1) - 1 = i
    OBVIOUS
  <2> QED BY <2>1, StartIs
<1> HIDE DEF a, b
<1>3. CASE units[i] = NewLine
  <2>1. b = i + 1
    BY <1>2, <1>3
  <2> QED BY <1>3, <2>1 DEF b
<1>4. CASE units[i] # NewLine
  <2>1. \A j \in a..i : units[j] # NewLine
    BY <1>1, <1>4
  <2>2. ~(a < b)
    <3>1. a < b => b > 1 /\ b - 1 \in a..i
      BY <1>1, <1>2
    <3> QED BY <1>2, <2>1, <3>1
  <2>3. ~(b < a)
    <3>1. b < a => a > 1 /\ a - 1 \in b..i
      BY <1>1, <1>2
    <3> QED BY <1>1, <1>2, <3>1
  <2>4. a = b
    BY <1>1, <1>2, <2>2, <2>3
  <2> QED BY <1>4, <2>4 DEF a, b
<1> QED BY <1>3, <1>4

\* A slice of a sequence.
LEMMA SliceIs ==
    ASSUME NEW S, NEW s \in Seq(S), NEW a \in 1..(Len(s) + 1), NEW b \in (a - 1)..Len(s)
    PROVE  /\ SubSeq(s, a, b) \in Seq(S) /\ Len(SubSeq(s, a, b)) = b - a + 1
           /\ \A i \in 1..(b - a + 1) : SubSeq(s, a, b)[i] = s[a + i - 1]
           /\ a \in Nat /\ b \in Nat /\ Len(s) \in Nat
<1>1. Len(s) \in Nat /\ a \in Nat /\ b \in Nat /\ a \in Int /\ b \in Int
  BY LenProperties
<1>2. \A i \in a..b : i \in 1..Len(s)
  BY <1>1
<1>3. \A i \in a..b : s[i] \in S
  BY <1>2, ElementOfSeq
<1>4. /\ SubSeq(s, a, b) \in Seq(S) /\ Len(SubSeq(s, a, b)) = IF a <= b THEN b - a + 1 ELSE 0
      /\ \A i \in 1..(b - a + 1) : SubSeq(s, a, b)[i] = s[a + i - 1]
  BY <1>1, <1>3, SubSeqProperties
<1>5. (IF a <= b THEN b - a + 1 ELSE 0) = b - a + 1
  BY <1>1
<1> QED BY <1>1, <1>4, <1>5

\* One unit more, and none.
LEMMA SliceGrows ==
    ASSUME NEW S, NEW s \in Seq(S), NEW k \in 0..(Len(s) - 1), NEW a \in 1..(k + 1)
    PROVE  Append(SubSeq(s, a, k), s[k + 1]) = SubSeq(s, a, k + 1)
<1> DEFINE p == SubSeq(s, a, k)
           q == SubSeq(s, a, k + 1)
           x == s[k + 1]
<1>1. Len(s) \in Nat /\ k \in Nat /\ a \in Nat /\ a \in 1..(Len(s) + 1) /\ k \in (a - 1)..Len(s) /\ k + 1 \in (a - 1)..Len(s)
      /\ k + 1 \in 1..Len(s)
  BY LenProperties
<1>2. p \in Seq(S) /\ Len(p) = k - a + 1 /\ \A i \in 1..(k - a + 1) : p[i] = s[a + i - 1]
  BY <1>1, SliceIs
<1>3. q \in Seq(S) /\ Len(q) = (k + 1) - a + 1 /\ \A i \in 1..((k + 1) - a + 1) : q[i] = s[a + i - 1]
  <2> DEFINE l == k + 1
  <2>1. l \in (a - 1)..Len(s)
    BY <1>1
  <2> HIDE DEF l
  <2>2. /\ SubSeq(s, a, l) \in Seq(S) /\ Len(SubSeq(s, a, l)) = l - a + 1
        /\ \A i \in 1..(l - a + 1) : SubSeq(s, a, l)[i] = s[a + i - 1]
    BY <1>1, <2>1, SliceIs
  <2> QED BY <2>2 DEF l
<1>4. x \in S
  BY <1>1, ElementOfSeq
<1> DEFINE n == k - a + 1
<1>5. n \in Nat /\ (k + 1) - a + 1 = n + 1 /\ a + (n + 1) - 1 = k + 1
  BY <1>1
<1> HIDE DEF p, q
<1>6. q[n + 1] = x
  <2>1. n + 1 \in 1..(n + 1)
    BY <1>5
  <2> HIDE DEF n
  <2> QED BY <1>3, <1>5, <2>1
<1>7. \A i \in 1..n : q[i] = p[i]
  <2>1. \A i \in 1..n : i \in 1..(n + 1)
    BY <1>5
  <2> QED BY <1>2, <1>3, <1>5, <2>1
<1> HIDE DEF n, x
<1>8. /\ Append(p, x) \in Seq(S) /\ Len(Append(p, x)) = n + 1
      /\ \A i \in 1..n : Append(p, x)[i] = p[i]
      /\ Append(p, x)[n + 1] = x
  <2>1. Len(p) = n
    BY <1>2 DEF n
  <2> QED BY <1>2, <1>4, <2>1, AppendProperties
<1>9. \A i \in 1..(n + 1) : Append(p, x)[i] = q[i]
  <2>1. \A i \in 1..(n + 1) : i \in 1..n \/ i = n + 1
    BY <1>5
  <2> QED BY <1>6, <1>7, <1>8, <2>1
<1>10. Append(p, x) = q
  <2>1. Len(q) = n + 1
    BY <1>3, <1>5
  <2> QED BY <1>3, <1>8, <1>9, <2>1, SeqEqual
<1> QED BY <1>10 DEF p, q, x

\* The lines of the first k units.
LEMMA LinesAre ==
    ASSUME NEW S, NEW units \in Seq(S), NEW k \in 0..Len(units)
    PROVE  LinesOf(SubSeq(units, 1, k)) = LinesTo(units, k)
<1> DEFINE p == SubSeq(units, 1, k)
           at(i) == IF p[i] = NewLine THEN <<SubSeq(p, StartOf(p, i), i - 1)>> ELSE <<>>
<1>1. /\ p \in Seq(S) /\ Len(p) = k /\ k \in Nat /\ DOMAIN p = 1..k /\ \A i \in 1..k : p[i] = units[i]
      /\ Len(units) \in Nat
  BY PrefixOf, LenProperties
<1> HIDE DEF p
<1>2. ASSUME NEW i \in 1..k PROVE at(i) = LineAt(units, i)
  <2>1. i \in Nat \ {0} /\ p[i] = units[i]
    BY <1>1
  <2>2. StartOf(p, i) = StartOf(units, i)
    <3>1. \A j \in 1..(i - 1) : j \in 1..k
      BY <1>1
    <3>2. {j \in 1..(i - 1) : p[j] = NewLine} = {j \in 1..(i - 1) : units[j] = NewLine}
      BY <1>1, <3>1
    <3> QED BY <3>2 DEF StartOf
  <2> DEFINE a == StartOf(units, i)
             l == i - 1
  <2>3. a \in 1..i
    BY <2>1, StartIs
  <2> HIDE DEF a
  <2>4. /\ a \in 1..(Len(p) + 1) /\ l \in (a - 1)..Len(p) /\ a \in 1..(Len(units) + 1) /\ l \in (a - 1)..Len(units)
        /\ \A j \in 1..(l - a + 1) : a + j - 1 \in 1..k
    BY <1>1, <2>3
  <2> HIDE DEF l
  <2>5. SubSeq(p, a, l) = SubSeq(units, a, l)
    <3>1. /\ SubSeq(p, a, l) \in Seq(S) /\ Len(SubSeq(p, a, l)) = l - a + 1
          /\ \A j \in 1..(l - a + 1) : SubSeq(p, a, l)[j] = p[a + j - 1]
      BY <1>1, <2>4, SliceIs
    <3>2. /\ SubSeq(units, a, l) \in Seq(S) /\ Len(SubSeq(units, a, l)) = l - a + 1
          /\ \A j \in 1..(l - a + 1) : SubSeq(units, a, l)[j] = units[a + j - 1]
      BY <2>4, SliceIs
    <3>3. \A j \in 1..(l - a + 1) : SubSeq(p, a, l)[j] = SubSeq(units, a, l)[j]
      BY <1>1, <2>4, <3>1, <3>2
    <3> QED BY <3>1, <3>2, <3>3, SeqEqual
  <2> QED BY <2>1, <2>2, <2>5, Zenon DEF LineAt, a, l
<1>3. [i \in DOMAIN p |-> at(i)] = [i \in 1..k |-> LineAt(units, i)]
  <2> HIDE DEF at
  <2> QED BY <1>1, <1>2
<1>4. LinesOf(p) = FlattenSeq([i \in DOMAIN p |-> at(i)])
  BY DEF LinesOf
<1> QED BY <1>3, <1>4, Zenon DEF LinesTo, p

\* The lines that may be asked what they say, and those that are such a line
\* with its carriage return or without.
EventLine == {l \in Seq(Unit) : l = <<>> \/ l[1] \notin {NewLine, Return}}
RawLine  == {l \in Seq(Unit) : Bare(l) \in EventLine}

\* A unit of an event's line.
LEMMA UnitIs ==
    ASSUME NEW u \in Unit, u \notin {NewLine, Return}
    PROVE  u.ev \in DOMAIN LineLen /\ u = [ev |-> u.ev, at |-> u.at]
<1>1. PICK e \in DOMAIN LineLen : u \in {[ev |-> e, at |-> i] : i \in 1..LineLen[e]}
  BY Zenon DEF Unit
<1>2. PICK i \in 1..LineLen[e] : u = [ev |-> e, at |-> i]
  BY <1>1
<1> QED BY <1>2

\* What a line says is a text and at most one tool; nothing, if its beginning is
\* missing.
LEMMA LineSays ==
    ASSUME NEW l \in EventLine
    PROVE  /\ ExtractSSEDelta(DocOfLine(l)) \in Seq(STRING)
           /\ ExtractSSEToolName(DocOfLine(l)) \in Seq(STRING) /\ Len(ExtractSSEToolName(DocOfLine(l))) <= 1
           /\ l # <<>> /\ l[1].at # 1 => DocOfLine(l) = Nothing
<1>1. /\ ExtractSSEDelta(Nothing) \in Seq(STRING) /\ ExtractSSEToolName(Nothing) \in Seq(STRING)
      /\ Len(ExtractSSEToolName(Nothing)) <= 1
  <2>1. <<>> \in Seq(STRING) /\ Len(<<>>) = 0 /\ 0 <= 1
    BY EmptySeq
  <2> QED BY <2>1, NothingSaid, Zenon
<1>2. CASE ~IsWhole(l)
  BY <1>1, <1>2, Zenon DEF DocOfLine
<1>3. CASE IsWhole(l)
  <2> DEFINE e == l[1].ev
  <2>1. l \in Seq(Unit) /\ l # <<>> /\ l[1] \notin {NewLine, Return} /\ l = Line(e) /\ DocOfLine(l) = EventDoc[e]
    BY <1>3, Zenon DEF EventLine, IsWhole, DocOfLine
  <2>2. Len(l) \in Nat /\ DOMAIN l = 1..Len(l) /\ 1 \in DOMAIN l
    BY <2>1, EmptySeq, LenProperties
  <2>3. l[1] \in Unit
    BY <2>1, <2>2, ElementOfSeq
  <2>4. e \in DOMAIN LineLen
    BY <2>1, <2>3, UnitIs
  <2>5. l[1].at = 1
    <3> HIDE DEF e
    <3>1. Line(e)[1] = [ev |-> e, at |-> 1]
      <4>1. 1 \in 1..LineLen[e]
        BY <2>1, <2>2 DEF Line
      <4> QED BY <4>1 DEF Line
    <3> QED BY <2>1, <3>1
  <2> HIDE DEF e
  <2>6. /\ ExtractSSEDelta(EventDoc[e]) \in Seq(STRING)
        /\ ExtractSSEToolName(EventDoc[e]) \in Seq(STRING) /\ Len(ExtractSSEToolName(EventDoc[e])) <= 1
    BY <2>4, StreamAssumption, Zenon
  <2> QED BY <2>1, <2>5, <2>6, Zenon
<1> QED BY <1>2, <1>3

\* A newline is no carriage return.
LEMMA NotNewLine == NewLine # Return
BY DEF NewLine, Return

\* Units between two newlines, from the beginning of the line or from later on.
LEMMA BareIs ==
    ASSUME NEW units, IsStream(units), NEW k \in 0..Len(units), NEW a \in 1..(k + 1),
           \A j \in a..k : units[j] # NewLine
    PROVE  LET R == SubSeq(units, a, k)
           IN /\ R \in RawLine /\ Len(R) = k - a + 1
              /\ Bare(R) \in EventLine /\ Len(Bare(R)) <= Len(R) /\ Len(Bare(R)) \in Nat
              /\ Bare(R) # <<>> => a <= k /\ Bare(R)[1] = units[a] /\ units[a] \in Unit \ {NewLine, Return}
<1> DEFINE R == SubSeq(units, a, k)
           B == Bare(R)
           n == k - a + 1
<1>1. /\ units \in Seq(Unit)
      /\ \A i \in 2..Len(units) :
            /\ units[i].at = 1 /\ units[i] \notin {NewLine, Return} => units[i - 1] = NewLine
            /\ units[i - 1] = Return => units[i] = NewLine
  BY Zenon DEF IsStream
<1>2. Len(units) \in Nat /\ k \in Nat /\ a \in Nat /\ a \in 1..(Len(units) + 1) /\ k \in (a - 1)..Len(units) /\ n \in Nat
  BY <1>1, LenProperties
<1>3. R \in Seq(Unit) /\ Len(R) = n /\ \A i \in 1..n : R[i] = units[a + i - 1]
  BY <1>1, <1>2, SliceIs
<1> HIDE DEF R
<1>4. a < k => units[a] # Return
  <2>1. a < k => a + 1 \in 2..Len(units) /\ (a + 1) - 1 = a /\ a + 1 \in a..k
    BY <1>2
  <2> QED BY <1>1, <2>1
<1>5. a <= k => units[a] \in Unit /\ units[a] # NewLine
  <2>1. a <= k => a \in 1..Len(units) /\ a \in a..k
    BY <1>2
  <2> QED BY <1>1, <2>1, ElementOfSeq
<1>6. CASE n = 0
  <2>1. R = <<>>
    BY <1>3, <1>6, EmptySeq
  <2>2. B = <<>> /\ Len(<<>>) = 0 /\ <<>> \in Seq(Unit)
    BY <2>1, EmptySeq DEF Bare
  <2>3. B \in EventLine /\ Len(B) = 0
    BY <2>2 DEF EventLine
  <2>4. R \in RawLine
    BY <1>3, <2>3 DEF RawLine
  <2> HIDE DEF B
  <2>5. Len(R) = k - a + 1 /\ Len(B) <= Len(R) /\ Len(B) \in Nat
    BY <1>3, <1>6, <2>3
  <2> QED BY <2>2, <2>3, <2>4, <2>5 DEF B, R
<1>7. CASE n # 0
  <2>1. R # <<>> /\ a <= k /\ n \in 1..n /\ a + n - 1 = k /\ 1 \in 1..n /\ a + 1 - 1 = a
    BY <1>2, <1>3, <1>7, EmptySeq
  <2>2. R[1] = units[a] /\ R[n] = units[k] /\ Last(R) = units[k]
    BY <1>3, <2>1 DEF Last
  <2>3. CASE units[k] = Return
    <3>1. B = SubSeq(R, 1, n - 1)
      BY <1>3, <2>1, <2>2, <2>3 DEF Bare, Front
    <3>2. n - 1 \in 0..Len(R)
      BY <1>2, <1>3, <1>7
    <3>3. B \in Seq(Unit) /\ Len(B) = n - 1 /\ \A i \in 1..(n - 1) : B[i] = R[i]
      <4> DEFINE l == n - 1
      <4>1. l \in 0..Len(R)
        BY <3>2
      <4> HIDE DEF l, n, B
      <4>2. SubSeq(R, 1, l) \in Seq(Unit) /\ Len(SubSeq(R, 1, l)) = l /\ \A i \in 1..l : SubSeq(R, 1, l)[i] = R[i]
        BY <1>3, <4>1, PrefixOf
      <4> QED BY <3>1, <4>2 DEF l
    <3> HIDE DEF B
    <3>4. B # <<>> => n - 1 # 0
      BY <3>3, EmptySeq
    <3>5. n - 1 # 0 => a < k /\ 1 \in 1..(n - 1)
      BY <1>2, <2>1
    <3>6. B # <<>> => B[1] = units[a] /\ units[a] \in Unit \ {NewLine, Return} /\ a <= k
      BY <1>4, <1>5, <2>1, <2>2, <3>3, <3>4, <3>5
    <3>7. B \in EventLine
      BY <3>3, <3>6 DEF EventLine
    <3>8. R \in RawLine
      BY <1>3, <3>7 DEF RawLine, B
    <3>9. Len(R) = k - a + 1 /\ Len(B) <= Len(R) /\ Len(B) \in Nat
      BY <1>2, <1>3, <2>1, <3>3
    <3> QED BY <3>6, <3>7, <3>8, <3>9 DEF B, R
  <2>4. CASE units[k] # Return
    <3>1. B = R
      BY <2>2, <2>4 DEF Bare
    <3> HIDE DEF B
    <3>2. units[a] # Return
      <4>1. a < k \/ a = k
        BY <1>2, <2>1
      <4> QED BY <1>4, <2>4, <4>1
    <3>3. B # <<>> => B[1] = units[a] /\ units[a] \in Unit \ {NewLine, Return} /\ a <= k
      BY <1>5, <2>1, <2>2, <3>1, <3>2
    <3>4. B \in EventLine
      BY <1>3, <3>1, <3>3 DEF EventLine
    <3>5. R \in RawLine
      BY <1>3, <3>4 DEF RawLine, B
    <3>6. Len(R) = k - a + 1 /\ Len(B) <= Len(R) /\ Len(B) \in Nat
      BY <1>2, <1>3, <3>1
    <3> QED BY <3>3, <3>4, <3>5, <3>6 DEF B, R
  <2> QED BY <2>3, <2>4
<1> QED BY <1>6, <1>7

\* What is left of a line whose beginning was dropped says nothing.
LEMMA RemnantSilent ==
    ASSUME NEW units, IsStream(units), NEW k \in 0..Len(units), NEW st \in 1..(k + 1),
           NEW a \in (st + 1)..(k + 1), \A j \in st..k : units[j] # NewLine
    PROVE  LET B == Bare(SubSeq(units, a, k)) IN B # <<>> => DocOfLine(B) = Nothing
<1> DEFINE B == Bare(SubSeq(units, a, k))
<1>1. units \in Seq(Unit) /\ Len(units) \in Nat
  BY LenProperties, Zenon DEF IsStream
<1>2. k \in Nat /\ st \in Nat /\ a \in 1..(k + 1) /\ a - 1 \in st..(k) /\ \A j \in a..k : j \in st..k
  BY <1>1
<1>3. /\ B \in EventLine
      /\ B # <<>> => a <= k /\ B[1] = units[a] /\ units[a] \in Unit \ {NewLine, Return}
  BY <1>2, BareIs
<1> HIDE DEF B
<1>4. B # <<>> => units[a].at # 1
  <2>1. a <= k => a \in 2..Len(units)
    BY <1>1, <1>2
  <2>2. \A i \in 2..Len(units) : units[i].at = 1 /\ units[i] \notin {NewLine, Return} => units[i - 1] = NewLine
    BY Zenon DEF IsStream
  <2>3. units[a - 1] # NewLine
    BY <1>2
  <2> QED BY <1>3, <2>1, <2>2, <2>3
<1>5. B # <<>> => DocOfLine(B) = Nothing
  BY <1>3, <1>4, LineSays
<1> QED BY <1>5 DEF B

\* A line that has ended.
LEMMA LineAtTyped ==
    ASSUME NEW units, IsStream(units), NEW i \in 1..Len(units)
    PROVE  LineAt(units, i) \in Seq(RawLine)
<1>1. units \in Seq(Unit) /\ Len(units) \in Nat
  BY LenProperties, Zenon DEF IsStream
<1> DEFINE a == StartOf(units, i)
           k == i - 1
<1>2. i \in Nat \ {0} /\ k \in 0..Len(units) /\ k + 1 = i
  BY <1>1
<1>3. a \in 1..(k + 1) /\ \A j \in a..k : units[j] # NewLine
  BY <1>2, StartIs
<1> HIDE DEF a, k
<1>4. SubSeq(units, a, k) \in RawLine
  BY <1>2, <1>3, BareIs
<1>5. <<>> \in Seq(RawLine) /\ <<SubSeq(units, a, k)>> \in Seq(RawLine)
  <2> DEFINE x == SubSeq(units, a, k)
  <2>1. \A y \in RawLine : <<y>> \in Seq(RawLine)
    OBVIOUS
  <2> HIDE DEF x
  <2> QED BY <1>4, <2>1, EmptySeq DEF x
<1> QED BY <1>5, Zenon DEF LineAt, a, k

\* One unit more.
LEMMA LinesGrow ==
    ASSUME NEW units, IsStream(units), NEW k \in 0..(Len(units) - 1)
    PROVE  /\ LinesTo(units, k) \in Seq(RawLine)
           /\ LinesTo(units, k + 1) = LinesTo(units, k) \o LineAt(units, k + 1)
           /\ LinesTo(units, k + 1) \in Seq(RawLine)
<1>1. units \in Seq(Unit) /\ Len(units) \in Nat
  BY LenProperties, Zenon DEF IsStream
<1>2. k \in Nat /\ \A i \in 1..(k + 1) : i \in 1..Len(units)
  BY <1>1
<1> DEFINE w == [i \in 1..(k + 1) |-> LineAt(units, i)]
<1>3. \A i \in 1..(k + 1) : w[i] \in Seq(RawLine)
  BY <1>2, LineAtTyped
<1>4. /\ [i \in 1..(k + 1) |-> w[i]] = [i \in 1..(k + 1) |-> LineAt(units, i)]
      /\ [i \in 1..k |-> w[i]] = [i \in 1..k |-> LineAt(units, i)]
      /\ w[k + 1] = LineAt(units, k + 1)
  BY <1>2
<1> HIDE DEF w
<1>5. /\ FlattenSeq([i \in 1..(k + 1) |-> w[i]]) = FlattenSeq([i \in 1..k |-> w[i]]) \o w[k + 1]
      /\ FlattenSeq([i \in 1..k |-> w[i]]) \in Seq(RawLine)
      /\ FlattenSeq([i \in 1..(k + 1) |-> w[i]]) \in Seq(RawLine)
  BY <1>2, <1>3, FlattenGrows
<1> QED BY <1>4, <1>5, Zenon DEF LinesTo

\* No unit, no line.
LEMMA NoLines == \A units : LinesTo(units, 0) = <<>>
<1> SUFFICES ASSUME NEW units PROVE LinesTo(units, 0) = <<>>
  OBVIOUS
<1>1. [i \in 1..0 |-> LineAt(units, i)] = <<>>
  <2>1. 1..0 = {}
    OBVIOUS
  <2>2. [i \in 1..0 |-> LineAt(units, i)] \in Seq(Nat) /\ Len([i \in 1..0 |-> LineAt(units, i)]) = 0
    BY <2>1, IsASeq
  <2> QED BY <2>2, EmptySeq
<1> QED BY <1>1, FlattenNone DEF LinesTo

-----------------------------------------------------------------------------
(***************************************************************************)
(* What lines say, one line more.                                          *)
(***************************************************************************)
Via(g, s) == FlattenSeq([i \in DOMAIN s |-> g[s[i]]])

\* What is said of one element more is appended.
LEMMA ViaGrows ==
    ASSUME NEW D, NEW B, NEW g, \A y \in D : g[y] \in Seq(B), NEW s \in Seq(D), NEW x \in D
    PROVE  /\ Via(g, Append(s, x)) = Via(g, s) \o g[x]
           /\ Via(g, s) \in Seq(B) /\ g[x] \in Seq(B)
<1> DEFINE n == Len(s)
           q == Append(s, x)
           w == [i \in 1..(n + 1) |-> g[q[i]]]
<1>1. n \in Nat /\ DOMAIN s = 1..n /\ \A i \in 1..n : s[i] \in D
  BY LenProperties, ElementOfSeq
<1>2. q \in Seq(D) /\ Len(q) = n + 1 /\ (\A i \in 1..n : q[i] = s[i]) /\ q[n + 1] = x
  BY AppendProperties
<1> HIDE DEF q
<1>3. DOMAIN q = 1..(n + 1) /\ \A i \in 1..(n + 1) : q[i] \in D
  <2>1. DOMAIN q = 1..Len(q) /\ \A i \in 1..Len(q) : q[i] \in D
    BY <1>2, LenProperties, ElementOfSeq
  <2> QED BY <1>2, <2>1
<1> HIDE DEF n
<1>4. \A i \in 1..(n + 1) : w[i] \in Seq(B)
  BY <1>3
<1>5. n + 1 \in 1..(n + 1) /\ \A i \in 1..n : i \in 1..(n + 1)
  BY <1>1
<1>6. /\ [i \in 1..(n + 1) |-> w[i]] = [i \in DOMAIN q |-> g[q[i]]]
      /\ [i \in 1..n |-> w[i]] = [i \in DOMAIN s |-> g[s[i]]]
      /\ w[n + 1] = g[x]
  BY <1>1, <1>2, <1>3, <1>5
<1> HIDE DEF w
<1>7. /\ FlattenSeq([i \in 1..(n + 1) |-> w[i]]) = FlattenSeq([i \in 1..n |-> w[i]]) \o w[n + 1]
      /\ FlattenSeq([i \in 1..n |-> w[i]]) \in Seq(B)
  BY <1>1, <1>4, FlattenGrows
<1>8. Via(g, q) = Via(g, s) \o g[x] /\ Via(g, s) \in Seq(B)
  BY <1>6, <1>7, Zenon DEF Via
<1> QED BY <1>8 DEF q

\* Nothing is said of no element.
LEMMA ViaNone == \A g : Via(g, <<>>) = <<>>
<1> SUFFICES ASSUME NEW g PROVE Via(g, <<>>) = <<>>
  OBVIOUS
<1>1. [i \in DOMAIN <<>> |-> g[<<>>[i]]] = <<>>
  OBVIOUS
<1> QED BY <1>1, FlattenNone, Zenon DEF Via

PayloadOf(l)  == IF HasPayload(Bare(l)) THEN <<Bare(l)>> ELSE <<>>
MentionOf(l)  == IF MentionsUsage(l) THEN <<l>> ELSE <<>>
DeltaOf(l)    == ExtractSSEDelta(DocOfLine(l))
ToolOf(l)     == ExtractSSEToolName(DocOfLine(l))
ToolsIn(ls)     == Joined(ToolOf, ls)
MentionsIn(ls)  == Joined(MentionOf, ls)

\* One element or none is a sequence.
LEMMA SingleOf == \A S : <<>> \in Seq(S) /\ \A x \in S : <<x>> \in Seq(S)
<1> SUFFICES ASSUME NEW S PROVE <<>> \in Seq(S) /\ \A x \in S : <<x>> \in Seq(S)
  OBVIOUS
<1>1. <<>> \in Seq(S)
  BY EmptySeq
<1>2. \A x \in S : <<x>> \in Seq(S)
  OBVIOUS
<1> QED BY <1>1, <1>2

\* The payloads of lines.
LEMMA PayloadsGrow ==
    ASSUME NEW s \in Seq(RawLine), NEW x \in RawLine
    PROVE  /\ Payloads(Append(s, x)) = Payloads(s) \o PayloadOf(x)
           /\ Payloads(s) \in Seq(EventLine) /\ PayloadOf(x) \in Seq(EventLine) /\ Bare(x) \in EventLine
<1> DEFINE g == [l \in RawLine |-> PayloadOf(l)]
<1>1. \A l \in RawLine : Bare(l) \in EventLine
  BY DEF RawLine
<1>2. \A l \in RawLine : PayloadOf(l) \in Seq(EventLine)
  BY <1>1, SingleOf, Zenon DEF PayloadOf
<1>3. \A l \in RawLine : g[l] \in Seq(EventLine) /\ g[l] = PayloadOf(l)
  BY <1>2
<1>4. ASSUME NEW t \in Seq(RawLine) PROVE Payloads(t) = Via(g, t)
  <2>1. \A i \in DOMAIN t : t[i] \in RawLine
    BY LenProperties, ElementOfSeq
  <2>2. [i \in DOMAIN t |-> PayloadOf(t[i])] = [i \in DOMAIN t |-> g[t[i]]]
    BY <2>1
  <2> HIDE DEF g
  <2> QED BY <2>2, Zenon DEF Payloads, Joined, Via, PayloadOf
<1> HIDE DEF g
<1>5. Append(s, x) \in Seq(RawLine)
  BY AppendProperties
<1>6. Via(g, Append(s, x)) = Via(g, s) \o g[x] /\ Via(g, s) \in Seq(EventLine)
  <2> DEFINE B == EventLine
  <2>1. \A y \in RawLine : g[y] \in Seq(B)
    BY <1>3
  <2> HIDE DEF B
  <2>2. Via(g, Append(s, x)) = Via(g, s) \o g[x]
    BY <2>1, ViaGrows
  <2>3. Via(g, s) \in Seq(B)
    BY <2>1, ViaGrows
  <2> QED BY <2>2, <2>3 DEF B
<1>7. Payloads(s) = Via(g, s) /\ Payloads(Append(s, x)) = Via(g, Append(s, x))
  BY <1>4, <1>5
<1> QED BY <1>1, <1>2, <1>3, <1>6, <1>7, Zenon

\* The tools payloads name.
LEMMA ToolsGrow ==
    ASSUME NEW s \in Seq(EventLine), NEW x \in EventLine
    PROVE  ToolsIn(Append(s, x)) = ToolsIn(s) \o ToolOf(x) /\ ToolsIn(s) \in Seq(STRING)
           /\ ToolOf(x) \in Seq(STRING) /\ Len(ToolOf(x)) <= 1
<1> DEFINE g == [l \in EventLine |-> ToolOf(l)]
<1>2. \A l \in EventLine : ToolOf(l) \in Seq(STRING) /\ Len(ToolOf(l)) <= 1
  BY LineSays DEF ToolOf
<1>3. \A l \in EventLine : g[l] \in Seq(STRING) /\ g[l] = ToolOf(l)
  BY <1>2
<1>4. ASSUME NEW t \in Seq(EventLine) PROVE ToolsIn(t) = Via(g, t)
  <2>1. \A i \in DOMAIN t : t[i] \in EventLine
    BY LenProperties, ElementOfSeq
  <2>2. [i \in DOMAIN t |-> ToolOf(t[i])] = [i \in DOMAIN t |-> g[t[i]]]
    BY <2>1
  <2> HIDE DEF g
  <2> QED BY <2>2, Zenon DEF ToolsIn, Joined, Via
<1> HIDE DEF g
<1>5. Append(s, x) \in Seq(EventLine)
  BY AppendProperties
<1>6. Via(g, Append(s, x)) = Via(g, s) \o g[x] /\ Via(g, s) \in Seq(STRING)
  <2> DEFINE B == STRING
  <2>1. \A y \in EventLine : g[y] \in Seq(B)
    BY <1>3
  <2> HIDE DEF B
  <2>2. Via(g, Append(s, x)) = Via(g, s) \o g[x]
    BY <2>1, ViaGrows
  <2>3. Via(g, s) \in Seq(B)
    BY <2>1, ViaGrows
  <2> QED BY <2>2, <2>3 DEF B
<1>7. ToolsIn(s) = Via(g, s) /\ ToolsIn(Append(s, x)) = Via(g, Append(s, x))
  BY <1>4, <1>5
<1> QED BY <1>2, <1>3, <1>6, <1>7, Zenon

\* The payloads that mention usage.
LEMMA MentionsGrow ==
    ASSUME NEW s \in Seq(EventLine), NEW x \in EventLine
    PROVE  MentionsIn(Append(s, x)) = MentionsIn(s) \o MentionOf(x) /\ MentionsIn(s) \in Seq(EventLine) /\ MentionOf(x) \in Seq(EventLine)
<1> DEFINE g == [l \in EventLine |-> MentionOf(l)]
<1>2. \A l \in EventLine : MentionOf(l) \in Seq(EventLine)
  BY SingleOf, Zenon DEF MentionOf
<1>3. \A l \in EventLine : g[l] \in Seq(EventLine) /\ g[l] = MentionOf(l)
  BY <1>2
<1>4. ASSUME NEW t \in Seq(EventLine) PROVE MentionsIn(t) = Via(g, t)
  <2>1. \A i \in DOMAIN t : t[i] \in EventLine
    BY LenProperties, ElementOfSeq
  <2>2. [i \in DOMAIN t |-> MentionOf(t[i])] = [i \in DOMAIN t |-> g[t[i]]]
    BY <2>1
  <2> HIDE DEF g
  <2> QED BY <2>2, Zenon DEF MentionsIn, Joined, Via
<1> HIDE DEF g
<1>5. Append(s, x) \in Seq(EventLine)
  BY AppendProperties
<1>6. Via(g, Append(s, x)) = Via(g, s) \o g[x] /\ Via(g, s) \in Seq(EventLine)
  BY <1>3, ViaGrows
<1>7. MentionsIn(s) = Via(g, s) /\ MentionsIn(Append(s, x)) = Via(g, Append(s, x))
  BY <1>4, <1>5
<1> QED BY <1>2, <1>3, <1>6, <1>7, Zenon

\* No line says nothing.
LEMMA NoneSays == Payloads(<<>>) = <<>> /\ ToolsIn(<<>>) = <<>> /\ MentionsIn(<<>>) = <<>>
<1>1. \A f : [i \in DOMAIN <<>> |-> f[i]] = <<>>
  OBVIOUS
<1>2. /\ [i \in DOMAIN <<>> |-> PayloadOf(<<>>[i])] = <<>>
      /\ [i \in DOMAIN <<>> |-> ToolOf(<<>>[i])] = <<>> /\ [i \in DOMAIN <<>> |-> MentionOf(<<>>[i])] = <<>>
  OBVIOUS
<1>3. Payloads(<<>>) = <<>>
  BY <1>2, FlattenNone, Zenon DEF Payloads, Joined, PayloadOf
<1>4. ToolsIn(<<>>) = <<>> /\ MentionsIn(<<>>) = <<>>
  BY <1>2, FlattenNone, Zenon DEF ToolsIn, MentionsIn, Joined
<1> QED BY <1>3, <1>4

-----------------------------------------------------------------------------
(***************************************************************************)
(* The cap of the tools.                                                   *)
(***************************************************************************)
FirstFit(t, room) == SubSeq(t, 1, Min({Len(t), Max({room, 0})}))

\* As much of it as there is room for.
LEMMA FitIs ==
    ASSUME NEW S, NEW t \in Seq(S), NEW room \in Int
    PROVE  LET n == IF room <= 0 THEN 0 ELSE IF Len(t) <= room THEN Len(t) ELSE room
           IN /\ FirstFit(t, room) \in Seq(S) /\ Len(FirstFit(t, room)) = n /\ n \in Nat /\ n <= Len(t) /\ Len(t) \in Nat
              /\ \A i \in 1..n : FirstFit(t, room)[i] = t[i]
<1> DEFINE n == IF room <= 0 THEN 0 ELSE IF Len(t) <= room THEN Len(t) ELSE room
           m == Max({room, 0})
           c == Min({Len(t), m})
<1>1. Len(t) \in Nat
  BY LenProperties
<1>2. m = IF room >= 0 THEN room ELSE 0
  BY MaxOfTwo
<1>3. m \in Nat
  BY <1>2
<1> HIDE DEF m
<1>4. c = IF Len(t) <= m THEN Len(t) ELSE m
  <2>1. \E x \in {Len(t), m} : \A y \in {Len(t), m} : x <= y
    BY <1>1, <1>3
  <2>2. c \in {Len(t), m} /\ \A y \in {Len(t), m} : c <= y
    BY <2>1 DEF Min
  <2> QED BY <1>1, <1>3, <2>2
<1> HIDE DEF c
<1>5. c = n /\ n \in 0..Len(t)
  BY <1>1, <1>2, <1>4
<1> HIDE DEF n
<1>6. SubSeq(t, 1, n) \in Seq(S) /\ Len(SubSeq(t, 1, n)) = n /\ n \in Nat /\ \A i \in 1..n : SubSeq(t, 1, n)[i] = t[i]
  BY <1>5, PrefixOf
<1>7. FirstFit(t, room) = SubSeq(t, 1, n)
  BY <1>5 DEF FirstFit, c, m
<1>8. n <= Len(t)
  BY <1>1, <1>5
<1> QED BY <1>1, <1>6, <1>7, <1>8 DEF n

\* What comes after is cut to the room that is left.
LEMMA FitJoins ==
    ASSUME NEW S, NEW t \in Seq(S), NEW d \in Seq(S), NEW most \in Nat
    PROVE  FirstFit(t, most) \o FirstFit(d, most - Len(FirstFit(t, most))) = FirstFit(t \o d, most)
<1> DEFINE a == FirstFit(t, most)
           room == most - Len(a)
           b == FirstFit(d, room)
           c == FirstFit(t \o d, most)
           n == IF most <= 0 THEN 0 ELSE IF Len(t) <= most THEN Len(t) ELSE most
           m == IF room <= 0 THEN 0 ELSE IF Len(d) <= room THEN Len(d) ELSE room
           l == IF most <= 0 THEN 0 ELSE IF Len(t) + Len(d) <= most THEN Len(t) + Len(d) ELSE most
<1>1. a \in Seq(S) /\ Len(a) = n /\ n \in Nat /\ n <= Len(t) /\ Len(t) \in Nat /\ \A i \in 1..n : a[i] = t[i]
  BY FitIs
<1> HIDE DEF a
<1>2. room \in Int
  BY <1>1
<1> HIDE DEF room
<1>3. b \in Seq(S) /\ Len(b) = m /\ m \in Nat /\ m <= Len(d) /\ Len(d) \in Nat /\ \A i \in 1..m : b[i] = d[i]
  BY <1>2, FitIs
<1>4. /\ t \o d \in Seq(S) /\ Len(t \o d) = Len(t) + Len(d)
      /\ \A i \in 1..(Len(t) + Len(d)) : (t \o d)[i] = IF i <= Len(t) THEN t[i] ELSE d[i - Len(t)]
  BY ConcatProperties
<1>5. c \in Seq(S) /\ Len(c) = l /\ l \in Nat /\ \A i \in 1..l : c[i] = (t \o d)[i]
  <2> DEFINE u == t \o d
  <2>1. u \in Seq(S) /\ Len(u) = Len(t) + Len(d)
    BY <1>4
  <2> HIDE DEF u
  <2>2. LET k == IF most <= 0 THEN 0 ELSE IF Len(u) <= most THEN Len(u) ELSE most
        IN FirstFit(u, most) \in Seq(S) /\ Len(FirstFit(u, most)) = k /\ k \in Nat /\ \A i \in 1..k : FirstFit(u, most)[i] = u[i]
    BY <2>1, FitIs
  <2>3. FirstFit(u, most) \in Seq(S) /\ Len(FirstFit(u, most)) = l /\ l \in Nat /\ \A i \in 1..l : FirstFit(u, most)[i] = u[i]
    BY <2>1, <2>2
  <2> QED BY <2>3 DEF u
<1>6. l = n + m /\ (n < Len(t) => m = 0)
  <2>1. Len(a) = n /\ n \in Nat /\ Len(b) = m /\ m \in Nat /\ Len(t) \in Nat /\ Len(d) \in Nat
    BY <1>1, <1>3
  <2>2. n = IF Len(t) <= most THEN Len(t) ELSE most
    BY <2>1
  <2>3. m = IF room <= 0 THEN 0 ELSE IF Len(d) <= room THEN Len(d) ELSE room
    OBVIOUS
  <2>4. l = IF Len(t) + Len(d) <= most THEN Len(t) + Len(d) ELSE most
    BY <2>1
  <2>5. room = most - n
    BY <2>1 DEF room
  <2> HIDE DEF n, m, l, a, b, c
  <2>6. CASE Len(t) <= most
    <3>1. n = Len(t) /\ room = most - Len(t) /\ room >= 0
      BY <2>1, <2>2, <2>5, <2>6
    <3>2. m = IF Len(d) <= room THEN Len(d) ELSE room
      BY <2>1, <2>3, <3>1
    <3>3. l = n + m
      BY <2>1, <2>4, <2>6, <3>1, <3>2
    <3> QED BY <2>1, <3>1, <3>3
  <2>7. CASE ~(Len(t) <= most)
    <3>1. n = most /\ room = 0 /\ m = 0 /\ l = most
      BY <2>1, <2>2, <2>3, <2>4, <2>5, <2>7
    <3> QED BY <3>1
  <2> QED BY <2>6, <2>7
<1> HIDE DEF b, c, n, m, l
<1>7. a \o b \in Seq(S) /\ Len(a \o b) = n + m /\ \A i \in 1..(n + m) : (a \o b)[i] = IF i <= n THEN a[i] ELSE b[i - n]
  <2>1. /\ a \o b \in Seq(S) /\ Len(a \o b) = Len(a) + Len(b)
        /\ \A i \in 1..(Len(a) + Len(b)) : (a \o b)[i] = IF i <= Len(a) THEN a[i] ELSE b[i - Len(a)]
    BY <1>1, <1>3, ConcatProperties
  <2> QED BY <1>1, <1>3, <2>1
<1>8. \A i \in 1..(n + m) : (a \o b)[i] = c[i]
  <2> SUFFICES ASSUME NEW i \in 1..(n + m) PROVE (a \o b)[i] = c[i]
    OBVIOUS
  <2>1. i \in 1..l /\ i \in 1..(Len(t) + Len(d))
    BY <1>1, <1>3, <1>6
  <2>2. CASE i <= n
    <3>1. i \in 1..n /\ i <= Len(t)
      BY <1>1, <2>2
    <3> QED BY <1>1, <1>4, <1>5, <1>7, <2>1, <2>2, <3>1
  <2>3. CASE ~(i <= n)
    <3>1. i - n \in 1..m /\ n = Len(t) /\ ~(i <= Len(t))
      BY <1>1, <1>3, <1>6, <2>3
    <3>2. (a \o b)[i] = d[i - n]
      BY <1>3, <1>7, <2>3, <3>1
    <3>3. c[i] = d[i - Len(t)]
      BY <1>4, <1>5, <2>1, <3>1
    <3> QED BY <3>1, <3>2, <3>3
  <2> QED BY <2>2, <2>3
<1>9. a \o b = c
  BY <1>5, <1>6, <1>7, <1>8, SeqEqual
<1> QED BY <1>9 DEF a, b, c, room

\* A tool more, if there is room for one.
LEMMA FitTool ==
    ASSUME NEW S, NEW t \in Seq(S), NEW d \in Seq(S), Len(d) <= 1, NEW most \in Nat
    PROVE  (IF Len(FirstFit(t, most)) < most THEN FirstFit(t, most) \o d ELSE FirstFit(t, most)) = FirstFit(t \o d, most)
<1> DEFINE a == FirstFit(t, most)
           room == most - Len(a)
           b == FirstFit(d, room)
<1>1. a \in Seq(S) /\ Len(a) \in Nat /\ Len(a) <= most
  <2>1. LET n == IF most <= 0 THEN 0 ELSE IF Len(t) <= most THEN Len(t) ELSE most
        IN a \in Seq(S) /\ Len(a) = n /\ n \in Nat
    BY FitIs
  <2> HIDE DEF a
  <2> QED BY <2>1
<1>2. a \o b = FirstFit(t \o d, most)
  BY FitJoins
<1> HIDE DEF a
<1>3. room \in Int
  BY <1>1
<1> HIDE DEF room
<1>4. LET n == IF room <= 0 THEN 0 ELSE IF Len(d) <= room THEN Len(d) ELSE room
      IN b \in Seq(S) /\ Len(b) = n /\ n \in Nat /\ Len(d) \in Nat /\ \A i \in 1..n : b[i] = d[i]
  BY <1>3, FitIs
<1> HIDE DEF b
<1>5. CASE Len(a) < most
  <2>1. room >= 1
    BY <1>1, <1>5 DEF room
  <2>2. Len(b) = Len(d) /\ \A i \in 1..Len(b) : b[i] = d[i]
    BY <1>3, <1>4, <2>1
  <2>3. b = d
    BY <1>4, <2>2, SeqEqual
  <2> QED BY <1>2, <1>5, <2>3 DEF a
<1>6. CASE ~(Len(a) < most)
  <2>1. room <= 0
    BY <1>1, <1>6 DEF room
  <2>2. Len(b) = 0
    BY <1>4, <2>1
  <2>3. b = <<>>
    BY <1>4, <2>2, EmptySeq
  <2>4. a \o b = a
    BY <1>1, <2>3, ConcatEmptySeq
  <2> QED BY <1>2, <1>6, <2>4 DEF a
<1> QED BY <1>5, <1>6

-----------------------------------------------------------------------------
(***************************************************************************)
(* The text, payload by payload.                                           *)
(***************************************************************************)
AccumStep(p, f, i) == IF i = 0 THEN <<>> ELSE f[i - 1] \o Clamp(DeltaOf(p[i]), MaxTextAccum - Bytes(f[i - 1]))
AccumOf(p) == CHOOSE f : f = [i \in 0..Len(p) |-> AccumStep(p, f, i)]

\* The text, as a function of the payloads so far.
LEMMA AccumulatedIs == \A p : Accumulated(p) = AccumOf(p)[Len(p)]
BY DEF Accumulated, AccumOf, AccumStep, DeltaOf

\* Its equation has a solution.
LEMMA AccumExists ==
    ASSUME NEW p, Len(p) \in Nat
    PROVE  \A i \in 0..Len(p) : AccumOf(p)[i] = AccumStep(p, AccumOf(p), i)
<1> DEFINE Good(n, f) == f = [i \in 0..n |-> AccumStep(p, f, i)]
           Bad == {n \in Nat : ~ \E f : Good(n, f)}
<1>1. ASSUME NEW n \in Bad, \A i \in Bad : n <= i PROVE FALSE
  <2>1. CASE n = 0
    <3>1. Good(0, [i \in 0..0 |-> <<>>])
      BY DEF AccumStep
    <3> QED BY <2>1, <3>1
  <2>2. CASE n # 0
    <3>1. n \in Nat /\ n - 1 \in Nat
      BY <2>2
    <3>2. n - 1 \notin Bad
      <4> HIDE DEF Bad
      <4> QED BY <1>1, <3>1
    <3>3. PICK f : Good(n - 1, f)
      BY <3>1, <3>2
    <3> DEFINE h == [i \in 0..n |-> AccumStep(p, f, i)]
    <3>4. \A i \in 0..(n - 1) : i \in 0..n /\ h[i] = f[i]
      <4>1. \A i \in 0..(n - 1) : i \in 0..n
        BY <3>1
      <4> QED BY <3>3, <4>1
    <3>5. \A i \in 0..n : AccumStep(p, f, i) = AccumStep(p, h, i)
      <4> SUFFICES ASSUME NEW i \in 0..n, i # 0 PROVE AccumStep(p, f, i) = AccumStep(p, h, i)
        BY DEF AccumStep
      <4>1. i - 1 \in 0..(n - 1)
        BY <3>1
      <4>2. f[i - 1] = h[i - 1]
        BY <3>4, <4>1
      <4> HIDE DEF h
      <4> QED BY <4>2 DEF AccumStep
    <3>6. Good(n, h)
      BY <3>5
    <3> QED BY <3>1, <3>6
  <2> QED BY <2>1, <2>2
<1>2. Bad = {}
  <2>1. Bad \in SUBSET Nat
    OBVIOUS
  <2> HIDE DEF Bad
  <2> QED BY <1>1, <2>1, LeastOfNat
<1>3. PICK f : Good(Len(p), f)
  BY <1>2
<1> DEFINE F == AccumOf(p)
<1>4. F = [i \in 0..Len(p) |-> AccumStep(p, F, i)]
  BY <1>3 DEF AccumOf
<1> HIDE DEF F
<1>5. \A i \in 0..Len(p) : F[i] = AccumStep(p, F, i)
  BY <1>4, Zenon
<1> QED BY <1>5 DEF F

\* What a payload adds is a text, and without a delta it is none.
LEMMA ClampTyped ==
    ASSUME NEW d \in Words, NEW room \in Int
    PROVE  Clamp(d, room) \in Words /\ Clamp(<<>>, room) = <<>>
<1>1. CASE room <= 0
  BY <1>1, BytesOfOne DEF Clamp
<1>2. CASE ~(room <= 0)
  <2>1. room \in Nat /\ Bytes(<<>>) = 0
    BY <1>2, BytesOfOne
  <2>2. FirstBytes(d, room) \in Words
    BY <2>1, FirstBytesTyped
  <2> QED BY <2>1, <2>2, BytesOfOne DEF Clamp
<1> QED BY <1>1, <1>2

\* What a line says is a text.
LEMMA DeltaTyped == \A l \in EventLine : DeltaOf(l) \in Words
<1> SUFFICES ASSUME NEW l \in EventLine PROVE DeltaOf(l) \in Words
  OBVIOUS
<1>1. DeltaOf(l) \in Seq(STRING)
  BY LineSays DEF DeltaOf
<1>2. \A t \in Seq(STRING) : t \in Words
  <2> SUFFICES ASSUME NEW t \in Seq(STRING) PROVE t \in Words
    OBVIOUS
  <2>1. STRING \subseteq Token
    BY DEF Token
  <2> HIDE DEF Token
  <2>2. Len(t) \in Nat /\ t \in [1..Len(t) -> STRING]
    BY LenProperties
  <2>3. t \in [1..Len(t) -> Token]
    BY <2>1, <2>2
  <2> QED BY <2>2, <2>3, IsASeq DEF Words
<1> QED BY <1>1, <1>2

\* The text so far is one.
LEMMA AccumTyped ==
    ASSUME NEW p \in Seq(EventLine)
    PROVE  \A i \in 0..Len(p) : AccumOf(p)[i] \in Words
<1> DEFINE F == AccumOf(p)
           Bad == {i \in 0..Len(p) : F[i] \notin Words}
<1>1. Len(p) \in Nat /\ \A i \in 1..Len(p) : p[i] \in EventLine
  BY LenProperties, ElementOfSeq
<1>2. \A i \in 0..Len(p) : F[i] = AccumStep(p, F, i)
  BY <1>1, AccumExists
<1> HIDE DEF F
<1>3. ASSUME NEW i \in Bad, \A j \in Bad : i <= j PROVE FALSE
  <2>1. CASE i = 0
    BY <1>1, <1>2, <1>3, <2>1, BytesOfOne DEF AccumStep
  <2>2. CASE i # 0
    <3>1. i \in 1..Len(p) /\ i - 1 \in 0..Len(p) /\ ~(i <= i - 1)
      BY <1>1, <2>2
    <3>2. F[i - 1] \in Words
      BY <1>3, <3>1
    <3> DEFINE a == F[i - 1]
               room == MaxTextAccum - Bytes(a)
               c == Clamp(DeltaOf(p[i]), room)
    <3>3. a \in Words /\ room \in Int
      BY <3>2, WeightsTyped, StreamAssumption
    <3> HIDE DEF room
    <3>4. c \in Words
      BY <1>1, <3>1, <3>3, DeltaTyped, ClampTyped
    <3>5. F[i] = a \o c
      BY <1>2, <2>2, <3>1 DEF AccumStep, room
    <3> HIDE DEF a, c
    <3> QED BY <3>3, <3>4, <3>5, BytesConcat
  <2> QED BY <2>1, <2>2
<1>4. Bad \in SUBSET Nat
  BY <1>1
<1>5. Bad = {}
  <2> HIDE DEF Bad
  <2> QED BY <1>3, <1>4, LeastOfNat
<1> QED BY <1>5 DEF F

\* A payload more extends the text by what of its delta fits.
LEMMA AccumGrows ==
    ASSUME NEW p \in Seq(EventLine), NEW x \in EventLine
    PROVE  /\ Accumulated(Append(p, x)) = Accumulated(p) \o Clamp(DeltaOf(x), MaxTextAccum - Bytes(Accumulated(p)))
           /\ Accumulated(p) \in Words
<1> DEFINE n == Len(p)
           q == Append(p, x)
           F == AccumOf(p)
           G == AccumOf(q)
           Bad == {i \in 0..n : F[i] # G[i]}
<1>1. n \in Nat
  BY LenProperties
<1>2. q \in Seq(EventLine) /\ Len(q) = n + 1 /\ (\A i \in 1..n : q[i] = p[i]) /\ q[n + 1] = x
  BY AppendProperties
<1> HIDE DEF q
<1>3. \A i \in 0..n : F[i] = AccumStep(p, F, i)
  BY <1>1, AccumExists
<1>4. \A i \in 0..(n + 1) : G[i] = AccumStep(q, G, i)
  <2>1. Len(q) \in Nat
    BY <1>1, <1>2
  <2>2. \A i \in 0..Len(q) : G[i] = AccumStep(q, G, i)
    BY <2>1, AccumExists
  <2> QED BY <1>2, <2>2
<1>5. F[n] \in Words
  BY <1>1, AccumTyped
<1>6. Accumulated(p) = F[n] /\ Accumulated(q) = G[n + 1]
  BY <1>2, AccumulatedIs
<1> HIDE DEF n, F, G
<1>7. ASSUME NEW i \in Bad, \A j \in Bad : i <= j PROVE FALSE
  <2>1. i \in 0..n /\ i \in 0..(n + 1) /\ F[i] # G[i]
    BY <1>1
  <2>2. CASE i = 0
    BY <1>3, <1>4, <2>1, <2>2 DEF AccumStep
  <2>3. CASE i # 0
    <3>1. i \in 1..n /\ i - 1 \in 0..n /\ ~(i <= i - 1)
      BY <1>1, <2>1, <2>3
    <3>2. F[i - 1] = G[i - 1] /\ p[i] = q[i]
      BY <1>2, <1>7, <3>1
    <3> QED BY <1>3, <1>4, <2>1, <2>3, <3>2 DEF AccumStep
  <2> QED BY <2>2, <2>3
<1>8. F[n] = G[n]
  <2>1. Bad \in SUBSET Nat
    BY <1>1
  <2>2. Bad = {}
    <3> HIDE DEF Bad
    <3> QED BY <1>7, <2>1, LeastOfNat
  <2> QED BY <1>1, <2>2
<1>9. n + 1 \in 0..(n + 1) /\ n + 1 # 0 /\ (n + 1) - 1 = n
  BY <1>1
<1>10. G[n + 1] = G[n] \o Clamp(DeltaOf(x), MaxTextAccum - Bytes(G[n]))
  BY <1>2, <1>4, <1>9 DEF AccumStep
<1> QED BY <1>5, <1>6, <1>8, <1>10 DEF q

\* No payload, no text.
LEMMA AccumNone == Accumulated(<<>>) = <<>>
<1> DEFINE z == <<>>
<1>1. Len(z) = 0
  OBVIOUS
<1> HIDE DEF z
<1>2. AccumOf(z)[0] = <<>>
  <2>1. Len(z) \in Nat /\ 0 \in 0..Len(z)
    BY <1>1
  <2>2. AccumOf(z)[0] = AccumStep(z, AccumOf(z), 0)
    BY <2>1, AccumExists
  <2> QED BY <2>2 DEF AccumStep
<1> QED BY <1>1, <1>2, AccumulatedIs DEF z

-----------------------------------------------------------------------------
(***************************************************************************)
(* The lines that count: the short ones, and those kept.                   *)
(***************************************************************************)
Short(l)     == Len(l) <= MaxStreamBuf
CountedAt(q, kept, i) == IF Short(q[i]) \/ i \in kept THEN <<q[i]>> ELSE <<>>
Counted(q, kept) == FlattenSeq([i \in DOMAIN q |-> CountedAt(q, kept, i)])

\* A line more counts if it is short or kept.
LEMMA CountedGrows ==
    ASSUME NEW s \in Seq(RawLine), NEW x \in RawLine, NEW kept, NEW late,
           \A i \in 1..Len(s) : i \in kept <=> i \in late
    PROVE  /\ Counted(s, kept) \in Seq(RawLine)
           /\ Counted(Append(s, x), late) =
                 IF Short(x) \/ Len(s) + 1 \in late THEN Append(Counted(s, kept), x) ELSE Counted(s, kept)
<1> DEFINE n == Len(s)
           q == Append(s, x)
           w == [i \in 1..(n + 1) |-> CountedAt(q, late, i)]
<1>1. n \in Nat /\ DOMAIN s = 1..n /\ \A i \in 1..n : s[i] \in RawLine
  BY LenProperties, ElementOfSeq
<1>2. q \in Seq(RawLine) /\ Len(q) = n + 1 /\ (\A i \in 1..n : q[i] = s[i]) /\ q[n + 1] = x
  BY AppendProperties
<1> HIDE DEF q
<1>3. DOMAIN q = 1..(n + 1) /\ \A i \in 1..(n + 1) : q[i] \in RawLine
  <2>1. DOMAIN q = 1..Len(q) /\ \A i \in 1..Len(q) : q[i] \in RawLine
    BY <1>2, LenProperties, ElementOfSeq
  <2> QED BY <1>2, <2>1
<1>9. \A i \in 1..n : i \in kept <=> i \in late
  OBVIOUS
<1> HIDE DEF n
<1>4. \A i \in 1..(n + 1) : w[i] \in Seq(RawLine) /\ w[i] = CountedAt(q, late, i)
  <2>1. \A i \in 1..(n + 1) : CountedAt(q, late, i) \in Seq(RawLine)
    BY <1>3, SingleOf, Zenon DEF CountedAt
  <2> QED BY <2>1
<1>5. n + 1 \in 1..(n + 1) /\ \A i \in 1..n : i \in 1..(n + 1)
  BY <1>1
<1>6. /\ [i \in 1..(n + 1) |-> w[i]] = [i \in DOMAIN q |-> CountedAt(q, late, i)]
      /\ [i \in 1..n |-> w[i]] = [i \in DOMAIN s |-> CountedAt(s, kept, i)]
      /\ w[n + 1] = IF Short(x) \/ n + 1 \in late THEN <<x>> ELSE <<>>
  <2>1. \A i \in 1..n : CountedAt(q, late, i) = CountedAt(s, kept, i)
    BY <1>2, <1>9, Zenon DEF CountedAt
  <2>2. w[n + 1] = CountedAt(q, late, n + 1)
    BY <1>4, <1>5
  <2>3. \A i \in 1..n : w[i] = CountedAt(s, kept, i)
    BY <1>4, <1>5, <2>1
  <2>4. w[n + 1] = IF Short(x) \/ n + 1 \in late THEN <<x>> ELSE <<>>
    BY <1>2, <2>2, Zenon DEF CountedAt
  <2> HIDE DEF w
  <2>5. [i \in 1..n |-> w[i]] = [i \in DOMAIN s |-> CountedAt(s, kept, i)]
    BY <1>1, <2>3
  <2>6. [i \in 1..(n + 1) |-> w[i]] = [i \in DOMAIN q |-> CountedAt(q, late, i)]
    BY <1>3, <1>4
  <2> QED BY <2>4, <2>5, <2>6
<1> HIDE DEF w
<1>7. /\ FlattenSeq([i \in 1..(n + 1) |-> w[i]]) = FlattenSeq([i \in 1..n |-> w[i]]) \o w[n + 1]
      /\ FlattenSeq([i \in 1..n |-> w[i]]) \in Seq(RawLine)
  <2>1. \A i \in 1..(n + 1) : w[i] \in Seq(RawLine)
    BY <1>4
  <2> QED BY <1>1, <2>1, FlattenGrows
<1> DEFINE old == Counted(s, kept)
           new == Counted(q, late)
<1>8. new = old \o w[n + 1] /\ old \in Seq(RawLine)
  BY <1>6, <1>7, Zenon DEF Counted
<1> HIDE DEF old, new
<1>10. old \o <<x>> = Append(old, x) /\ old \o <<>> = old
  BY <1>8, AppendIsConcat, ConcatEmptySeq
<1>11. new = IF Short(x) \/ n + 1 \in late THEN Append(old, x) ELSE old
  BY <1>6, <1>8, <1>10, Zenon
<1> QED BY <1>8, <1>11, Zenon DEF old, new, q, n

-----------------------------------------------------------------------------
(***************************************************************************)
(* What the capture has heard.                                             *)
(***************************************************************************)
Capture(l, d, t, u, n) == [lineBuf |-> l, lastData |-> d, textAccum |-> t, usageJSON |-> u, toolNames |-> n]
SaysOf(t, n, counted) ==
    /\ t = Accumulated(Payloads(counted))
    /\ n = FirstFit(ToolsIn(Payloads(counted)), MaxToolNames)
LastsOf(d, u, all) ==
    /\ d = IF Payloads(all) = <<>> THEN NoData ELSE [line |-> Last(Payloads(all))]
    /\ u = IF MentionsIn(Payloads(all)) = <<>> THEN NoData ELSE [line |-> Last(MentionsIn(Payloads(all)))]

\* The capture after a line.
NewText(t, line) == IF HasPayload(line) THEN t \o Clamp(DeltaOf(line), MaxTextAccum - Bytes(t)) ELSE t
NewTools(n, line) == IF HasPayload(line) /\ Len(n) < MaxToolNames THEN n \o ToolOf(line) ELSE n
NewData(d, line) == IF HasPayload(line) THEN [line |-> line] ELSE d
NewUsage(u, line) == IF HasPayload(line) /\ MentionsUsage(line) THEN [line |-> line] ELSE u

\* The fields of a capture.
LEMMA CaptureHas ==
    \A l, d, t, u, n :
       /\ Capture(l, d, t, u, n).lineBuf = l /\ Capture(l, d, t, u, n).lastData = d
       /\ Capture(l, d, t, u, n).textAccum = t /\ Capture(l, d, t, u, n).usageJSON = u
       /\ Capture(l, d, t, u, n).toolNames = n
BY DEF Capture

\* One complete line, field by field.
LEMMA EventIs ==
    \A l, d, t, u, n, line : ProcessEvent(Capture(l, d, t, u, n), line) =
        Capture(l, NewData(d, line), NewText(t, line), NewUsage(u, line), NewTools(n, line))
<1> SUFFICES ASSUME NEW l, NEW d, NEW t, NEW u, NEW n, NEW line
             PROVE  ProcessEvent(Capture(l, d, t, u, n), line) =
                      Capture(l, NewData(d, line), NewText(t, line), NewUsage(u, line), NewTools(n, line))
  OBVIOUS
<1>1. CASE ~HasPayload(line)
  BY <1>1, Zenon DEF ProcessEvent, NewData, NewText, NewUsage, NewTools
<1>2. CASE HasPayload(line)
  <2> DEFINE delta == Clamp(DeltaOf(line), MaxTextAccum - Bytes(t))
             name == ToolOf(line)
             more == IF Len(n) < MaxToolNames THEN n \o name ELSE n
             usage == IF MentionsUsage(line) THEN [line |-> line] ELSE u
             last == [line |-> line]
             s == Capture(l, d, t, u, n)
  <2>1. s.lastData = d /\ s.textAccum = t /\ s.usageJSON = u /\ s.toolNames = n
    BY CaptureHas
  <2>2. ProcessEvent(s, line) =
          [s EXCEPT !.lastData = last, !.textAccum = t \o delta, !.toolNames = more, !.usageJSON = usage]
    BY <1>2, <2>1, Zenon DEF ProcessEvent, DeltaOf, ToolOf
  <2>3. NewData(d, line) = last /\ NewText(t, line) = t \o delta /\ NewUsage(u, line) = usage /\ NewTools(n, line) = more
    BY <1>2, Zenon DEF NewData, NewText, NewUsage, NewTools
  <2> HIDE DEF delta, name, more, usage, last
  <2> DEFINE text == t \o delta
  <2> HIDE DEF text
  <2>4. [s EXCEPT !.lastData = last] = Capture(l, last, t, u, n)
    BY DEF Capture
  <2>5. [Capture(l, last, t, u, n) EXCEPT !.textAccum = text] = Capture(l, last, text, u, n)
    BY DEF Capture
  <2>6. [Capture(l, last, text, u, n) EXCEPT !.toolNames = more] = Capture(l, last, text, u, more)
    BY DEF Capture
  <2>7. [Capture(l, last, text, u, more) EXCEPT !.usageJSON = usage] = Capture(l, last, text, usage, more)
    BY DEF Capture
  <2>8. [s EXCEPT !.lastData = last, !.textAccum = text, !.toolNames = more, !.usageJSON = usage]
          = Capture(l, last, text, usage, more)
    BY <2>4, <2>5, <2>6, <2>7, Zenon
  <2> QED BY <2>2, <2>3, <2>8, Zenon DEF text
<1> QED BY <1>1, <1>2

\* A unit is added to the partial line.
LEMMA UnitAdds ==
    ASSUME NEW l, NEW d, NEW t, NEW u, NEW n, NEW x, x # NewLine
    PROVE  ProcessUnit(Capture(l, d, t, u, n), x) = Capture(Append(l, x), d, t, u, n)
<1> DEFINE s == Capture(l, d, t, u, n)
           a == Append(l, x)
<1>1. s.lineBuf = l
  BY CaptureHas
<1>2. ProcessUnit(s, x) = [s EXCEPT !.lineBuf = a]
  BY <1>1, Zenon DEF ProcessUnit
<1> HIDE DEF a
<1>3. [s EXCEPT !.lineBuf = a] = Capture(a, d, t, u, n)
  BY DEF Capture
<1> QED BY <1>2, <1>3, Zenon DEF a

\* A newline ends it: it counts unless it is too long.
LEMMA UnitEnds ==
    ASSUME NEW l, NEW d, NEW t, NEW u, NEW n
    PROVE  ProcessUnit(Capture(l, d, t, u, n), NewLine) =
             IF Len(Bare(l)) > MaxRetainedLine THEN Capture(<<>>, d, t, u, n)
             ELSE Capture(<<>>, NewData(d, Bare(l)), NewText(t, Bare(l)), NewUsage(u, Bare(l)), NewTools(n, Bare(l)))
<1> DEFINE s == Capture(l, d, t, u, n)
           line == IF s.lineBuf # <<>> /\ Last(s.lineBuf) = Return THEN SubSeq(s.lineBuf, 1, Len(s.lineBuf) - 1)
                   ELSE s.lineBuf
           ended == [s EXCEPT !.lineBuf = <<>>]
<1>1. s.lineBuf = l
  BY CaptureHas
<1>2. line = Bare(l)
  BY <1>1, Zenon DEF Bare, Front
<1>3. ended = Capture(<<>>, d, t, u, n)
  BY DEF Capture
<1>4. ProcessUnit(s, NewLine) = IF Len(line) > MaxRetainedLine THEN ended ELSE ProcessEvent(ended, line)
  BY Zenon DEF ProcessUnit
<1> HIDE DEF line, ended, s
<1>5. ProcessUnit(s, NewLine) = IF Len(Bare(l)) > MaxRetainedLine THEN ended ELSE ProcessEvent(ended, Bare(l))
  BY <1>2, <1>4, Zenon
<1>6. ProcessEvent(Capture(<<>>, d, t, u, n), Bare(l)) =
        Capture(<<>>, NewData(d, Bare(l)), NewText(t, Bare(l)), NewUsage(u, Bare(l)), NewTools(n, Bare(l)))
  <2> DEFINE b == Bare(l)
             z == <<>>
  <2> HIDE DEF b, z
  <2>1. ProcessEvent(Capture(z, d, t, u, n), b) = Capture(z, NewData(d, b), NewText(t, b), NewUsage(u, b), NewTools(n, b))
    BY EventIs
  <2> QED BY <2>1, Zenon DEF b, z
<1>7. ProcessUnit(s, NewLine) =
        IF Len(Bare(l)) > MaxRetainedLine THEN Capture(<<>>, d, t, u, n) ELSE ProcessEvent(Capture(<<>>, d, t, u, n), Bare(l))
  BY <1>3, <1>5, Zenon
<1> QED BY <1>6, <1>7, Zenon DEF s

\* What a line says is added to what the lines before it said.
LEMMA SaysGrows ==
    ASSUME NEW c \in Seq(RawLine), NEW x \in RawLine, NEW t, NEW n, SaysOf(t, n, c)
    PROVE  SaysOf(NewText(t, Bare(x)), NewTools(n, Bare(x)), Append(c, x))
<1> DEFINE p == Payloads(c)
           b == Bare(x)
<1>1. p \in Seq(EventLine) /\ b \in EventLine /\ Payloads(Append(c, x)) = p \o PayloadOf(x)
  BY PayloadsGrow
<1>2. t = Accumulated(p) /\ n = FirstFit(ToolsIn(p), MaxToolNames)
  BY DEF SaysOf
<1>3. MaxTextAccum \in Nat /\ MaxToolNames \in Nat
  BY StreamAssumption
<1>4. CASE ~HasPayload(b)
  <2>1. PayloadOf(x) = <<>> /\ NewText(t, b) = t /\ NewTools(n, b) = n
    BY <1>4, Zenon DEF PayloadOf, NewText, NewTools
  <2> HIDE DEF p, b
  <2>2. Payloads(Append(c, x)) = p
    BY <1>1, <2>1, ConcatEmptySeq
  <2> QED BY <1>2, <2>1, <2>2, Zenon DEF SaysOf, b
<1>5. CASE HasPayload(b)
  <2>1. /\ PayloadOf(x) = <<b>>
        /\ NewText(t, b) = t \o Clamp(DeltaOf(b), MaxTextAccum - Bytes(t))
        /\ NewTools(n, b) = IF Len(n) < MaxToolNames THEN n \o ToolOf(b) ELSE n
    BY <1>5, Zenon DEF PayloadOf, NewText, NewTools
  <2> HIDE DEF p, b
  <2>2. Payloads(Append(c, x)) = Append(p, b)
    BY <1>1, <2>1, AppendIsConcat
  <2>3. Accumulated(Append(p, b)) = Accumulated(p) \o Clamp(DeltaOf(b), MaxTextAccum - Bytes(Accumulated(p)))
    BY <1>1, AccumGrows
  <2>4. ToolsIn(Append(p, b)) = ToolsIn(p) \o ToolOf(b) /\ ToolsIn(p) \in Seq(STRING) /\ ToolOf(b) \in Seq(STRING)
        /\ Len(ToolOf(b)) <= 1
    BY <1>1, ToolsGrow
  <2> DEFINE T == ToolsIn(p)
             f == ToolOf(b)
  <2> HIDE DEF T, f
  <2>5. (IF Len(FirstFit(T, MaxToolNames)) < MaxToolNames THEN FirstFit(T, MaxToolNames) \o f ELSE FirstFit(T, MaxToolNames))
          = FirstFit(T \o f, MaxToolNames)
    BY <1>3, <2>4, FitTool DEF T, f
  <2>6. NewText(t, b) = Accumulated(Append(p, b))
    BY <1>2, <2>1, <2>3, Zenon
  <2>7. NewTools(n, b) = FirstFit(ToolsIn(Append(p, b)), MaxToolNames)
    BY <1>2, <2>1, <2>4, <2>5, Zenon DEF T, f
  <2> QED BY <2>2, <2>6, <2>7, Zenon DEF SaysOf, b
<1> QED BY <1>4, <1>5

\* The last payload, and the last that mentions usage, likewise.
LEMMA LastsGrow ==
    ASSUME NEW c \in Seq(RawLine), NEW x \in RawLine, NEW d, NEW u, LastsOf(d, u, c)
    PROVE  LastsOf(NewData(d, Bare(x)), NewUsage(u, Bare(x)), Append(c, x))
<1> DEFINE p == Payloads(c)
           b == Bare(x)
<1>1. p \in Seq(EventLine) /\ b \in EventLine /\ Payloads(Append(c, x)) = p \o PayloadOf(x)
  BY PayloadsGrow
<1>2. /\ d = IF p = <<>> THEN NoData ELSE [line |-> Last(p)]
      /\ u = IF MentionsIn(p) = <<>> THEN NoData ELSE [line |-> Last(MentionsIn(p))]
  BY Zenon DEF LastsOf
<1>3. CASE ~HasPayload(b)
  <2>1. PayloadOf(x) = <<>> /\ NewData(d, b) = d /\ NewUsage(u, b) = u
    BY <1>3, Zenon DEF PayloadOf, NewData, NewUsage
  <2> HIDE DEF p, b
  <2>2. Payloads(Append(c, x)) = p
    BY <1>1, <2>1, ConcatEmptySeq
  <2> QED BY <1>2, <2>1, <2>2, Zenon DEF LastsOf, b
<1>4. CASE HasPayload(b)
  <2>1. /\ PayloadOf(x) = <<b>> /\ NewData(d, b) = [line |-> b]
        /\ NewUsage(u, b) = IF MentionsUsage(b) THEN [line |-> b] ELSE u
        /\ MentionOf(b) = IF MentionsUsage(b) THEN <<b>> ELSE <<>>
    BY <1>4, Zenon DEF PayloadOf, NewData, NewUsage, MentionOf
  <2> HIDE DEF p, b
  <2>2. Payloads(Append(c, x)) = Append(p, b)
    BY <1>1, <2>1, AppendIsConcat
  <2>3. ASSUME NEW r \in Seq(EventLine) PROVE Append(r, b) # <<>> /\ Last(Append(r, b)) = b
    <3>1. Append(r, b) # <<>> /\ Len(Append(r, b)) = Len(r) + 1 /\ Append(r, b)[Len(r) + 1] = b
      BY <1>1, AppendProperties
    <3> QED BY <3>1, Zenon DEF Last
  <2>4. MentionsIn(Append(p, b)) = MentionsIn(p) \o MentionOf(b) /\ MentionsIn(p) \in Seq(EventLine)
    BY <1>1, MentionsGrow
  <2> DEFINE m == MentionsIn(p)
  <2> HIDE DEF m
  <2>5. m \in Seq(EventLine)
    BY <2>4 DEF m
  <2>6. m \o <<b>> = Append(m, b) /\ m \o <<>> = m
    BY <1>1, <2>5, AppendIsConcat, ConcatEmptySeq
  <2>7. MentionsIn(Append(p, b)) = IF MentionsUsage(b) THEN Append(m, b) ELSE m
    BY <2>1, <2>4, <2>6, Zenon DEF m
  <2>8. NewUsage(u, b) = IF MentionsIn(Append(p, b)) = <<>> THEN NoData ELSE [line |-> Last(MentionsIn(Append(p, b)))]
    <3>1. CASE MentionsUsage(b)
      BY <2>1, <2>3, <2>5, <2>7, <3>1, Zenon
    <3>2. CASE ~MentionsUsage(b)
      BY <1>2, <2>1, <2>7, <3>2, Zenon DEF m
    <3> QED BY <3>1, <3>2
  <2>9. NewData(d, b) = IF Append(p, b) = <<>> THEN NoData ELSE [line |-> Last(Append(p, b))]
    BY <1>1, <2>1, <2>3, Zenon
  <2> QED BY <2>2, <2>8, <2>9, Zenon DEF LastsOf, b
<1> QED BY <1>3, <1>4

\* A line whose beginning was dropped says nothing.
LEMMA SilentSays ==
    ASSUME NEW c \in Seq(RawLine), NEW t, NEW n, SaysOf(t, n, c), NEW b \in EventLine, b # <<>> => DocOfLine(b) = Nothing
    PROVE  NewText(t, b) = t /\ NewTools(n, b) = n
<1>1. CASE ~HasPayload(b)
  BY <1>1, Zenon DEF NewText, NewTools
<1>2. CASE HasPayload(b)
  <2>1. DocOfLine(b) = Nothing
    BY <1>2, Zenon DEF HasPayload
  <2>2. DeltaOf(b) = <<>> /\ ToolOf(b) = <<>>
    BY <2>1, NothingSaid, Zenon DEF DeltaOf, ToolOf
  <2>3. t \in Words /\ n \in Seq(STRING)
    <3> DEFINE p == Payloads(c)
    <3>1. p \in Seq(EventLine)
      <4>1. <<>> \in RawLine
        BY EmptySeq, Zenon DEF RawLine, Bare, EventLine
      <4> QED BY <4>1, PayloadsGrow
    <3>2. t = Accumulated(p) /\ n = FirstFit(ToolsIn(p), MaxToolNames)
      BY DEF SaysOf
    <3> HIDE DEF p
    <3>3. Accumulated(p) \in Words /\ ToolsIn(p) \in Seq(STRING)
      BY <2>1, <3>1, AccumGrows, ToolsGrow
    <3>4. MaxToolNames \in Int
      BY StreamAssumption
    <3> QED BY <3>2, <3>3, <3>4, FitIs
  <2>4. Clamp(<<>>, MaxTextAccum - Bytes(t)) = <<>>
    BY <2>3, WeightsTyped, StreamAssumption, BytesOfOne, ClampTyped
  <2>5. t \o <<>> = t /\ n \o <<>> = n
    BY <2>3, ConcatEmptySeq DEF Words
  <2> QED BY <1>2, <2>2, <2>4, <2>5, Zenon DEF NewText, NewTools
<1> QED BY <1>1, <1>2

\* What the capture tells of the lines so far: of those at the limit some were
\* kept; if all were short, the last payloads are known too.
AtLimit(q) == {j \in DOMAIN q : Len(q[j]) > MaxStreamBuf /\ Len(Bare(q[j])) <= MaxStreamBuf}
AllShort(q) == \A j \in DOMAIN q : Short(q[j])
Tells(q, d, t, u, n) ==
    /\ \E kept \in SUBSET AtLimit(q) : SaysOf(t, n, Counted(q, kept))
    /\ AllShort(q) => LastsOf(d, u, q)

\* A sequence with one element more.
LEMMA OneMore ==
    ASSUME NEW S, NEW q \in Seq(S), NEW x \in S
    PROVE  /\ Append(q, x) \in Seq(S) /\ Len(q) \in Nat /\ DOMAIN q = 1..Len(q)
           /\ DOMAIN Append(q, x) = 1..(Len(q) + 1) /\ Len(q) + 1 \in 1..(Len(q) + 1) /\ Len(q) + 1 \notin 1..Len(q)
           /\ Append(q, x)[Len(q) + 1] = x
           /\ \A i \in 1..Len(q) : i \in 1..(Len(q) + 1) /\ Append(q, x)[i] = q[i]
<1>1. Len(q) \in Nat /\ DOMAIN q = 1..Len(q)
  BY LenProperties
<1>2. Append(q, x) \in Seq(S) /\ Len(Append(q, x)) = Len(q) + 1
      /\ (\A i \in 1..Len(q) : Append(q, x)[i] = q[i]) /\ Append(q, x)[Len(q) + 1] = x
  BY AppendProperties
<1>3. DOMAIN Append(q, x) = 1..(Len(q) + 1)
  BY <1>2, LenProperties
<1>4. Len(q) + 1 \in 1..(Len(q) + 1) /\ Len(q) + 1 \notin 1..Len(q) /\ \A i \in 1..Len(q) : i \in 1..(Len(q) + 1)
  BY <1>1
<1> QED BY <1>1, <1>2, <1>3, <1>4, Zenon

\* A long line is dropped, and what follows may have any last payload.
LEMMA LongTells ==
    ASSUME NEW q \in Seq(RawLine), NEW x \in RawLine, ~Short(x), NEW d, NEW t, NEW u, NEW n, Tells(q, d, t, u, n), NEW e, NEW v
    PROVE  Tells(Append(q, x), e, t, v, n)
<1> DEFINE m == Len(q)
           r == Append(q, x)
<1>1. /\ m \in Nat /\ DOMAIN q = 1..m /\ DOMAIN r = 1..(m + 1) /\ m + 1 \in 1..(m + 1) /\ m + 1 \notin 1..m
      /\ r[m + 1] = x /\ \A i \in 1..m : i \in 1..(m + 1) /\ r[i] = q[i]
  BY OneMore
<1>2. PICK kept \in SUBSET AtLimit(q) : SaysOf(t, n, Counted(q, kept))
  BY DEF Tells
<1>3. kept \in SUBSET (1..m)
  BY <1>1, <1>2 DEF AtLimit
<1>4. Counted(r, kept) = Counted(q, kept)
  <2>1. m + 1 \notin kept
    BY <1>1, <1>3
  <2>2. Counted(r, kept) = IF Short(x) \/ m + 1 \in kept THEN Append(Counted(q, kept), x) ELSE Counted(q, kept)
    BY CountedGrows
  <2> QED BY <2>1, <2>2
<1> HIDE DEF m, r
<1>5. kept \in SUBSET AtLimit(r)
  <2>1. \A j \in kept : j \in 1..m /\ Len(q[j]) > MaxStreamBuf /\ Len(Bare(q[j])) <= MaxStreamBuf
    BY <1>1, <1>2, Zenon DEF AtLimit
  <2>2. \A j \in kept : j \in DOMAIN r /\ r[j] = q[j]
    BY <1>1, <2>1, Zenon
  <2>3. \A j \in kept : j \in AtLimit(r)
    BY <2>1, <2>2, Zenon DEF AtLimit
  <2> QED BY <2>3, Zenon
<1>6. ~AllShort(r)
  BY <1>1, Zenon DEF AllShort
<1> QED BY <1>2, <1>4, <1>5, <1>6, Zenon DEF Tells, r

\* A line that is not too long without its carriage return may count.
LEMMA LineTells ==
    ASSUME NEW q \in Seq(RawLine), NEW x \in RawLine, Len(x) \in Nat, Len(Bare(x)) <= MaxStreamBuf,
           NEW d, NEW t, NEW u, NEW n, Tells(q, d, t, u, n)
    PROVE  Tells(Append(q, x), NewData(d, Bare(x)), NewText(t, Bare(x)), NewUsage(u, Bare(x)), NewTools(n, Bare(x)))
<1> DEFINE m == Len(q)
           r == Append(q, x)
<1>1. /\ m \in Nat /\ DOMAIN q = 1..m /\ DOMAIN r = 1..(m + 1) /\ m + 1 \in 1..(m + 1) /\ m + 1 \notin 1..m
      /\ r[m + 1] = x /\ \A i \in 1..m : i \in 1..(m + 1) /\ r[i] = q[i]
  BY OneMore
<1>2. PICK kept \in SUBSET AtLimit(q) : SaysOf(t, n, Counted(q, kept))
  BY DEF Tells
<1> DEFINE late == IF Short(x) THEN kept ELSE kept \cup {m + 1}
<1>3. \A i \in 1..m : i \in kept <=> i \in late
  BY <1>1
<1>4. Short(x) \/ m + 1 \in late
  OBVIOUS
<1>5. late \in SUBSET AtLimit(r)
  <2> HIDE DEF m, r
  <2>1. \A j \in kept : j \in 1..m /\ Len(q[j]) > MaxStreamBuf /\ Len(Bare(q[j])) <= MaxStreamBuf
    BY <1>1, <1>2, Zenon DEF AtLimit
  <2>2. \A j \in kept : j \in DOMAIN r /\ r[j] = q[j]
    BY <1>1, <2>1, Zenon
  <2>3. \A j \in kept : j \in AtLimit(r)
    BY <2>1, <2>2, Zenon DEF AtLimit
  <2>4. ~Short(x) => m + 1 \in AtLimit(r)
    <3>1. ~Short(x) => Len(x) > MaxStreamBuf
      BY StreamAssumption DEF Short
    <3> QED BY <1>1, <3>1, Zenon DEF AtLimit
  <2> QED BY <2>3, <2>4
<1> HIDE DEF late
<1>6. Counted(q, kept) \in Seq(RawLine) /\ Counted(r, late) = Append(Counted(q, kept), x)
  <2> HIDE DEF m
  <2>1. \A i \in 1..Len(q) : i \in kept <=> i \in late
    BY <1>3, Zenon DEF m
  <2>2. Counted(q, kept) \in Seq(RawLine)
    BY <2>1, CountedGrows
  <2>3. Counted(r, late) = IF Short(x) \/ m + 1 \in late THEN Append(Counted(q, kept), x) ELSE Counted(q, kept)
    BY <2>1, CountedGrows DEF m
  <2> QED BY <1>4, <2>2, <2>3, Zenon
<1> HIDE DEF m, r
<1>7. SaysOf(NewText(t, Bare(x)), NewTools(n, Bare(x)), Append(Counted(q, kept), x))
  BY <1>2, <1>6, SaysGrows
<1>8. AllShort(r) => LastsOf(NewData(d, Bare(x)), NewUsage(u, Bare(x)), r)
  <2> SUFFICES ASSUME AllShort(r) PROVE LastsOf(NewData(d, Bare(x)), NewUsage(u, Bare(x)), r)
    OBVIOUS
  <2>1. AllShort(q)
    BY <1>1, Zenon DEF AllShort
  <2>2. LastsOf(d, u, q)
    BY <2>1 DEF Tells
  <2> QED BY <2>2, LastsGrow DEF r
<1> QED BY <1>5, <1>6, <1>7, <1>8, Zenon DEF Tells, r

\* A line whose beginning was dropped is long, and tells nothing.
LEMMA RemnantTells ==
    ASSUME NEW q \in Seq(RawLine), NEW x \in RawLine, ~Short(x), NEW d, NEW t, NEW u, NEW n, Tells(q, d, t, u, n),
           NEW b \in EventLine, b # <<>> => DocOfLine(b) = Nothing
    PROVE  Tells(Append(q, x), NewData(d, b), NewText(t, b), NewUsage(u, b), NewTools(n, b))
<1>1. NewText(t, b) = t /\ NewTools(n, b) = n
  <2>1. PICK kept \in SUBSET AtLimit(q) : SaysOf(t, n, Counted(q, kept))
    BY DEF Tells
  <2>2. Counted(q, kept) \in Seq(RawLine)
    BY CountedGrows
  <2> QED BY <2>1, <2>2, SilentSays
<1>2. \A e, v : Tells(Append(q, x), e, t, v, n)
  BY LongTells
<1> QED BY <1>1, <1>2, Zenon

\* Nothing is told of no line.
LEMMA NoneTells == Tells(<<>>, NoData, <<>>, NoData, <<>>)
<1>1. Counted(<<>>, {}) = <<>>
  <2>1. [i \in DOMAIN <<>> |-> CountedAt(<<>>, {}, i)] = <<>>
    OBVIOUS
  <2> QED BY <2>1, FlattenNone, Zenon DEF Counted
<1>2. \A most \in Nat : FirstFit(<<>>, most) = <<>>
  <2> SUFFICES ASSUME NEW most \in Nat PROVE FirstFit(<<>>, most) = <<>>
    OBVIOUS
  <2>1. most \in Int /\ <<>> \in Seq(STRING) /\ Len(<<>>) = 0
    BY EmptySeq
  <2>2. FirstFit(<<>>, most) \in Seq(STRING) /\ Len(FirstFit(<<>>, most)) = 0
    BY <2>1, FitIs
  <2> QED BY <2>2, EmptySeq
<1>3. SaysOf(<<>>, <<>>, <<>>)
  BY <1>2, NoneSays, AccumNone, StreamAssumption, Zenon DEF SaysOf
<1>4. LastsOf(NoData, NoData, <<>>)
  BY NoneSays, Zenon DEF LastsOf
<1>5. {} \in SUBSET AtLimit(<<>>)
  OBVIOUS
<1> QED BY <1>1, <1>3, <1>4, <1>5, Zenon DEF Tells

\* The partial line carried after k units: from the beginning of the line, or
\* from later on if that much of it was too long.
Partial(units, k, l) ==
    \E i \in StartOf(units, k + 1)..(k + 1) :
       l = SubSeq(units, i, k) /\ (i > StartOf(units, k + 1) => i - StartOf(units, k + 1) > MaxStreamBuf)
Heard(units, k, s) ==
    \E l, d, t, u, n :
       s = Capture(l, d, t, u, n) /\ Partial(units, k, l) /\ Tells(LinesTo(units, k), d, t, u, n)

\* A unit more.
LEMMA UnitHeard ==
    ASSUME NEW units, IsStream(units), NEW k \in 0..(Len(units) - 1), NEW s, Heard(units, k, s)
    PROVE  Heard(units, k + 1, ProcessUnit(s, units[k + 1]))
<1> DEFINE x == units[k + 1]
           st == StartOf(units, k + 1)
           q == LinesTo(units, k)
           L == SubSeq(units, st, k)
<1>1. units \in Seq(Unit) /\ Len(units) \in Nat /\ k \in Nat /\ k + 1 \in Nat \ {0} /\ k + 1 \in 1..Len(units)
      /\ k \in 0..Len(units)
  <2>1. units \in Seq(Unit) /\ Len(units) \in Nat
    BY LenProperties, Zenon DEF IsStream
  <2> QED BY <2>1
<1>2. PICK l, d, t, u, n : s = Capture(l, d, t, u, n) /\ Partial(units, k, l) /\ Tells(q, d, t, u, n)
  BY Zenon DEF Heard
<1>3. PICK i \in st..(k + 1) : l = SubSeq(units, i, k) /\ (i > st => i - st > MaxStreamBuf)
  BY <1>2, Zenon DEF Partial
<1>4. /\ st \in 1..(k + 1) /\ \A j \in st..k : units[j] # NewLine
      /\ StartOf(units, k + 2) = IF x = NewLine THEN k + 2 ELSE st
  <2>1. st \in 1..(k + 1) /\ \A j \in st..((k + 1) - 1) : units[j] # NewLine
    BY <1>1, StartIs
  <2>2. StartOf(units, (k + 1) + 1) = IF x = NewLine THEN (k + 1) + 1 ELSE st
    BY <1>1, StartNext
  <2>3. (k + 1) - 1 = k /\ (k + 1) + 1 = k + 2
    BY <1>1
  <2> QED BY <2>1, <2>2, <2>3
<1>5. q \in Seq(RawLine) /\ LinesTo(units, k + 1) = q \o LineAt(units, k + 1)
  BY LinesGrow
<1> HIDE DEF st, q
<1>6. i \in 1..(k + 1) /\ i \in Nat /\ st \in Nat
  BY <1>1, <1>4
<1>7. CASE x # NewLine
  <2>1. ProcessUnit(s, x) = Capture(Append(l, x), d, t, u, n)
    BY <1>2, <1>7, UnitAdds
  <2>2. Append(l, x) = SubSeq(units, i, k + 1)
    BY <1>1, <1>3, <1>6, SliceGrows
  <2>3. LinesTo(units, k + 1) = q
    <3>1. LineAt(units, k + 1) = <<>>
      BY <1>7, Zenon DEF LineAt
    <3> QED BY <1>5, <3>1, ConcatEmptySeq
  <2>4. Partial(units, k + 1, Append(l, x))
    <3>1. StartOf(units, (k + 1) + 1) = st /\ i \in st..((k + 1) + 1) /\ (k + 1) + 1 = k + 2
      BY <1>1, <1>3, <1>4, <1>6, <1>7
    <3> QED BY <1>3, <2>2, <3>1, Zenon DEF Partial
  <2> QED BY <1>2, <2>1, <2>3, <2>4, Zenon DEF Heard
<1>8. CASE x = NewLine
  <2> DEFINE B == Bare(l)
             done == Capture(<<>>, d, t, u, n)
             said == Capture(<<>>, NewData(d, B), NewText(t, B), NewUsage(u, B), NewTools(n, B))
  <2>1. ProcessUnit(s, x) = IF Len(B) > MaxRetainedLine THEN done ELSE said
    BY <1>2, <1>8, UnitEnds
  <2>2. LinesTo(units, k + 1) = Append(q, L) /\ L \in RawLine
    <3>1. LineAt(units, k + 1) = <<SubSeq(units, StartOf(units, k + 1), (k + 1) - 1)>>
      BY <1>8, Zenon DEF LineAt
    <3>2. LineAt(units, k + 1) = <<L>>
      BY <1>1, <3>1 DEF st
    <3>3. L \in RawLine
      BY <1>1, <1>4, BareIs
    <3> HIDE DEF L
    <3> QED BY <1>5, <3>2, <3>3, AppendIsConcat
  <2>3. Partial(units, k + 1, <<>>)
    <3>1. StartOf(units, (k + 1) + 1) = k + 2 /\ k + 2 \in (k + 2)..((k + 1) + 1) /\ ~(k + 2 > k + 2)
      BY <1>1, <1>4, <1>8
    <3>2. <<>> = SubSeq(units, k + 2, k + 1)
      <4>1. k + 2 \in 1..(Len(units) + 1) /\ k + 1 \in ((k + 2) - 1)..Len(units) /\ (k + 1) - (k + 2) + 1 = 0
        BY <1>1
      <4>2. SubSeq(units, k + 2, k + 1) \in Seq(Unit) /\ Len(SubSeq(units, k + 2, k + 1)) = (k + 1) - (k + 2) + 1
        BY <1>1, <4>1, SliceIs
      <4> QED BY <4>1, <4>2, EmptySeq
    <3> QED BY <3>1, <3>2, Zenon DEF Partial
  <2>4. Len(L) = k - st + 1 /\ Len(Bare(L)) <= Len(L) /\ Len(Bare(L)) \in Nat /\ Len(L) \in Nat
    BY <1>1, <1>4, BareIs
  <2>5. B \in EventLine /\ Len(B) \in Nat
    <3>1. \A j \in i..k : units[j] # NewLine
      BY <1>3, <1>4, <1>6
    <3> QED BY <1>1, <1>3, <1>6, <3>1, BareIs
  <2>6. MaxStreamBuf \in Nat /\ MaxRetainedLine = MaxStreamBuf
    BY StreamAssumption
  <2>7. CASE Len(B) > MaxRetainedLine
    <3>1. ~Short(L)
      <4>1. CASE i = st
        BY <1>3, <2>4, <2>6, <2>7, <4>1 DEF Short
      <4>2. CASE i > st
        <5>1. k - st + 1 > MaxStreamBuf
          BY <1>1, <1>3, <1>6, <2>6, <4>2
        <5> QED BY <2>4, <2>6, <5>1 DEF Short
      <4> QED BY <1>3, <1>6, <4>1, <4>2
    <3>2. Tells(LinesTo(units, k + 1), d, t, u, n)
      BY <1>2, <1>5, <2>2, <3>1, LongTells
    <3> QED BY <2>1, <2>3, <2>7, <3>2, Zenon DEF Heard
  <2>8. CASE ~(Len(B) > MaxRetainedLine)
    <3>1. Tells(LinesTo(units, k + 1), NewData(d, B), NewText(t, B), NewUsage(u, B), NewTools(n, B))
      <4>1. CASE i = st
        <5>1. l = L
          BY <1>3, <4>1
        <5>2. Len(Bare(L)) <= MaxStreamBuf
          BY <2>4, <2>6, <2>8, <5>1
        <5> HIDE DEF L
        <5>3. Tells(Append(q, L), NewData(d, Bare(L)), NewText(t, Bare(L)), NewUsage(u, Bare(L)), NewTools(n, Bare(L)))
          BY <1>2, <1>5, <2>2, <2>4, <5>2, LineTells
        <5> QED BY <2>2, <5>1, <5>3, Zenon
      <4>2. CASE i > st
        <5>1. ~Short(L)
          <6>1. k - st + 1 > MaxStreamBuf
            BY <1>1, <1>3, <1>6, <2>6, <4>2
          <6> QED BY <2>4, <2>6, <6>1 DEF Short
        <5>2. B # <<>> => DocOfLine(B) = Nothing
          <6>1. i \in (st + 1)..(k + 1)
            BY <1>3, <1>6, <4>2
          <6> QED BY <1>1, <1>3, <1>4, <6>1, RemnantSilent
        <5> HIDE DEF L, B
        <5>3. Tells(Append(q, L), NewData(d, B), NewText(t, B), NewUsage(u, B), NewTools(n, B))
          BY <1>2, <1>5, <2>2, <2>5, <5>1, <5>2, RemnantTells
        <5> QED BY <2>2, <5>3
      <4> QED BY <1>3, <1>6, <4>1, <4>2
    <3> QED BY <2>1, <2>3, <2>8, <3>1, Zenon DEF Heard
  <2> QED BY <2>7, <2>8
<1> QED BY <1>7, <1>8

\* What is carried to the next chunk.
LEMMA CarriedHeard ==
    ASSUME NEW units, IsStream(units), NEW k \in 0..Len(units), NEW l, NEW d, NEW t, NEW u, NEW n,
           Heard(units, k, Capture(l, d, t, u, n))
    PROVE  Heard(units, k, Capture(Carried(l), d, t, u, n))
<1>1. units \in Seq(Unit) /\ Len(units) \in Nat /\ k \in Nat /\ k + 1 \in Nat \ {0} /\ k + 1 \in 1..(Len(units) + 1)
  <2>1. units \in Seq(Unit) /\ Len(units) \in Nat
    BY LenProperties, Zenon DEF IsStream
  <2> QED BY <2>1
<1>2. Partial(units, k, l) /\ Tells(LinesTo(units, k), d, t, u, n)
  <2>1. PICK l2, d2, t2, u2, n2 : Capture(l, d, t, u, n) = Capture(l2, d2, t2, u2, n2) /\ Partial(units, k, l2)
             /\ Tells(LinesTo(units, k), d2, t2, u2, n2)
    BY Zenon DEF Heard
  <2>2. l = l2 /\ d = d2 /\ t = t2 /\ u = u2 /\ n = n2
    BY <2>1, CaptureHas
  <2> QED BY <2>1, <2>2, Zenon
<1>3. CASE Len(l) <= MaxStreamBuf
  BY <1>2, <1>3, Zenon DEF Carried, Heard
<1>4. CASE ~(Len(l) <= MaxStreamBuf)
  <2> DEFINE st == StartOf(units, k + 1)
  <2>1. PICK i \in st..(k + 1) : l = SubSeq(units, i, k) /\ (i > st => i - st > MaxStreamBuf)
    BY <1>2, Zenon DEF Partial
  <2>2. st \in 1..(k + 1)
    BY <1>1, StartIs
  <2> HIDE DEF st
  <2>3. Len(l) = k - i + 1
    <3>1. i \in 1..(Len(units) + 1) /\ k \in (i - 1)..Len(units)
      BY <1>1, <2>1, <2>2
    <3> QED BY <1>1, <2>1, <3>1, SliceIs
  <2>4. (k + 1) - st > MaxStreamBuf /\ k + 1 \in st..(k + 1)
    BY <1>1, <1>4, <2>1, <2>2, <2>3, StreamAssumption
  <2>5. <<>> = SubSeq(units, k + 1, k)
    <3>1. k \in ((k + 1) - 1)..Len(units) /\ k - (k + 1) + 1 = 0
      BY <1>1
    <3>2. SubSeq(units, k + 1, k) \in Seq(Unit) /\ Len(SubSeq(units, k + 1, k)) = k - (k + 1) + 1
      BY <1>1, <3>1, SliceIs
    <3> QED BY <3>1, <3>2, EmptySeq
  <2>6. Partial(units, k, <<>>)
    BY <2>4, <2>5, Zenon DEF Partial, st
  <2> QED BY <1>2, <1>4, <2>6, Zenon DEF Carried, Heard
<1> QED BY <1>3, <1>4

-----------------------------------------------------------------------------
(***************************************************************************)
(* A chunk.                                                                *)
(***************************************************************************)
\* The fold of ProcessChunk, as a function of the units that are left to take.
HearStep(s, c, g, T) == IF T = {} THEN s ELSE ProcessUnit(g[T \ {Max(T)}], c[Max(T)])
HearOn(s, c) == CHOOSE g : g = [T \in SUBSET DOMAIN c |-> HearStep(s, c, g, T)]

\* The fold is that function of all of the chunk's units.
LEMMA ChunkIsHeard == \A s, c : FoldLeft(ProcessUnit, s, c) = HearOn(s, c)[DOMAIN c]
BY Zenon DEF FoldLeft, MapThenFoldSet, HearOn, HearStep

\* The fold's equation has a solution: by prefixes of growing length.
LEMMA HearExists ==
    ASSUME NEW s, NEW c, NEW S, c \in Seq(S)
    PROVE  HearOn(s, c) = [T \in SUBSET DOMAIN c |-> HearStep(s, c, HearOn(s, c), T)]
<1> DEFINE Good(n, g) == g = [T \in SUBSET (1..n) |-> HearStep(s, c, g, T)]
           Bad == {n \in Nat : ~ \E g : Good(n, g)}
<1>1. ASSUME NEW n \in Nat, NEW T \in SUBSET (1..n), T # {}
      PROVE  n # 0 /\ T \ {Max(T)} \in SUBSET (1..(n - 1))
  <2> DEFINE m == Max(T)
  <2>1. m \in T /\ \A i \in T : i <= m
    BY <1>1, MaxIsLast
  <2> HIDE DEF m
  <2>2. \A i \in T : i \in Nat /\ 1 <= i /\ i <= n
    OBVIOUS
  <2>3. \A i \in T \ {m} : i \in 1..(n - 1)
    BY <2>1, <2>2
  <2>4. n # 0
    BY <2>1, <2>2
  <2>5. T \ {m} \in SUBSET (1..(n - 1))
    BY <2>3
  <2> QED BY <2>4, <2>5 DEF m
<1>2. ASSUME NEW n \in Bad, \A m \in Bad : n <= m PROVE FALSE
  <2>1. CASE n = 0
    <3>1. \A g : \A T \in SUBSET (1..0) : HearStep(s, c, g, T) = s
      BY <1>1 DEF HearStep
    <3>2. Good(0, [T \in SUBSET (1..0) |-> s])
      BY <3>1
    <3> QED BY <2>1, <3>2
  <2>2. CASE n # 0
    <3>1. n \in Nat /\ n - 1 \in Nat
      BY <2>2
    <3>2. n - 1 \notin Bad
      <4> HIDE DEF Bad
      <4> QED BY <1>2, <3>1
    <3>3. PICK g : Good(n - 1, g)
      BY <3>1, <3>2
    <3> DEFINE h == [T \in SUBSET (1..n) |-> HearStep(s, c, g, T)]
    <3>4. \A T \in SUBSET (1..(n - 1)) : T \in SUBSET (1..n) /\ h[T] = g[T]
      <4>1. \A T \in SUBSET (1..(n - 1)) : T \in SUBSET (1..n)
        BY <3>1
      <4> QED BY <3>3, <4>1
    <3>5. \A T \in SUBSET (1..n) : HearStep(s, c, g, T) = HearStep(s, c, h, T)
      <4> SUFFICES ASSUME NEW T \in SUBSET (1..n), T # {} PROVE HearStep(s, c, g, T) = HearStep(s, c, h, T)
        BY DEF HearStep
      <4>1. T \ {Max(T)} \in SUBSET (1..(n - 1))
        BY <1>1, <3>1
      <4>2. g[T \ {Max(T)}] = h[T \ {Max(T)}]
        BY <3>4, <4>1
      <4> HIDE DEF h
      <4> QED BY <4>2 DEF HearStep
    <3>6. Good(n, h)
      BY <3>5
    <3> QED BY <3>1, <3>6
  <2> QED BY <2>1, <2>2
<1>3. Bad = {}
  <2>1. Bad \in SUBSET Nat
    OBVIOUS
  <2> HIDE DEF Bad
  <2> QED BY <1>2, <2>1, LeastOfNat
<1>4. Len(c) \in Nat /\ DOMAIN c = 1..Len(c)
  BY LenProperties
<1>5. PICK g : Good(Len(c), g)
  BY <1>3, <1>4
<1>6. g = [T \in SUBSET DOMAIN c |-> HearStep(s, c, g, T)]
  BY <1>4, <1>5
<1> QED BY <1>6 DEF HearOn

\* The equation, one fragment at a time.
LEMMA HearIs ==
    ASSUME NEW s, NEW c, NEW S, c \in Seq(S)
    PROVE  /\ HearOn(s, c)[{}] = s
           /\ \A k \in 1..Len(c) : HearOn(s, c)[1..k] = ProcessUnit(HearOn(s, c)[1..(k - 1)], c[k])
<1>1. Len(c) \in Nat /\ DOMAIN c = 1..Len(c)
  BY LenProperties
<1>2. \A T \in SUBSET DOMAIN c : HearOn(s, c)[T] = HearStep(s, c, HearOn(s, c), T)
  <2> DEFINE F == HearOn(s, c)
  <2>1. F = [T \in SUBSET DOMAIN c |-> HearStep(s, c, F, T)]
    BY HearExists
  <2> HIDE DEF F
  <2>2. \A T \in SUBSET DOMAIN c : F[T] = HearStep(s, c, F, T)
    BY <2>1, Zenon
  <2> QED BY <2>2 DEF F
<1>3. ASSUME NEW k \in 1..Len(c) PROVE HearOn(s, c)[1..k] = ProcessUnit(HearOn(s, c)[1..(k - 1)], c[k])
  <2>1. 1..k \in SUBSET (1..Len(c)) /\ 1..k # {}
    <3>1. k \in Nat /\ k \in 1..k /\ \A i \in 1..k : i \in 1..Len(c)
      BY <1>1
    <3> QED BY <3>1, Zenon
  <2>2. Max(1..k) = k
    <3>1. k \in Nat /\ k \in 1..k
      BY <1>1
    <3>2. Max(1..k) \in 1..k /\ \A i \in 1..k : i <= Max(1..k)
      BY <2>1, <1>1, MaxIsLast
    <3> QED BY <3>1, <3>2
  <2>3. (1..k) \ {k} = 1..(k - 1)
    BY <1>1
  <2>4. HearOn(s, c)[1..k] = HearStep(s, c, HearOn(s, c), 1..k)
    BY <1>1, <1>2, <2>1
  <2> QED BY <2>1, <2>2, <2>3, <2>4 DEF HearStep
<1>4. HearOn(s, c)[{}] = s
  BY <1>2 DEF HearStep
<1> QED BY <1>3, <1>4

\* A chunk more.
LEMMA ChunkHeard ==
    ASSUME NEW units, IsStream(units), NEW k \in 0..Len(units), NEW m \in 0..(Len(units) - k), NEW s, Heard(units, k, s)
    PROVE  Heard(units, k + m, FoldLeft(ProcessUnit, s, SubSeq(units, k + 1, k + m)))
<1> DEFINE c == SubSeq(units, k + 1, k + m)
           Bad == {j \in 0..m : ~Heard(units, k + j, HearOn(s, c)[1..j])}
<1>1. units \in Seq(Unit) /\ Len(units) \in Nat
  BY LenProperties, Zenon DEF IsStream
<1>2. k \in Nat /\ m \in Nat /\ k + m \in 0..Len(units)
  BY <1>1
<1>3. c \in Seq(Unit) /\ Len(c) = m /\ \A j \in 1..m : c[j] = units[k + j]
  <2> DEFINE a == k + 1
             b == k + m
  <2>1. a \in 1..(Len(units) + 1) /\ b \in (a - 1)..Len(units) /\ b - a + 1 = m /\ \A j \in 1..m : a + j - 1 = k + j
    BY <1>1, <1>2
  <2> HIDE DEF a, b
  <2>2. SubSeq(units, a, b) \in Seq(Unit) /\ Len(SubSeq(units, a, b)) = b - a + 1
        /\ \A j \in 1..(b - a + 1) : SubSeq(units, a, b)[j] = units[a + j - 1]
    BY <1>1, <2>1, SliceIs
  <2>3. SubSeq(units, a, b) \in Seq(Unit) /\ Len(SubSeq(units, a, b)) = m
        /\ \A j \in 1..m : SubSeq(units, a, b)[j] = units[k + j]
    BY <2>1, <2>2
  <2> QED BY <2>3 DEF a, b
<1> HIDE DEF c
<1>4. ASSUME NEW j \in Bad, \A i \in Bad : j <= i PROVE FALSE
  <2>1. j \in 0..m /\ ~Heard(units, k + j, HearOn(s, c)[1..j])
    OBVIOUS
  <2>2. CASE j = 0
    <3>1. 1..0 = {} /\ k + 0 = k
      BY <1>2
    <3>2. HearOn(s, c)[{}] = s
      BY <1>3, HearIs
    <3> QED BY <2>1, <2>2, <3>1, <3>2
  <2>3. CASE j # 0
    <3>1. j - 1 \in 0..m /\ j \in 1..m /\ k + (j - 1) \in 0..(Len(units) - 1) /\ (k + (j - 1)) + 1 = k + j
          /\ ~(j <= j - 1)
      BY <1>1, <1>2, <2>1, <2>3
    <3>2. Heard(units, k + (j - 1), HearOn(s, c)[1..(j - 1)])
      BY <1>4, <3>1
    <3> DEFINE i == k + (j - 1)
               old == HearOn(s, c)[1..(j - 1)]
    <3> HIDE DEF i, old
    <3>3. Heard(units, i + 1, ProcessUnit(old, units[i + 1]))
      BY <3>1, <3>2, UnitHeard DEF i, old
    <3>4. HearOn(s, c)[1..j] = ProcessUnit(old, c[j])
      BY <1>3, <3>1, HearIs DEF old
    <3>5. i + 1 = k + j /\ c[j] = units[k + j]
      BY <1>3, <3>1 DEF i
    <3> QED BY <2>1, <3>3, <3>4, <3>5
  <2> QED BY <2>2, <2>3
<1>5. Bad = {}
  <2>1. Bad \in SUBSET Nat
    BY <1>2
  <2> HIDE DEF Bad
  <2> QED BY <1>4, <2>1, LeastOfNat
<1>6. Heard(units, k + m, HearOn(s, c)[1..m])
  BY <1>2, <1>5
<1>7. DOMAIN c = 1..m
  BY <1>3, LenProperties
<1> QED BY <1>6, <1>7, ChunkIsHeard, Zenon DEF c

\* A slice of what is still to come is a slice of the stream.
LEMMA SliceOfRest ==
    ASSUME NEW S, NEW units \in Seq(S), NEW k \in 0..Len(units), NEW a \in 1..(Len(units) - k + 1),
           NEW b \in (a - 1)..(Len(units) - k)
    PROVE  SubSeq(SubSeq(units, k + 1, Len(units)), a, b) = SubSeq(units, k + a, k + b)
<1> DEFINE rest == SubSeq(units, k + 1, Len(units))
           c == k + a
           d == k + b
           e == k + 1
           z == Len(units)
<1>1. Len(units) \in Nat /\ k \in Nat /\ a \in Nat /\ b \in Int
  BY LenProperties
<1>2. rest \in Seq(S) /\ Len(rest) = z - k /\ \A i \in 1..(z - k) : rest[i] = units[k + i]
  <2>1. e \in 1..(Len(units) + 1) /\ z \in (e - 1)..Len(units) /\ z - e + 1 = z - k /\ \A i \in 1..(z - k) : e + i - 1 = k + i
    BY <1>1
  <2> HIDE DEF e, z
  <2>2. SubSeq(units, e, z) \in Seq(S) /\ Len(SubSeq(units, e, z)) = z - e + 1
        /\ \A i \in 1..(z - e + 1) : SubSeq(units, e, z)[i] = units[e + i - 1]
    BY <2>1, SliceIs
  <2>3. SubSeq(units, e, z) \in Seq(S) /\ Len(SubSeq(units, e, z)) = z - k
        /\ \A i \in 1..(z - k) : SubSeq(units, e, z)[i] = units[k + i]
    BY <2>1, <2>2
  <2> QED BY <2>3 DEF e, z
<1> HIDE DEF rest
<1>3. SubSeq(rest, a, b) \in Seq(S) /\ Len(SubSeq(rest, a, b)) = b - a + 1
      /\ \A i \in 1..(b - a + 1) : SubSeq(rest, a, b)[i] = rest[a + i - 1]
  <2>1. a \in 1..(Len(rest) + 1) /\ b \in (a - 1)..Len(rest)
    BY <1>1, <1>2
  <2> QED BY <1>2, <2>1, SliceIs
<1>4. SubSeq(units, c, d) \in Seq(S) /\ Len(SubSeq(units, c, d)) = b - a + 1
      /\ \A i \in 1..(b - a + 1) : SubSeq(units, c, d)[i] = units[c + i - 1]
  <2>1. c \in 1..(Len(units) + 1) /\ d \in (c - 1)..Len(units) /\ d - c + 1 = b - a + 1
    BY <1>1
  <2> HIDE DEF c, d
  <2>2. SubSeq(units, c, d) \in Seq(S) /\ Len(SubSeq(units, c, d)) = d - c + 1
        /\ \A i \in 1..(d - c + 1) : SubSeq(units, c, d)[i] = units[c + i - 1]
    BY <2>1, SliceIs
  <2> QED BY <2>1, <2>2
<1>5. \A i \in 1..(b - a + 1) : SubSeq(rest, a, b)[i] = SubSeq(units, c, d)[i]
  <2> SUFFICES ASSUME NEW i \in 1..(b - a + 1) PROVE SubSeq(rest, a, b)[i] = SubSeq(units, c, d)[i]
    OBVIOUS
  <2>1. a + i - 1 \in 1..(z - k) /\ k + (a + i - 1) = c + i - 1
    BY <1>1
  <2>2. SubSeq(rest, a, b)[i] = rest[a + i - 1] /\ rest[a + i - 1] = units[k + (a + i - 1)]
    BY <1>2, <1>3, <2>1
  <2> QED BY <1>4, <2>1, <2>2
<1> HIDE DEF c, d
<1>6. SubSeq(rest, a, b) = SubSeq(units, c, d)
  BY <1>3, <1>4, <1>5, SeqEqual
<1> QED BY <1>6 DEF rest, c, d

\* A read hears the next chunk.
LEMMA ReadHeard ==
    ASSUME NEW units, IsStream(units), NEW k \in 0..Len(units), NEW s, Heard(units, k, s),
           NEW n \in DOMAIN SubSeq(units, k + 1, Len(units))
    PROVE  LET rest == SubSeq(units, k + 1, Len(units))
               r == FoldLeft(ProcessUnit, s, SubSeq(rest, 1, n))
           IN /\ k + n \in 0..Len(units)
              /\ SubSeq(rest, n + 1, Len(rest)) = SubSeq(units, (k + n) + 1, Len(units))
              /\ Heard(units, k + n, Capture(Carried(r.lineBuf), r.lastData, r.textAccum, r.usageJSON, r.toolNames))
<1> DEFINE rest == SubSeq(units, k + 1, Len(units))
           r == FoldLeft(ProcessUnit, s, SubSeq(rest, 1, n))
<1>1. units \in Seq(Unit) /\ Len(units) \in Nat
  BY LenProperties, Zenon DEF IsStream
<1>2. DOMAIN rest = 1..(Len(units) - k) /\ Len(rest) = Len(units) - k
  <2> DEFINE a == k + 1
             b == Len(units)
  <2>1. a \in 1..(Len(units) + 1) /\ b \in (a - 1)..Len(units) /\ b - a + 1 = Len(units) - k
    BY <1>1
  <2> HIDE DEF a, b
  <2>2. SubSeq(units, a, b) \in Seq(Unit) /\ Len(SubSeq(units, a, b)) = Len(units) - k
    BY <1>1, <2>1, SliceIs
  <2>3. DOMAIN SubSeq(units, a, b) = 1..(Len(units) - k)
    BY <2>2, LenProperties
  <2> QED BY <2>2, <2>3 DEF a, b
<1>3. n \in 1..(Len(units) - k) /\ n \in Nat /\ k \in Nat /\ k + n \in 0..Len(units)
  BY <1>1, <1>2
<1>4. SubSeq(rest, 1, n) = SubSeq(units, k + 1, k + n)
  BY <1>1, <1>3, SliceOfRest
<1>5. SubSeq(rest, n + 1, Len(rest)) = SubSeq(units, (k + n) + 1, Len(units))
  <2> DEFINE a == n + 1
             b == Len(units) - k
  <2>1. a \in 1..(Len(units) - k + 1) /\ b \in (a - 1)..(Len(units) - k) /\ k + a = (k + n) + 1 /\ k + b = Len(units)
    BY <1>1, <1>3
  <2> HIDE DEF a, b
  <2>2. SubSeq(rest, a, b) = SubSeq(units, k + a, k + b)
    BY <1>1, <2>1, SliceOfRest
  <2>3. Len(rest) = b
    BY <1>2 DEF b
  <2> QED BY <2>1, <2>2, <2>3 DEF a
<1> HIDE DEF rest
<1>6. Heard(units, k + n, r)
  <2>1. n \in 0..(Len(units) - k)
    BY <1>3
  <2>2. Heard(units, k + n, FoldLeft(ProcessUnit, s, SubSeq(units, k + 1, k + n)))
    BY <2>1, ChunkHeard
  <2> QED BY <1>4, <2>2, Zenon
<1> HIDE DEF r
<1>7. PICK l, d, t, u, m : r = Capture(l, d, t, u, m)
  BY <1>6, Zenon DEF Heard
<1>8. r.lineBuf = l /\ r.lastData = d /\ r.textAccum = t /\ r.usageJSON = u /\ r.toolNames = m
  BY <1>7, CaptureHas
<1> DEFINE K == k + n
<1> HIDE DEF K
<1>9. Heard(units, K, Capture(Carried(l), d, t, u, m))
  <2>1. K \in 0..Len(units) /\ Heard(units, K, Capture(l, d, t, u, m))
    BY <1>3, <1>6, <1>7 DEF K
  <2> QED BY <2>1, CarriedHeard
<1> QED BY <1>3, <1>5, <1>8, <1>9, Zenon DEF K, rest, r

\* Nothing is heard of a stream at first.
LEMMA NothingHeard ==
    ASSUME NEW units, IsStream(units)
    PROVE  /\ 0 \in 0..Len(units) /\ SubSeq(units, 0 + 1, Len(units)) = units
           /\ Heard(units, 0, Capture(<<>>, NoData, <<>>, NoData, <<>>))
<1>1. units \in Seq(Unit) /\ Len(units) \in Nat
  BY LenProperties, Zenon DEF IsStream
<1>2. 0 \in 0..Len(units) /\ 0 + 1 = 1 /\ 1 \in Nat \ {0} /\ 1 \in 1..(Len(units) + 1) /\ 0 \in (1 - 1)..Len(units)
  BY <1>1
<1>3. SubSeq(units, 1, Len(units)) = units
  BY <1>1, SubSeqFull
<1>4. Partial(units, 0, <<>>)
  <2>1. StartOf(units, 1) \in 1..1
    BY <1>2, StartIs
  <2>2. StartOf(units, 1) = 1 /\ 1 \in 1..1 /\ ~(1 > 1)
    BY <2>1
  <2>3. SubSeq(units, 1, 0) = <<>>
    <3>1. SubSeq(units, 1, 0) \in Seq(Unit) /\ Len(SubSeq(units, 1, 0)) = 0 - 1 + 1
      BY <1>1, <1>2, SliceIs
    <3>2. Len(SubSeq(units, 1, 0)) = 0
      BY <3>1
    <3> QED BY <3>1, <3>2, EmptySeq
  <2> QED BY <1>2, <2>2, <2>3, Zenon DEF Partial
<1>5. Tells(LinesTo(units, 0), NoData, <<>>, NoData, <<>>)
  BY NoLines, NoneTells, Zenon
<1> QED BY <1>2, <1>3, <1>4, <1>5, Zenon DEF Heard

-----------------------------------------------------------------------------
(***************************************************************************)
(* A stream is heard as it is read, and captured once.                     *)
(***************************************************************************)
AnswerHeard ==
    \E k \in 0..Len(scene.answer.units) :
       /\ coming = SubSeq(scene.answer.units, k + 1, Len(scene.answer.units))
       /\ Heard(scene.answer.units, k, Seen)
CapturedOnce ==
    \/ once = FALSE /\ closed = FALSE /\ captured = <<>>
    \/ once = TRUE /\ captured = <<BuildRespBody>>
AnswerInv == scene \in Scenes /\ (Streamed => AnswerHeard /\ CapturedOnce)

\* What the capture has seen, as the fold of a chunk has it.
LEMMA SeenIs == Seen = Capture(lineBuf, lastData, textAccum, usageJSON, toolNames)
BY DEF Seen, Capture

\* What is heard is what was sent.
LEMMA StreamSent == ASSUME scene \in Scenes, Streamed PROVE IsStream(scene.answer.units)
BY SceneAssumption, Zenon DEF Streamed

\* Nothing is heard or captured at first.
LEMMA AnswerInit == PathInit => AnswerInv
<1> SUFFICES ASSUME PathInit PROVE AnswerInv
  OBVIOUS
<1>1. scene \in Scenes /\ once = FALSE /\ closed = FALSE /\ captured = <<>>
      /\ StreamInit(IF Streamed THEN scene.answer.units ELSE <<>>)
  BY Zenon DEF PathInit
<1>2. CASE Streamed
  <2> DEFINE units == scene.answer.units
  <2>1. IsStream(units)
    BY <1>1, <1>2, StreamSent
  <2>2. coming = units /\ Seen = Capture(<<>>, NoData, <<>>, NoData, <<>>)
    BY <1>1, <1>2, Zenon DEF StreamInit, Seen, Capture
  <2> HIDE DEF units
  <2>3. 0 \in 0..Len(units) /\ coming = SubSeq(units, 0 + 1, Len(units)) /\ Heard(units, 0, Seen)
    BY <2>1, <2>2, NothingHeard
  <2> QED BY <1>1, <2>3, Zenon DEF AnswerInv, AnswerHeard, CapturedOnce, units
<1>3. CASE ~Streamed
  BY <1>1, <1>3, Zenon DEF AnswerInv
<1> QED BY <1>2, <1>3

\* A read leaves what was captured alone: nothing was.
LEMMA ReadKeeps ==
    ASSUME AnswerInv, ReadStream
    PROVE  AnswerInv'
<1> DEFINE units == scene.answer.units
<1>1. /\ Streamed /\ ~closed /\ captured = <<>> /\ Read
      /\ scene' = scene /\ once' = once /\ closed' = closed /\ captured' = captured
  BY Zenon DEF ReadStream, Answering, exchange
<1>2. scene \in Scenes /\ AnswerHeard /\ CapturedOnce
  BY <1>1, Zenon DEF AnswerInv
<1>3. IsStream(units)
  BY <1>1, <1>2, StreamSent
<1>4. PICK n \in DOMAIN coming : ProcessChunk(SubSeq(coming, 1, n)) /\ coming' = SubSeq(coming, n + 1, Len(coming))
  BY <1>1, Zenon DEF Read
<1>5. PICK k \in 0..Len(units) : coming = SubSeq(units, k + 1, Len(units)) /\ Heard(units, k, Seen)
  BY <1>2, Zenon DEF AnswerHeard
<1> DEFINE r == FoldLeft(ProcessUnit, Seen, SubSeq(coming, 1, n))
<1>6. Seen' = Capture(Carried(r.lineBuf), r.lastData, r.textAccum, r.usageJSON, r.toolNames)
  BY <1>4, Zenon DEF ProcessChunk, Seen, Capture
<1>7. units' = units /\ Streamed'
  BY <1>1, Zenon DEF Streamed
<1> HIDE DEF units
<1>8. /\ k + n \in 0..Len(units) /\ coming' = SubSeq(units, (k + n) + 1, Len(units))
      /\ Heard(units, k + n, Capture(Carried(r.lineBuf), r.lastData, r.textAccum, r.usageJSON, r.toolNames))
  <2>1. n \in DOMAIN SubSeq(units, k + 1, Len(units))
    BY <1>4, <1>5, Zenon
  <2>2. LET rest == SubSeq(units, k + 1, Len(units))
            q == FoldLeft(ProcessUnit, Seen, SubSeq(rest, 1, n))
        IN /\ k + n \in 0..Len(units)
           /\ SubSeq(rest, n + 1, Len(rest)) = SubSeq(units, (k + n) + 1, Len(units))
           /\ Heard(units, k + n, Capture(Carried(q.lineBuf), q.lastData, q.textAccum, q.usageJSON, q.toolNames))
    BY <1>3, <1>5, <2>1, ReadHeard
  <2> QED BY <1>4, <1>5, <2>2, Zenon
<1> HIDE DEF r
<1>9. AnswerHeard'
  BY <1>6, <1>7, <1>8, Zenon DEF AnswerHeard, units
<1>10. CapturedOnce'
  <2>1. once = FALSE /\ closed = FALSE
    BY <1>1, <1>2, Zenon DEF CapturedOnce
  <2> QED BY <1>1, <2>1, Zenon DEF CapturedOnce
<1> QED BY <1>1, <1>2, <1>9, <1>10, Zenon DEF AnswerInv

\* The end of the stream and its close capture what was heard, once.
LEMMA FinalizeKeeps ==
    ASSUME AnswerInv, Finalize, Streamed, UNCHANGED <<scene, stream>>
    PROVE  AnswerInv'
<1>1. scene \in Scenes /\ AnswerHeard /\ CapturedOnce
  BY Zenon DEF AnswerInv
<1>2. scene' = scene /\ Seen' = Seen /\ coming' = coming /\ BuildRespBody' = BuildRespBody
  BY Zenon DEF stream, capture, Seen, BuildRespBody, BuildSyntheticResp
<1>3. AnswerHeard'
  BY <1>1, <1>2, Zenon DEF AnswerHeard
<1>4. CapturedOnce'
  <2>1. CASE once = TRUE
    <3>1. once' = once /\ captured' = captured
      BY <2>1, Zenon DEF Finalize
    <3>2. captured = <<BuildRespBody>>
      <4>1. TRUE # FALSE
        OBVIOUS
      <4> QED BY <1>1, <2>1, <4>1, Zenon DEF CapturedOnce
    <3> QED BY <1>2, <2>1, <3>1, <3>2, Zenon DEF CapturedOnce
  <2>2. CASE once = FALSE
    <3>1. captured = <<>>
      BY <1>1, <2>2, Zenon DEF CapturedOnce
    <3>2. once' = TRUE /\ captured' = Append(captured, BuildRespBody)
      BY <2>2, Zenon DEF Finalize
    <3>3. \A x : Append(<<>>, x) = <<x>>
      OBVIOUS
    <3> QED BY <1>2, <3>1, <3>2, <3>3, Zenon DEF CapturedOnce
  <2> QED BY <1>1, <2>1, <2>2, Zenon DEF CapturedOnce
<1> QED BY <1>1, <1>2, <1>3, <1>4, Zenon DEF AnswerInv

\* The other actions are not about a stream.
LEMMA NotOfStream ==
    ASSUME AnswerInv, UNCHANGED <<scene, stream>>, Streamed => UNCHANGED <<once, closed, captured>>
    PROVE  AnswerInv'
<1>1. scene' = scene /\ Seen' = Seen /\ coming' = coming /\ BuildRespBody' = BuildRespBody
  BY Zenon DEF stream, capture, Seen, BuildRespBody, BuildSyntheticResp
<1>2. CASE Streamed
  <2>1. scene \in Scenes /\ AnswerHeard /\ CapturedOnce
    BY <1>2, Zenon DEF AnswerInv
  <2>2. AnswerHeard'
    BY <1>1, <2>1, Zenon DEF AnswerHeard
  <2>3. CapturedOnce'
    BY <1>1, <1>2, <2>1, Zenon DEF CapturedOnce
  <2> QED BY <1>1, <2>1, <2>2, <2>3, Zenon DEF AnswerInv
<1>3. CASE ~Streamed
  BY <1>1, <1>3, Zenon DEF AnswerInv, Streamed
<1> QED BY <1>2, <1>3

\* The property is about the lines of what was read.
LEMMA AnswerIs == AnswerInv => AnswerIndependentOfChunks
<1> SUFFICES ASSUME AnswerInv, Streamed PROVE AnswerIndependentOfChunks
  BY Zenon DEF AnswerIndependentOfChunks
<1> DEFINE units == scene.answer.units
           q == LinesOf(SubSeq(units, 1, Len(units) - Len(coming)))
<1>1. IsStream(units) /\ CapturedOnce /\ AnswerHeard
  BY StreamSent, Zenon DEF AnswerInv
<1>2. PICK k \in 0..Len(units) : coming = SubSeq(units, k + 1, Len(units)) /\ Heard(units, k, Seen)
  BY <1>1, Zenon DEF AnswerHeard
<1>3. q = LinesTo(units, k)
  <2> HIDE DEF units
  <2>1. units \in Seq(Unit) /\ Len(units) \in Nat
    BY <1>1, LenProperties, Zenon DEF IsStream
  <2> DEFINE a == k + 1
             b == Len(units)
  <2>2. a \in 1..(Len(units) + 1) /\ b \in (a - 1)..Len(units) /\ b - a + 1 = Len(units) - k /\ k \in Nat
    BY <2>1
  <2> HIDE DEF a, b
  <2>3. Len(SubSeq(units, a, b)) = Len(units) - k
    BY <2>1, <2>2, SliceIs
  <2>4. Len(coming) = Len(units) - k
    BY <1>2, <2>3 DEF a, b
  <2>5. Len(units) - Len(coming) = k
    BY <2>1, <2>2, <2>4
  <2> QED BY <2>1, <2>5, LinesAre
<1> HIDE DEF q
<1>4. Tells(q, lastData, textAccum, usageJSON, toolNames)
  <2>1. PICK l, d, t, u, n : Seen = Capture(l, d, t, u, n) /\ Tells(LinesTo(units, k), d, t, u, n)
    BY <1>2, Zenon DEF Heard
  <2>2. lastData = d /\ textAccum = t /\ usageJSON = u /\ toolNames = n
    <3>1. Capture(lineBuf, lastData, textAccum, usageJSON, toolNames) = Capture(l, d, t, u, n)
      BY <2>1, SeenIs
    <3> QED BY <3>1, CaptureHas
  <2> QED BY <1>3, <2>1, <2>2, Zenon
<1>5. \E kept \in SUBSET {j \in DOMAIN q : Len(q[j]) > MaxStreamBuf /\ Len(Bare(q[j])) <= MaxStreamBuf} :
         LET counted == FlattenSeq([j \in DOMAIN q |->
                          IF Len(q[j]) <= MaxStreamBuf \/ j \in kept THEN <<q[j]>> ELSE <<>>])
             payloads == Payloads(counted)
         IN /\ textAccum = Accumulated(payloads)
            /\ toolNames = FirstOf(Joined(LAMBDA l : ExtractSSEToolName(DocOfLine(l)), payloads), MaxToolNames)
  <2> HIDE DEF units
  <2>1. \A t : FirstFit(t, MaxToolNames) = FirstOf(t, MaxToolNames)
    <3>1. MaxToolNames \in Nat
      BY StreamAssumption
    <3>2. Max({MaxToolNames, 0}) = MaxToolNames
      BY <3>1, MaxOfTwo
    <3> QED BY <3>2, Zenon DEF FirstFit, FirstOf
  <2> QED BY <1>4, <2>1, Zenon DEF Tells, AtLimit, SaysOf, Counted, CountedAt, Short, ToolsIn, ToolOf, Joined
<1>6. (\A j \in DOMAIN q : Len(q[j]) <= MaxStreamBuf) =>
         LET mentions == Joined(LAMBDA l : IF MentionsUsage(l) THEN <<l>> ELSE <<>>, Payloads(q))
         IN /\ lastData = IF Payloads(q) = <<>> THEN NoData ELSE [line |-> Last(Payloads(q))]
            /\ usageJSON = IF mentions = <<>> THEN NoData ELSE [line |-> Last(mentions)]
  <2> HIDE DEF units
  <2> QED BY <1>4, Zenon DEF Tells, AllShort, Short, LastsOf, MentionsIn, MentionOf, Joined
<1>7. Len(captured) <= 1 /\ (closed => captured = <<BuildRespBody>>)
  <2>1. \A x : Len(<<x>>) = 1 /\ Len(<<>>) = 0 /\ 1 <= 1 /\ 0 <= 1
    OBVIOUS
  <2> QED BY <1>1, <2>1, Zenon DEF CapturedOnce
<1> QED BY <1>5, <1>6, <1>7, Zenon DEF AnswerIndependentOfChunks, q, units

\* A streamed answer is put together alike wherever its chunks were cut, and is
\* captured once (AnswerIndependentOfChunks).
THEOREM AnswersAgree == PathSpec => []AnswerIndependentOfChunks
<1>1. AnswerInv /\ [PathNext]_pathVars => AnswerInv'
  <2> SUFFICES ASSUME AnswerInv, [PathNext]_pathVars PROVE AnswerInv'
    OBVIOUS
  <2>1. CASE EnrichRequest
    BY <2>1, NotOfStream DEF EnrichRequest
  <2>2. CASE CaptureResponse
    BY <2>2, NotOfStream DEF CaptureResponse
  <2>3. CASE ReadStream
    BY <2>3, ReadKeeps
  <2>4. CASE ReadEOF
    BY <2>4, FinalizeKeeps DEF ReadEOF
  <2>5. CASE Close
    BY <2>5, FinalizeKeeps DEF Close
  <2>6. CASE StoreExchange
    BY <2>6, NotOfStream DEF StoreExchange
  <2>7. CASE UNCHANGED pathVars
    BY <2>7, NotOfStream DEF pathVars, exchange
  <2> QED BY <2>1, <2>2, <2>3, <2>4, <2>5, <2>6, <2>7 DEF PathNext
<1> QED BY AnswerInit, <1>1, AnswerIs, PTL DEF PathSpec
=============================================================================
