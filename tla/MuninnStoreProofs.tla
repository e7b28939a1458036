------------------------- MODULE MuninnStoreProofs -------------------------
(***************************************************************************)
(* Machine-checked proofs about MuninnStore, for every set of exchanges,   *)
(* every ring size, queue capacity, byte budget, batch size and number of  *)
(* attempts.                                                               *)
(***************************************************************************)
EXTENDS MuninnStore, FiniteSetTheorems, SequenceTheorems, WellFoundedInduction, TLAPS

\* The numeric constants are numbers.
LEMMA ConstantTypes ==
    /\ \A e \in Exchanges : Size[e] \in Nat
    /\ MaxAttempts \in Nat \ {0}
    /\ RingSize \in Nat \ {0}
BY StoreAssumption, RingSizeAssumption

\* An exchange that is not noise has a concept.
LEMMA ConceptType == \A e \in Exchanges : Concept[e] # NoConcept => Concept[e] \in Concepts
BY StoreAssumption

\* What a memory holds decides its concept.
LEMMA ContentDecides ==
    \A e, f \in Exchanges : Content[e] = Content[f] => Concept[e] = Concept[f]
BY StoreAssumption

\* No exchange is the absent one.
LEMMA NoneIsNone == None \notin Exchanges
BY StoreAssumption

\* A batch is finite and has a natural number of elements.
LEMMA BatchFinite ==
    ASSUME NEW S, S \subseteq Exchanges
    PROVE  IsFiniteSet(S) /\ Cardinality(S) \in Nat
BY StoreAssumption, FS_Subset, FS_CardinalityType

\* The ring's next slot is a slot.
LEMMA NextSlotType == \A i \in Slots : NextSlot(i) \in Slots
BY RingSizeAssumption DEF Slots, NextSlot

\* The slot after i without the modulo: the next one, or slot 0 after the last.
LEMMA NextSlotIs ==
    \A i \in Slots : NextSlot(i) = IF i + 1 = RingSize THEN 0 ELSE i + 1
BY RingSizeAssumption DEF Slots, NextSlot

\* A slot set in a window, and a roll, keep its type.
LEMMA WindowOps ==
    /\ \A w \in Window : Roll(w) \in Window
    /\ \A w \in Window, hs \in SUBSET Concepts : Record(w, hs) \in Window
BY NextSlotType DEF Window, Record, Roll

\* The window New starts with.
LEMMA EmptyWindowType == EmptyWindow \in Window
BY ConstantTypes DEF EmptyWindow, Window, Slots

\* Counting keeps the counters natural numbers.
LEMMA CountType ==
    ASSUME NEW c \in Counters, NEW n \in Nat, stats \in [Counters -> Nat], Count(c, n)
    PROVE  stats' \in [Counters -> Nat]
BY DEF Count

\* Settling keeps the outcomes in range.
LEMMA SettleType ==
    ASSUME NEW S, NEW o \in Outcomes, outcome \in [Exchanges -> Outcomes], Settle(S, o)
    PROVE  outcome' \in [Exchanges -> Outcomes]
BY DEF Settle

\* What an action leaves alone keeps its type.
LEMMA Untouched ==
    /\ ProducersTyped /\ UNCHANGED producerVars => ProducersTyped'
    /\ WorkerTyped /\ UNCHANGED workerVars => WorkerTyped'
    /\ DrainTyped /\ UNCHANGED drainVars => DrainTyped'
BY DEF ProducersTyped, producerVars, WorkerTyped, workerVars, DrainTyped, drainVars

-----------------------------------------------------------------------------
(***************************************************************************)
(* Type correctness                                                        *)
(***************************************************************************)

\* A step of Store keeps the state's shape.
LEMMA ProducerType ==
    ASSUME TypeOK, NEW e \in Exchanges, Producer(e)
    PROVE  TypeOK'
<1> USE ConstantTypes
<1>1. ProducersTyped'
  <2>1. CASE Store(e)
    BY <2>1 DEF Store, Goto, TypeOK, ProducersTyped
  <2>2. CASE ReserveLoad(e)
    BY <2>2 DEF ReserveLoad, Goto, TypeOK, ProducersTyped
  <2>3. CASE ReserveCAS(e)
    <3>1. pc' = [pc EXCEPT ![e] = "reserved"] \/ pc' = [pc EXCEPT ![e] = "load"]
      BY <2>3 DEF ReserveCAS, Goto
    <3>2. headroom' = [headroom EXCEPT ![e] = 0] /\ UNCHANGED readers
      BY <2>3 DEF ReserveCAS
    <3>3. QED
      BY <3>1, <3>2 DEF TypeOK, ProducersTyped
  <2>4. CASE EnterEnqueue(e)
    BY <2>4 DEF EnterEnqueue, Goto, TypeOK, ProducersTyped
  <2>5. CASE Send(e)
    BY <2>5 DEF Send, RUnlock, Goto, TypeOK, ProducersTyped
  <2>6. CASE Drop(e)
    BY <2>6 DEF Drop, Goto, TypeOK, ProducersTyped
  <2>7. QED
    BY <2>1, <2>2, <2>3, <2>4, <2>5, <2>6 DEF Producer
<1>2. WorkerTyped' /\ DrainTyped'
  BY Untouched DEF TypeOK, Producer, Store, ReserveLoad, ReserveCAS, EnterEnqueue, Send, Drop
<1>3. stats' \in [Counters -> Nat]
  BY CountType DEF TypeOK, Producer, Store, ReserveLoad, ReserveCAS, EnterEnqueue, Send, Drop,
      Counters
<1>4. outcome' \in [Exchanges -> Outcomes]
  BY SettleType DEF TypeOK, Producer, Store, ReserveLoad, ReserveCAS, EnterEnqueue, Send, Drop,
      Outcomes, history
<1>5. queuedBytes' \in Int
  BY DEF TypeOK, ProducersTyped, Producer, Store, ReserveLoad, ReserveCAS, EnterEnqueue, Send, Drop
<1>6. queue' \in Seq(Exchanges)
  <2>1. CASE Send(e)
    <3>1. UNCHANGED queue \/ queue' = Append(queue, e)
      BY <2>1 DEF Send
    <3>2. queue \in Seq(Exchanges)
      BY DEF TypeOK
    <3>3. QED
      BY <3>1, <3>2, AppendProperties
  <2>2. CASE ~Send(e)
    BY <2>2 DEF TypeOK, Producer, Store, ReserveLoad, ReserveCAS, EnterEnqueue, Drop
  <2>3. QED
    BY <2>1, <2>2
<1>7. UNCHANGED <<cancelled, vault, age>>
  BY DEF Producer, Store, ReserveLoad, ReserveCAS, EnterEnqueue, Send, Drop, history
<1>8. QED
  BY <1>1, <1>2, <1>3, <1>4, <1>5, <1>6, <1>7 DEF TypeOK

\* The end of a flush keeps the state's shape.
LEMMA FlushType ==
    ASSUME TypeOK, wpc # "prepare", FlushSucceeds \/ FlushFails
    PROVE  TypeOK'
<1> USE ConstantTypes
<1>1. Hashes(batch) \subseteq Concepts
  BY ConceptType DEF Hashes, TypeOK, WorkerTyped
<1>2. window' \in Window /\ age' \in [Concepts -> 0 .. RingSize]
  BY <1>1, WindowOps DEF TypeOK, WorkerTyped, FlushSucceeds, FlushFails
<1>3. WorkerTyped'
  BY <1>2 DEF TypeOK, WorkerTyped, FlushSucceeds, FlushFails, AfterFlush, BatchAfterFlush,
      PendingAfterFlush
<1>4. ProducersTyped' /\ DrainTyped'
  BY Untouched DEF TypeOK, FlushSucceeds, FlushFails, AfterFlush
<1>5. stats' \in [Counters -> Nat]
  BY CountType, BatchFinite DEF TypeOK, WorkerTyped, FlushSucceeds, FlushFails, FlushSize, Counters
<1>6. outcome' \in [Exchanges -> Outcomes]
  BY SettleType DEF TypeOK, FlushSucceeds, FlushFails, Outcomes
<1>7. QED
  BY <1>2, <1>3, <1>4, <1>5, <1>6 DEF TypeOK, FlushSucceeds, FlushFails, AfterFlush

\* A step of the worker keeps the state's shape.
LEMMA WorkerType ==
    ASSUME TypeOK, Worker
    PROVE  TypeOK'
<1> USE ConstantTypes
<1>1. AdvanceWindow => window' \in Window /\ age' \in [Concepts -> 0 .. RingSize]
  BY WindowOps DEF AdvanceWindow, TypeOK, WorkerTyped
<1>2. CASE Receive
  <2>1. Head(queue) \in Exchanges /\ queue' \in Seq(Exchanges)
    BY <1>2 DEF Receive, TypeOK
  <2>2. WorkerTyped'
    BY <1>2, <2>1, NoneIsNone DEF Receive, TypeOK, WorkerTyped
  <2>3. QED
    BY <1>2, <2>1, <2>2, Untouched DEF Receive, TypeOK, history
<1>3. CASE Prepare
  <2>1. item \in Exchanges
    BY <1>3 DEF Prepare, TypeOK, WorkerTyped
  <2>2. window' \in Window /\ age' \in [Concepts -> 0 .. RingSize]
    BY <1>1, <1>3 DEF Prepare, TypeOK, WorkerTyped
  <2>3. Verdict(item) = "kept" => Concept[item] \in Concepts /\ Concept[item] # NoConcept
    BY <2>1, ConceptType DEF Verdict
  <2>4. Verdict(item) # "kept" => Verdict(item) \in Counters \cap Outcomes
    BY DEF Verdict, Counters, Outcomes
  <2>5. stats' \in [Counters -> Nat]
    BY <1>3, <2>4, CountType DEF Prepare, TypeOK
  <2>6. outcome' \in [Exchanges -> Outcomes]
    BY <1>3, <2>4, SettleType DEF Prepare, TypeOK
  <2>7. WorkerTyped'
    BY <1>3, <2>1, <2>2, <2>3 DEF Prepare, Prepared, TypeOK, WorkerTyped
  <2>8. QED
    BY <1>3, <2>1, <2>2, <2>5, <2>6, <2>7, Untouched DEF Prepare, TypeOK
<1>4. CASE Tick
  <2>1. WorkerTyped'
    BY <1>1, <1>4 DEF Tick, TypeOK, WorkerTyped
  <2>2. QED
    BY <1>1, <1>4, <2>1, Untouched DEF Tick, TypeOK
<1>5. CASE Exit
  <2>1. WorkerTyped'
    BY <1>5 DEF Exit, TypeOK, WorkerTyped
  <2>2. QED
    BY <1>5, <2>1, Untouched DEF Exit, TypeOK, history
<1>6. CASE Attempt \/ Backoff
  <2>1. CASE FlushFails
    BY <1>6, <2>1, FlushType DEF Attempt, Backoff
  <2>2. CASE ~FlushFails
    <3>1. WorkerTyped'
      BY <1>6, <2>2 DEF Attempt, Backoff, TypeOK, WorkerTyped
    <3>2. QED
      BY <1>6, <2>2, <3>1, Untouched DEF Attempt, Backoff, TypeOK, history
  <2>3. QED
    BY <2>1, <2>2
<1>7. ASSUME NEW r \in Replies, Reply(r) PROVE TypeOK'
  <2>1. CASE FlushSucceeds \/ FlushFails
    BY <1>7, <2>1, FlushType DEF Reply
  <2>2. CASE ~GiveUp(r) /\ Retry
    <3>1. WorkerTyped'
      BY <1>7, <2>2 DEF Reply, GiveUp, Retry, TypeOK, WorkerTyped
    <3>2. QED
      BY <2>2, <3>1, Untouched DEF Retry, TypeOK, history
  <2>3. QED
    BY <1>7, <2>1, <2>2 DEF Reply
<1>8. QED
  BY <1>2, <1>3, <1>4, <1>5, <1>6, <1>7 DEF Worker

\* The steps of Drain, of the deadline and of MuninnDB keep the state's shape.
LEMMA OtherType ==
    ASSUME TypeOK,
           (\E d \in Drainers : Drainer(d)) \/ DrainDeadline \/ (\E e \in Exchanges : Commit(e))
    PROVE  TypeOK'
<1>1. ASSUME NEW d \in Drainers, Drainer(d) PROVE TypeOK'
  <2>1. DrainTyped'
    BY <1>1 DEF Drainer, DrainBegin, DrainClose, DrainReturn, TypeOK, DrainTyped
  <2>2. QED
    BY <1>1, <2>1, Untouched DEF Drainer, DrainBegin, DrainClose, DrainReturn, TypeOK, history
<1>2. CASE DrainDeadline
  <2>1. DrainTyped'
    BY <1>2 DEF DrainDeadline, TypeOK, DrainTyped
  <2>2. QED
    BY <1>2, <2>1, Untouched DEF DrainDeadline, TypeOK, history
<1>3. ASSUME NEW e \in Exchanges, Commit(e) PROVE TypeOK'
  <2>1. \A m \in vault' : \E f \in Exchanges : m.content = Content[f] /\ m.concept = Concept[f]
    <3>1. vault' = vault \cup {Memory(e)}
      BY <1>3 DEF Commit
    <3>2. Memory(e).content = Content[e] /\ Memory(e).concept = Concept[e]
      BY DEF Memory
    <3>3. \A m \in vault : \E f \in Exchanges : m.content = Content[f] /\ m.concept = Concept[f]
      BY DEF TypeOK
    <3>4. QED
      BY <3>1, <3>2, <3>3
  <2>2. QED
    BY <1>3, <2>1, Untouched DEF Commit, TypeOK, history
<1>4. QED
  BY <1>1, <1>2, <1>3

\* The state keeps its shape in every session, whatever the interleaving.
THEOREM TypeCorrect == Spec => []TypeOK
<1>1. Init => TypeOK
  <2> SUFFICES ASSUME Init PROVE TypeOK
    OBVIOUS
  <2>1. ProducersTyped
    <3>1. /\ pc = [e \in Exchanges |-> "new"]
          /\ headroom = [e \in Exchanges |-> 0]
          /\ readers = {}
      BY DEF Init
    <3>2. QED
      BY <3>1 DEF ProducersTyped
  <2>2. WorkerTyped
    <3>1. /\ wpc = "select" /\ item = None /\ batch = {} /\ pending = {}
          /\ window = EmptyWindow /\ attempt = 0 /\ exiting = FALSE
      BY DEF Init
    <3>2. attempt \in 0 .. MaxAttempts - 1
      BY <3>1, ConstantTypes
    <3>3. window \in Window
      BY <3>1, EmptyWindowType
    <3>4. batch \subseteq {e \in Exchanges : Concept[e] # NoConcept} /\ pending \subseteq Concepts
      BY <3>1
    <3>5. QED
      BY <3>1, <3>2, <3>3, <3>4 DEF WorkerTyped
  <2>3. DrainTyped
    <3>1. /\ dpc = [d \in Drainers |-> "idle"]
          /\ once = "fresh" /\ armed = FALSE /\ drained = FALSE /\ closed = FALSE
      BY DEF Init
    <3>2. QED
      BY <3>1 DEF DrainTyped
  <2>4. stats \in [Counters -> Nat] /\ outcome \in [Exchanges -> Outcomes]
    BY DEF Init, Outcomes
  <2>5. age \in [Concepts -> 0 .. RingSize]
    BY ConstantTypes DEF Init
  <2>6. queue \in Seq(Exchanges) /\ queuedBytes \in Int /\ cancelled \in BOOLEAN /\ vault = {}
    <3>1. queue = << >>
      BY DEF Init
    <3>2. queue \in Seq(Exchanges)
      BY <3>1, EmptySeq, Zenon
    <3>3. queuedBytes \in Int /\ vault = {}
      BY DEF Init
    <3>4. cancelled \in BOOLEAN
      BY DEF Init
    <3>5. QED
      BY <3>2, <3>3, <3>4
  <2>7. QED
    BY <2>1, <2>2, <2>3, <2>4, <2>5, <2>6 DEF TypeOK
<1>2. TypeOK /\ [Next]_vars => TypeOK'
  <2> SUFFICES ASSUME TypeOK, [Next]_vars PROVE TypeOK'
    OBVIOUS
  <2>1. CASE UNCHANGED vars
    BY <2>1, Untouched DEF vars, TypeOK, history
  <2>2. QED
    BY <2>1, ProducerType, WorkerType, OtherType DEF Next, Terminated
<1>3. QED
  BY <1>1, <1>2, PTL DEF Spec

-----------------------------------------------------------------------------
(***************************************************************************)
(* Store against Drain: the read lock keeps every send before the close    *)
(***************************************************************************)

\* Sending producers hold the read lock, and once the channel is closed no
\* producer holds it or can take it again.
CloseInv ==
    /\ \A e \in Exchanges : pc[e] = "sending" => e \in readers
    /\ closed => readers = {}
    /\ closed => drained
    /\ NoSendOnClosedChannel

\* Every step keeps the lock discipline between the producers' send and
\* Drain's close.
LEMMA CloseStep ==
    ASSUME TypeOK, CloseInv, [Next]_vars
    PROVE  CloseInv'
<1>1. ASSUME NEW e \in Exchanges, Producer(e) PROVE CloseInv'
  <2>1. UNCHANGED <<closed, drained>>
    BY <1>1 DEF Producer, Store, ReserveLoad, ReserveCAS, EnterEnqueue, Send, Drop, drainVars
  <2>2. CASE Send(e)
    <3>1. readers' = readers \ {e} /\ ~closed
      BY <2>2 DEF Send, RUnlock, CloseInv
    <3>2. pc' = [pc EXCEPT ![e] = "returned"] \/ pc' = [pc EXCEPT ![e] = "dropping"]
      BY <2>2, <3>1 DEF Send, Goto
    <3>3. QED
      BY <2>1, <3>1, <3>2 DEF CloseInv, NoSendOnClosedChannel, TypeOK, ProducersTyped
  <2>3. CASE EnterEnqueue(e)
    <3>1. CASE drained
      <4>1. pc' = [pc EXCEPT ![e] = "dropping"] /\ UNCHANGED readers
        BY <2>3, <3>1 DEF EnterEnqueue, Goto
      <4>2. QED
        BY <2>1, <4>1 DEF CloseInv, NoSendOnClosedChannel, TypeOK, ProducersTyped
    <3>2. CASE ~drained
      <4>1. pc' = [pc EXCEPT ![e] = "sending"] /\ readers' = readers \cup {e} /\ ~closed
        BY <2>3, <3>2 DEF EnterEnqueue, Goto, CloseInv
      <4>2. QED
        BY <2>1, <4>1 DEF CloseInv, NoSendOnClosedChannel, TypeOK, ProducersTyped
    <3>3. QED
      BY <3>1, <3>2
  <2>4. CASE Store(e) \/ ReserveLoad(e) \/ ReserveCAS(e) \/ Drop(e)
    <3>1. UNCHANGED readers
      BY <2>4 DEF Store, ReserveLoad, ReserveCAS, Drop
    <3>2. \E l \in {"load", "returned", "cas", "reserved"} : pc' = [pc EXCEPT ![e] = l]
      BY <2>4 DEF Store, ReserveLoad, ReserveCAS, Drop, Goto
    <3>3. QED
      BY <2>1, <3>1, <3>2 DEF CloseInv, NoSendOnClosedChannel, TypeOK, ProducersTyped
  <2>5. QED
    BY <1>1, <2>2, <2>3, <2>4 DEF Producer
<1>2. ASSUME NEW d \in Drainers, Drainer(d) PROVE CloseInv'
  <2>1. UNCHANGED <<pc, readers>>
    BY <1>2 DEF Drainer, DrainBegin, DrainClose, DrainReturn, producerVars
  <2>2. (closed' => readers = {} /\ drained') \/ UNCHANGED <<closed, drained>>
    BY <1>2 DEF Drainer, DrainBegin, DrainClose, WriteLockFree, DrainReturn
  <2>3. QED
    BY <2>1, <2>2 DEF CloseInv, NoSendOnClosedChannel
<1>3. CASE UNCHANGED <<pc, readers, closed, drained>>
  BY <1>3 DEF CloseInv, NoSendOnClosedChannel
<1>4. Worker => UNCHANGED <<pc, readers, closed, drained>>
  BY DEF Worker, Receive, Prepare, Tick, Exit, Attempt, Backoff, Reply, Retry, FlushSucceeds,
      FlushFails, AfterFlush, producerVars, drainVars
<1>5. ASSUME NEW e \in Exchanges, Commit(e) PROVE UNCHANGED <<pc, readers, closed, drained>>
  BY <1>5 DEF Commit, producerVars, drainVars
<1>6. DrainDeadline \/ UNCHANGED vars => UNCHANGED <<pc, readers, closed, drained>>
  BY DEF DrainDeadline, vars, producerVars, drainVars
<1>7. QED
  BY <1>1, <1>2, <1>3, <1>4, <1>5, <1>6 DEF Next, Terminated

\* However many producers race however many Drain calls, none of them sends
\* on the closed channel.
THEOREM StoreNeverPanics == Spec => []NoSendOnClosedChannel
<1>1. Init => CloseInv
  <2> SUFFICES ASSUME Init PROVE CloseInv
    OBVIOUS
  <2>1. pc = [e \in Exchanges |-> "new"] /\ readers = {} /\ closed = FALSE
    BY DEF Init
  <2>2. QED
    BY <2>1 DEF CloseInv, NoSendOnClosedChannel
<1>2. TypeOK /\ CloseInv /\ [Next]_vars => CloseInv'
  BY CloseStep
<1>3. CloseInv => NoSendOnClosedChannel
  BY DEF CloseInv
<1>4. QED
  BY <1>1, <1>2, <1>3, TypeCorrect, PTL DEF Spec

-----------------------------------------------------------------------------
(***************************************************************************)
(* The dedup window: a recorded hash lives exactly RingSize rolls          *)
(***************************************************************************)

\* A slot's age is below the ring size.
LEMMA SlotAgeRange ==
    ASSUME NEW w \in Window, NEW i \in Slots
    PROVE  SlotAge(w, i) \in 0 .. RingSize - 1
BY ConstantTypes DEF Window, Slots, SlotAge

\* A roll opens the oldest slot, empty, and ages every other by one.
LEMMA RollAges ==
    ASSUME NEW w \in Window
    PROVE  /\ SlotAge(w, NextSlot(w.next)) = RingSize - 1
           /\ Roll(w).slots[NextSlot(w.next)] = {}
           /\ \A i \in Slots \ {NextSlot(w.next)} :
                 /\ Roll(w).slots[i] = w.slots[i]
                 /\ SlotAge(Roll(w), i) = SlotAge(w, i) + 1
<1> DEFINE n == NextSlot(w.next)
<1>1. w.next \in Slots /\ n \in Slots /\ n = IF w.next + 1 = RingSize THEN 0 ELSE w.next + 1
  BY NextSlotType, NextSlotIs DEF Window
<1>2. Roll(w).next = n
  BY DEF Roll
<1>3. \A i \in Slots : Roll(w).slots[i] = IF i = n THEN {} ELSE w.slots[i]
  BY DEF Roll, Window
<1> HIDE DEF n
<1>4. SlotAge(w, n) = RingSize - 1
  BY <1>1, ConstantTypes DEF SlotAge, Slots
<1>5. \A i \in Slots \ {n} : SlotAge(Roll(w), i) = SlotAge(w, i) + 1
  BY <1>1, <1>2, ConstantTypes DEF SlotAge, Slots
<1>6. QED
  BY <1>1, <1>3, <1>4, <1>5 DEF n

\* What a slot holds was recorded no longer ago than the slot was open, and
\* what was recorded within RingSize rolls is in the slot of that age.
RingInv ==
    /\ \A i \in Slots : \A h \in window.slots[i] : age[h] <= SlotAge(window, i)
    /\ \A h \in Concepts : age[h] < RingSize =>
          \E i \in Slots : h \in window.slots[i] /\ SlotAge(window, i) = age[h]

\* Rolling the ring ages every recorded hash by one and forgets exactly the
\* hashes that were RingSize rolls old.
LEMMA RingRoll ==
    ASSUME TypeOK, RingInv, AdvanceWindow
    PROVE  RingInv'
<1> DEFINE n == NextSlot(window.next)
<1>1. window \in Window /\ age \in [Concepts -> 0 .. RingSize]
  BY DEF TypeOK, WorkerTyped
<1>2. window' = Roll(window)
  BY DEF AdvanceWindow
<1>3. \A h \in Concepts : age'[h] = IF age[h] < RingSize THEN age[h] + 1 ELSE RingSize
  BY DEF AdvanceWindow
<1>4. /\ SlotAge(window, n) = RingSize - 1
      /\ window'.slots[n] = {}
      /\ \A i \in Slots \ {n} : /\ window'.slots[i] = window.slots[i]
                               /\ SlotAge(window', i) = SlotAge(window, i) + 1
  BY <1>1, <1>2, RollAges
<1>5. \A i \in Slots : SlotAge(window, i) \in 0 .. RingSize - 1
  BY <1>1, SlotAgeRange
<1>6. \A i \in Slots : window.slots[i] \subseteq Concepts
  BY <1>1 DEF Window
<1> HIDE DEF n
<1>7. ASSUME NEW i \in Slots, NEW h \in window'.slots[i]
      PROVE  age'[h] <= SlotAge(window', i)
  <2>1. i # n /\ h \in window.slots[i] /\ h \in Concepts
    BY <1>4, <1>6, <1>7
  <2>2. age[h] <= SlotAge(window, i)
    BY <2>1 DEF RingInv
  <2>3. QED
    BY <1>1, <1>3, <1>4, <1>5, <2>1, <2>2, ConstantTypes
<1>8. ASSUME NEW h \in Concepts, age'[h] < RingSize
      PROVE  \E i \in Slots : h \in window'.slots[i] /\ SlotAge(window', i) = age'[h]
  <2>1. age[h] < RingSize /\ age'[h] = age[h] + 1 /\ age[h] < RingSize - 1
    BY <1>1, <1>3, <1>8, ConstantTypes
  <2>2. PICK i \in Slots : h \in window.slots[i] /\ SlotAge(window, i) = age[h]
    BY <2>1 DEF RingInv
  <2>3. i # n
    BY <1>1, <1>4, <2>1, <2>2, ConstantTypes
  <2>4. QED
    BY <1>4, <2>1, <2>2, <2>3
<1>9. QED
  BY <1>7, <1>8 DEF RingInv

\* A delivered batch enters the open slot, which is the slot of age zero.
LEMMA RingRecord ==
    ASSUME TypeOK, RingInv, FlushSucceeds
    PROVE  RingInv'
<1> DEFINE hs == Hashes(batch)
<1>1. window \in Window /\ age \in [Concepts -> 0 .. RingSize] /\ hs \subseteq Concepts
  BY ConceptType DEF TypeOK, WorkerTyped, Hashes
<1>2. /\ window'.next = window.next
      /\ \A i \in Slots : window'.slots[i] =
             IF i = window.next THEN window.slots[i] \cup hs ELSE window.slots[i]
  BY <1>1 DEF FlushSucceeds, Record, Window
<1>3. \A h \in Concepts : age'[h] = IF h \in hs THEN 0 ELSE age[h]
  BY DEF FlushSucceeds
<1>4. \A i \in Slots : SlotAge(window', i) = SlotAge(window, i)
  BY <1>2 DEF SlotAge
<1>5. SlotAge(window, window.next) = 0 /\ window.next \in Slots
  BY <1>1, ConstantTypes DEF SlotAge, Window, Slots
<1>6. \A i \in Slots : SlotAge(window, i) \in 0 .. RingSize - 1
  BY <1>1, SlotAgeRange
<1>7. \A i \in Slots : window.slots[i] \subseteq Concepts
  BY <1>1 DEF Window
<1> HIDE DEF hs
<1>8. ASSUME NEW i \in Slots, NEW h \in window'.slots[i]
      PROVE  age'[h] <= SlotAge(window', i)
  <2>1. CASE h \in hs
    BY <1>1, <1>3, <1>4, <1>6, <2>1
  <2>2. CASE h \notin hs
    <3>1. h \in window.slots[i] /\ h \in Concepts
      BY <1>2, <1>7, <1>8, <2>2
    <3>2. QED
      BY <1>3, <1>4, <2>2, <3>1 DEF RingInv
  <2>3. QED
    BY <2>1, <2>2
<1>9. ASSUME NEW h \in Concepts, age'[h] < RingSize
      PROVE  \E i \in Slots : h \in window'.slots[i] /\ SlotAge(window', i) = age'[h]
  <2>1. CASE h \in hs
    <3>1. h \in window'.slots[window.next] /\ SlotAge(window', window.next) = age'[h]
      BY <1>2, <1>3, <1>4, <1>5, <2>1
    <3>2. QED
      BY <1>5, <3>1
  <2>2. CASE h \notin hs
    <3>1. age'[h] = age[h]
      BY <1>3, <2>2
    <3>2. PICK i \in Slots : h \in window.slots[i] /\ SlotAge(window, i) = age[h]
      BY <1>9, <3>1 DEF RingInv
    <3>3. QED
      BY <1>2, <1>4, <3>1, <3>2
  <2>3. QED
    BY <2>1, <2>2
<1>10. QED
  BY <1>8, <1>9 DEF RingInv

\* Only a roll and a recorded flush touch the window.
LEMMA WindowSteps ==
    ASSUME [Next]_vars
    PROVE  AdvanceWindow \/ FlushSucceeds \/ UNCHANGED <<window, age>>
<1>1. ASSUME NEW e \in Exchanges, Producer(e) \/ Commit(e) PROVE UNCHANGED <<window, age>>
  BY <1>1 DEF Producer, Store, ReserveLoad, ReserveCAS, EnterEnqueue, Send, Drop, Commit,
      workerVars, history
<1>2. Worker => AdvanceWindow \/ FlushSucceeds \/ UNCHANGED <<window, age>>
  BY DEF Worker, Receive, Prepare, Tick, Exit, Attempt, Backoff, Reply, Retry, FlushFails, history
<1>3. ASSUME NEW d \in Drainers, Drainer(d) PROVE UNCHANGED <<window, age>>
  BY <1>3 DEF Drainer, DrainBegin, DrainClose, DrainReturn, workerVars, history
<1>4. DrainDeadline \/ UNCHANGED vars => UNCHANGED <<window, age>>
  BY DEF DrainDeadline, vars, workerVars, history
<1>5. QED
  BY <1>1, <1>2, <1>3, <1>4 DEF Next, Terminated

\* For every ring size, and however ticks and full batches interleave, the
\* ring knows exactly the concepts recorded less than RingSize rolls ago.
THEOREM WindowExact == Spec => []WindowIsExact
<1>1. Init => RingInv
  <2> SUFFICES ASSUME Init PROVE RingInv
    OBVIOUS
  <2>1. window = EmptyWindow /\ age = [h \in Concepts |-> RingSize]
    BY DEF Init
  <2>2. \A i \in Slots : window.slots[i] = {}
    BY <2>1 DEF EmptyWindow
  <2>3. QED
    BY <2>1, <2>2, ConstantTypes DEF RingInv
<1>2. TypeOK /\ RingInv /\ [Next]_vars => RingInv'
  <2> SUFFICES ASSUME TypeOK, RingInv, [Next]_vars PROVE RingInv'
    OBVIOUS
  <2>1. CASE UNCHANGED <<window, age>>
    BY <2>1 DEF RingInv, SlotAge
  <2>2. QED
    BY <2>1, WindowSteps, RingRoll, RingRecord
<1>3. TypeOK /\ RingInv => WindowIsExact
  <2> SUFFICES ASSUME TypeOK, RingInv, NEW h \in Concepts
               PROVE  Seen(window, h) <=> age[h] < RingSize
    BY DEF WindowIsExact
  <2>1. age[h] \in 0 .. RingSize /\ \A i \in Slots : SlotAge(window, i) \in 0 .. RingSize - 1
    BY SlotAgeRange DEF TypeOK, WorkerTyped
  <2>2. QED
    BY <2>1, ConstantTypes DEF RingInv, Seen
<1>4. QED
  BY <1>1, <1>2, <1>3, TypeCorrect, PTL DEF Spec

-----------------------------------------------------------------------------
(***************************************************************************)
(* The ledger: what the ring and the outcomes say is in the vault, is      *)
(***************************************************************************)

\* A memory is keyed by its content, the pending hashes are those of the
\* batch, and the ring and the saved exchanges are covered by the vault.
LedgerInv ==
    /\ \A m \in vault : m.key = m.content
    /\ \A m, n \in vault : m.key = n.key => m = n
    /\ pending = Hashes(batch)
    /\ LedgerSound
    /\ SavedIsStored

\* A roll only forgets.
LEMMA RollForgets ==
    ASSUME TypeOK, AdvanceWindow, NEW h \in Concepts, Seen(window', h)
    PROVE  Seen(window, h)
<1>1. window \in Window /\ window' = Roll(window)
  BY DEF TypeOK, WorkerTyped, AdvanceWindow
<1>2. PICK i \in Slots : h \in window'.slots[i]
  BY DEF Seen
<1>3. i # NextSlot(window.next) /\ window'.slots[i] = window.slots[i]
  BY <1>1, <1>2, RollAges
<1>4. QED
  BY <1>2, <1>3 DEF Seen

\* The ledger and the saved exchanges survive whatever leaves the vault, the
\* outcomes saved and the ring's knowledge no larger than they were.
LEMMA LedgerKept ==
    ASSUME TypeOK, LedgerInv, UNCHANGED vault,
           \A h \in Concepts : Seen(window', h) => Seen(window, h),
           \A e \in Exchanges : outcome'[e] = "saved" => outcome[e] = "saved",
           pending' = Hashes(batch')
    PROVE  LedgerInv'
<1>1. \A m \in vault' : m.key = m.content
  BY DEF LedgerInv
<1>2. \A m, n \in vault' : m.key = n.key => m = n
  BY DEF LedgerInv
<1>3. LedgerSound'
  BY DEF LedgerInv, LedgerSound
<1>4. SavedIsStored'
  BY DEF LedgerInv, SavedIsStored
<1>5. pending' = Hashes(batch')
  OBVIOUS
<1>6. QED
  BY <1>1, <1>2, <1>3, <1>4, <1>5 DEF LedgerInv, Hashes

\* A producer never touches what the ledger speaks of.
LEMMA LedgerProducer ==
    ASSUME TypeOK, LedgerInv, NEW e \in Exchanges, Producer(e)
    PROVE  LedgerInv'
<1>1. UNCHANGED <<vault, window, pending, batch>>
  BY DEF Producer, Store, ReserveLoad, ReserveCAS, EnterEnqueue, Send, Drop, workerVars
<1>2. outcome' = outcome \/ Settle({e}, "dropped")
  BY DEF Producer, Store, ReserveLoad, ReserveCAS, EnterEnqueue, Send, Drop, history
<1>3. \A f \in Exchanges : outcome'[f] = "saved" => outcome[f] = "saved"
  BY <1>2 DEF Settle
<1>4. \A h \in Concepts : Seen(window', h) => Seen(window, h)
  BY <1>1
<1>5. pending' = Hashes(batch')
  BY <1>1 DEF LedgerInv
<1>6. QED
  BY <1>1, <1>3, <1>4, <1>5, LedgerKept

\* formatAndDedup keeps pending equal to the hashes of the batch, and rolling
\* only forgets.
LEMMA LedgerPrepare ==
    ASSUME TypeOK, LedgerInv, Prepare
    PROVE  LedgerInv'
<1>1. item \in Exchanges /\ UNCHANGED vault
  BY DEF Prepare, TypeOK, WorkerTyped
<1>2. \A h \in Concepts : Seen(window', h) => Seen(window, h)
  BY RollForgets DEF Prepare
<1>3. \A f \in Exchanges : outcome'[f] = "saved" => outcome[f] = "saved"
  <2>1. CASE Verdict(item) = "kept"
    BY <2>1 DEF Prepare
  <2>2. CASE Verdict(item) # "kept"
    <3>1. Verdict(item) # "saved"
      BY DEF Verdict
    <3>2. QED
      BY <2>2, <3>1 DEF Prepare, Settle
  <2>3. QED
    BY <2>1, <2>2
<1>4. pending' = Hashes(batch')
  <2>1. CASE Verdict(item) = "kept"
    BY <2>1 DEF Prepare, Prepared, LedgerInv, Hashes
  <2>2. CASE Verdict(item) # "kept"
    BY <2>2 DEF Prepare, Prepared, LedgerInv
  <2>3. QED
    BY <2>1, <2>2
<1>5. QED
  BY <1>1, <1>2, <1>3, <1>4, LedgerKept

\* A batch is recorded as delivered only when MuninnDB holds each key of it.
LEMMA LedgerFlush ==
    ASSUME TypeOK, LedgerInv, FlushSucceeds,
           \A e \in batch : \E m \in vault : m.key = DedupKey(e, attempt)
    PROVE  LedgerInv'
<1>1. UNCHANGED vault /\ batch' = {} /\ pending' = {}
  BY DEF FlushSucceeds, AfterFlush, BatchAfterFlush, PendingAfterFlush
<1>2. \A e \in batch : \E m \in vault : m.content = Content[e] /\ m.concept = Concept[e]
  <2> SUFFICES ASSUME NEW e \in batch
               PROVE  \E m \in vault : m.content = Content[e] /\ m.concept = Concept[e]
    OBVIOUS
  <2>1. PICK m \in vault : m.key = Content[e]
    BY DEF DedupKey
  <2>2. m.content = Content[e]
    BY <2>1 DEF LedgerInv
  <2>3. PICK f \in Exchanges : m.content = Content[f] /\ m.concept = Concept[f]
    BY DEF TypeOK
  <2>4. e \in Exchanges
    BY DEF TypeOK, WorkerTyped
  <2>5. QED
    BY <2>2, <2>3, <2>4, ContentDecides
<1>3. LedgerSound'
  <2> SUFFICES ASSUME NEW h \in Concepts, Seen(window', h)
               PROVE  \E m \in vault : m.concept = h
    BY <1>1 DEF LedgerSound
  <2>1. window \in Window /\ Hashes(batch) \subseteq Concepts
    BY ConceptType DEF TypeOK, WorkerTyped, Hashes
  <2>2. PICK i \in Slots : h \in window'.slots[i]
    BY DEF Seen
  <2>3. h \in window.slots[i] \/ h \in Hashes(batch)
    BY <2>1, <2>2 DEF FlushSucceeds, Record, Window
  <2>4. CASE h \in window.slots[i]
    BY <2>4 DEF LedgerInv, LedgerSound, Seen
  <2>5. CASE h \in Hashes(batch)
    BY <1>2, <2>5 DEF Hashes
  <2>6. QED
    BY <2>3, <2>4, <2>5
<1>4. SavedIsStored'
  BY <1>1, <1>2 DEF LedgerInv, SavedIsStored, FlushSucceeds, Settle
<1>5. pending' = Hashes(batch')
  BY <1>1 DEF Hashes
<1>6. QED
  BY <1>1, <1>3, <1>4, <1>5 DEF LedgerInv, Hashes

\* A batch given up is forgotten by both the batch and its pending hashes.
LEMMA LedgerFail ==
    ASSUME TypeOK, LedgerInv, FlushFails
    PROVE  LedgerInv'
<1>1. UNCHANGED <<vault, window>> /\ batch' = {} /\ pending' = {}
  BY DEF FlushFails, AfterFlush, BatchAfterFlush, PendingAfterFlush
<1>2. \A f \in Exchanges : outcome'[f] = "saved" => outcome[f] = "saved"
  BY DEF FlushFails, Settle
<1>3. pending' = Hashes(batch')
  BY <1>1 DEF Hashes
<1>4. \A h \in Concepts : Seen(window', h) => Seen(window, h)
  BY <1>1
<1>5. QED
  BY <1>1, <1>2, <1>3, <1>4, LedgerKept

\* MuninnDB adds a memory under a key it does not hold yet.
LEMMA LedgerCommit ==
    ASSUME TypeOK, LedgerInv, NEW e \in Exchanges, Commit(e)
    PROVE  LedgerInv'
<1>1. vault' = vault \cup {Memory(e)} /\ UNCHANGED <<window, outcome, pending, batch>>
  BY DEF Commit, workerVars, history
<1>2. Memory(e).key = Content[e] /\ Memory(e).content = Content[e]
  BY DEF Memory, DedupKey
<1>3. \A m \in vault : m.key # Content[e]
  BY DEF Commit, DedupKey
<1>4. \A m \in vault' : m.key = m.content
  BY <1>1, <1>2 DEF LedgerInv
<1>5. \A m, n \in vault' : m.key = n.key => m = n
  BY <1>1, <1>2, <1>3 DEF LedgerInv
<1>6. LedgerSound' /\ SavedIsStored'
  BY <1>1 DEF LedgerInv, LedgerSound, SavedIsStored
<1>7. (pending = Hashes(batch))'
  BY <1>1 DEF LedgerInv, Hashes
<1>8. QED
  BY <1>4, <1>5, <1>6, <1>7 DEF LedgerInv

\* Every step keeps the ledger, the keys of the vault and the saved exchanges
\* in agreement.
LEMMA LedgerStep ==
    ASSUME TypeOK, LedgerInv, [Next]_vars
    PROVE  LedgerInv'
<1>1. ASSUME UNCHANGED <<vault, outcome, pending, batch>>,
             \A h \in Concepts : Seen(window', h) => Seen(window, h)
      PROVE  LedgerInv'
  <2>1. pending' = Hashes(batch')
    BY <1>1 DEF LedgerInv
  <2>2. \A e \in Exchanges : outcome'[e] = "saved" => outcome[e] = "saved"
    BY <1>1
  <2>3. QED
    BY <1>1, <2>1, <2>2, LedgerKept
<1>2. CASE Worker
  <2>1. CASE Prepare
    BY <2>1, LedgerPrepare
  <2>2. CASE FlushFails
    BY <2>2, LedgerFail
  <2>3. ASSUME NEW r \in Replies, Reply(r), Confirms(r), FlushSucceeds PROVE LedgerInv'
    <3>1. \A e \in batch : \E m \in vault : m.key = DedupKey(e, attempt)
      BY <2>3 DEF Reply, Confirms
    <3>2. QED
      BY <2>3, <3>1, LedgerFlush
  <2>4. CASE Tick
    BY <1>1, <2>4, RollForgets DEF Tick
  <2>5. CASE Receive \/ Exit
    BY <1>1, <2>5 DEF Receive, Exit, history
  <2>6. CASE (Attempt \/ Backoff) /\ ~FlushFails
    BY <1>1, <2>6 DEF Attempt, Backoff, history
  <2>7. CASE Retry
    BY <1>1, <2>7 DEF Retry, history
  <2>8. QED
    BY <1>2, <2>1, <2>2, <2>3, <2>4, <2>5, <2>6, <2>7 DEF Worker, Reply
<1>3. ASSUME NEW d \in Drainers, Drainer(d) PROVE LedgerInv'
  BY <1>1, <1>3 DEF Drainer, DrainBegin, DrainClose, DrainReturn, workerVars, history
<1>4. CASE DrainDeadline
  BY <1>1, <1>4 DEF DrainDeadline, workerVars, history
<1>5. CASE UNCHANGED vars
  BY <1>1, <1>5 DEF vars, workerVars, history
<1>6. QED
  BY <1>2, <1>3, <1>4, <1>5, LedgerProducer, LedgerCommit DEF Next, Terminated

\* The ledger invariant holds throughout.
LEMMA LedgerInvariant == Spec => []LedgerInv
<1>1. Init => LedgerInv
  <2> SUFFICES ASSUME Init PROVE LedgerInv
    OBVIOUS
  <2>1. /\ vault = {} /\ pending = {} /\ batch = {} /\ window = EmptyWindow
        /\ outcome = [e \in Exchanges |-> "none"]
    BY DEF Init
  <2>2. \A h \in Concepts : ~Seen(window, h)
    BY <2>1 DEF Seen, EmptyWindow
  <2>3. QED
    BY <2>1, <2>2 DEF LedgerInv, LedgerSound, SavedIsStored, Hashes
<1>2. TypeOK /\ LedgerInv /\ [Next]_vars => LedgerInv'
  BY LedgerStep
<1>3. QED
  BY <1>1, <1>2, TypeCorrect, PTL DEF Spec

\* A concept the ring suppresses repeats of is in the vault, whatever answers
\* are lost and however often MuninnDB fails.
THEOREM LedgerIsSound == Spec => []LedgerSound
BY LedgerInvariant, PTL DEF LedgerInv

\* An exchange counted as flushed is in the vault.
THEOREM SavedStored == Spec => []SavedIsStored
BY LedgerInvariant, PTL DEF LedgerInv

\* No memory is ever held twice.
THEOREM NoDuplicates == Spec => []NoDuplicateMemory
<1>1. LedgerInv => NoDuplicateMemory
  BY DEF LedgerInv, NoDuplicateMemory
<1>2. QED
  BY <1>1, LedgerInvariant, PTL

\* A repeat is suppressed only for a memory that is stored or on its way.
THEOREM RepeatsJustified == Spec => RepeatIsJustified
<1> DEFINE Justified == \A e \in Exchanges : outcome[e] # "deduped" /\ outcome'[e] = "deduped" =>
                           \/ \E m \in vault : m.concept = Concept[e]
                           \/ \E f \in batch : Concept[f] = Concept[e]
<1>1. TypeOK /\ LedgerInv /\ [Next]_vars => Justified
  <2> SUFFICES ASSUME TypeOK, LedgerInv, [Next]_vars, NEW e \in Exchanges,
                      outcome[e] # "deduped", outcome'[e] = "deduped"
               PROVE  \/ \E m \in vault : m.concept = Concept[e]
                      \/ \E f \in batch : Concept[f] = Concept[e]
    OBVIOUS
  <2>1. Prepare /\ Verdict(item) = "deduped" /\ e = item
    <3>1. ~(\E f \in Exchanges : Producer(f) \/ Commit(f))
      BY DEF Producer, Store, ReserveLoad, ReserveCAS, EnterEnqueue, Send, Drop, Commit, Settle,
          history
    <3>2. ~(\E d \in Drainers : Drainer(d)) /\ ~DrainDeadline /\ ~UNCHANGED vars
      BY DEF Drainer, DrainBegin, DrainClose, DrainReturn, DrainDeadline, vars, history
    <3>3. Worker
      BY <3>1, <3>2 DEF Next, Terminated
    <3>4. ~FlushSucceeds /\ ~FlushFails
      BY DEF FlushSucceeds, FlushFails, Settle
    <3>5. Prepare
      BY <3>3, <3>4 DEF Worker, Receive, Tick, Exit, Attempt, Backoff, Reply, Retry, history
    <3>6. QED
      BY <3>5 DEF Prepare, Settle
  <2>2. Concept[item] # NoConcept /\ (Seen(window, Concept[item]) \/ Concept[item] \in pending)
    BY <2>1 DEF Verdict
  <2>3. Concept[e] \in Concepts
    BY <2>1, <2>2, ConceptType
  <2>4. QED
    BY <2>1, <2>2, <2>3 DEF LedgerInv, LedgerSound, Hashes
<1>2. QED
  BY <1>1, TypeCorrect, LedgerInvariant, PTL DEF Spec, RepeatIsJustified
-----------------------------------------------------------------------------
(***************************************************************************)
(* Where an accepted exchange is, and what a step can do to it             *)
(***************************************************************************)

Holds(q, x) == \E i \in 1 .. Len(q) : q[i] = x
Distinct(q) == \A i, j \in 1 .. Len(q) : q[i] = q[j] => i = j

\* What an append adds to a queue, and what it cannot repeat.
LEMMA AppendHolds ==
    ASSUME NEW S, NEW q \in Seq(S), NEW x \in S
    PROVE  /\ \A y : Holds(Append(q, x), y) <=> Holds(q, y) \/ y = x
           /\ Distinct(q) /\ ~Holds(q, x) => Distinct(Append(q, x))
<1> DEFINE n == Len(q)
<1>1. n \in Nat /\ Len(Append(q, x)) = n + 1 /\ Append(q, x)[n + 1] = x
  BY AppendProperties, LenProperties
<1>2. \A i \in 1 .. n : Append(q, x)[i] = q[i]
  BY AppendProperties, LenProperties
<1>3. 1 .. n + 1 = (1 .. n) \cup {n + 1}
  BY <1>1
<1> HIDE DEF n
<1>4. ASSUME NEW y PROVE Holds(Append(q, x), y) <=> Holds(q, y) \/ y = x
  BY <1>1, <1>2, <1>3 DEF Holds, n
<1>5. ASSUME Distinct(q), ~Holds(q, x) PROVE Distinct(Append(q, x))
  BY <1>1, <1>2, <1>3, <1>5 DEF Holds, Distinct, n
<1> QED BY <1>4, <1>5

\* A queue holds its head and its tail, and the head is not repeated.
LEMMA TailHolds ==
    ASSUME NEW S, NEW q \in Seq(S), q # << >>
    PROVE  /\ \A y : Holds(q, y) <=> Holds(Tail(q), y) \/ y = Head(q)
           /\ Distinct(q) => Distinct(Tail(q)) /\ ~Holds(Tail(q), Head(q))
<1> DEFINE n == Len(q)
<1>1. n \in Nat \ {0} /\ Len(Tail(q)) = n - 1 /\ Head(q) = q[1]
  BY HeadTailProperties, EmptySeq
<1>2. \A i \in 1 .. n - 1 : Tail(q)[i] = q[i + 1] /\ i + 1 \in 1 .. n
  BY <1>1, HeadTailProperties
<1> HIDE DEF n
<1>3. \A i \in 1 .. n : i = 1 \/ (i - 1 \in 1 .. n - 1 /\ Tail(q)[i - 1] = q[i])
  BY <1>1, <1>2
<1>4. 1 \in 1 .. n
  BY <1>1
<1>5. ASSUME NEW y PROVE Holds(q, y) <=> Holds(Tail(q), y) \/ y = Head(q)
  BY <1>1, <1>2, <1>3, <1>4 DEF Holds, n
<1>6. ASSUME Distinct(q) PROVE ~Holds(Tail(q), Head(q))
  BY <1>1, <1>2, <1>4, <1>6 DEF Holds, Distinct, n
<1>7. ASSUME Distinct(q) PROVE Distinct(Tail(q))
  <2> SUFFICES ASSUME NEW i \in 1 .. n - 1, NEW j \in 1 .. n - 1, Tail(q)[i] = Tail(q)[j] PROVE i = j
    BY <1>1 DEF Distinct
  <2>1. i + 1 = j + 1
    BY <1>2, <1>7 DEF Distinct, n
  <2> QED BY <2>1, <1>1
<1> QED BY <1>5, <1>6, <1>7

\* The steps as the exchanges see them.  A Store call goes on; it ends by
\* refusing the exchange or by queueing it; anything that is no step of a call,
\* Receive, Prepare or the end of a flush leaves the exchanges alone.
Running(l) == l \notin {"new", "returned"}
GoesOn(e) ==
    /\ Running(pc[e])
    /\ \E l : Running(l) /\ Goto(e, l)
    /\ UNCHANGED <<queue, batch, item, outcome, stats>>
Refuses(e) ==
    /\ Running(pc[e])
    /\ Goto(e, "returned") /\ Settle({e}, "dropped") /\ Count("dropped", 1)
    /\ UNCHANGED <<queue, batch, item>>
Queues(e) ==
    /\ Running(pc[e]) /\ ~closed
    /\ Goto(e, "returned") /\ queue' = Append(queue, e)
    /\ UNCHANGED <<batch, item, outcome, stats>>
Ends == wpc \in {"attempt", "waiting", "backoff"} /\ (FlushSucceeds \/ FlushFails)
Elsewhere == UNCHANGED <<pc, queue, batch, item, outcome, stats>>

\* A step of a Store call.
LEMMA CallSteps ==
    ASSUME NEW e \in Exchanges, Producer(e)
    PROVE  /\ Store(e) \/ GoesOn(e) \/ Refuses(e) \/ Queues(e)
           /\ UNCHANGED <<workerVars, drainVars>>
<1>1. CASE Store(e)
  BY <1>1 DEF Store
<1>2. CASE ReserveLoad(e)
  BY <1>2 DEF ReserveLoad, Running, GoesOn, Refuses, workerVars
<1>3. CASE ReserveCAS(e)
  BY <1>3 DEF ReserveCAS, Running, GoesOn, workerVars, history
<1>4. CASE EnterEnqueue(e)
  BY <1>4 DEF EnterEnqueue, Running, GoesOn, workerVars, history
<1>5. CASE Send(e)
  BY <1>5 DEF Send, Running, GoesOn, Queues, workerVars, history
<1>6. CASE Drop(e)
  BY <1>6 DEF Drop, Running, Refuses, workerVars
<1> QED BY <1>1, <1>2, <1>3, <1>4, <1>5, <1>6 DEF Producer

\* A step of the worker.
LEMMA WorkerSteps ==
    ASSUME Worker
    PROVE  Receive \/ Prepare \/ Ends \/ Elsewhere
<1>1. CASE Tick \/ Exit
  BY <1>1 DEF Tick, Exit, Elsewhere, producerVars, history
<1>2. CASE Attempt \/ Backoff
  BY <1>2 DEF Attempt, Backoff, Ends, Elsewhere, producerVars, history
<1>3. ASSUME NEW r \in Replies, Reply(r) PROVE Ends \/ Elsewhere
  BY <1>3 DEF Reply, Retry, Ends, Elsewhere, producerVars, history
<1> QED BY <1>1, <1>2, <1>3 DEF Worker

\* A step of anyone else.
LEMMA OtherSteps ==
    ASSUME \/ \E d \in Drainers : Drainer(d)
           \/ DrainDeadline
           \/ \E e \in Exchanges : Commit(e)
           \/ UNCHANGED vars
    PROVE  Elsewhere
BY DEF Drainer, DrainBegin, DrainClose, DrainReturn, DrainDeadline, Commit, vars, Elsewhere,
       producerVars, workerVars, history

LEMMA StepKinds ==
    ASSUME [Next]_vars
    PROVE  \/ \E e \in Exchanges : Store(e) \/ GoesOn(e) \/ Refuses(e) \/ Queues(e)
           \/ Receive \/ Prepare \/ Ends \/ Elsewhere
BY CallSteps, WorkerSteps, OtherSteps DEF Next, Terminated

\* Accepted, and without an outcome yet.
Owed(e) == pc[e] = "returned" /\ outcome[e] = "none"

\* What is owed an outcome is in the queue, in the worker's hand or in the
\* batch, and in one of them only; an exchange gets its outcome at the earliest
\* when Store returns.
PlaceInv ==
    /\ Distinct(queue)
    /\ \A e \in Exchanges : Holds(queue, e) => e \notin batch /\ e # item
    /\ item \notin batch
    /\ \A e \in Exchanges : Owed(e) <=> Holds(queue, e) \/ e \in batch \/ e = item
    /\ \A e \in Exchanges : pc[e] # "returned" => outcome[e] = "none"

\* The type of what PlaceInv speaks of.
PlaceTyped ==
    /\ pc \in [Exchanges -> {"new", "load", "cas", "reserved", "sending", "dropping",
                             "returned", "panicked"}]
    /\ outcome \in [Exchanges -> Outcomes]
    /\ queue \in Seq(Exchanges)
    /\ batch \subseteq Exchanges
    /\ wpc = "prepare" <=> item \in Exchanges
    /\ item \in Exchanges \cup {None}

LEMMA PlacesTyped == TypeOK => PlaceTyped
BY NoneIsNone DEF TypeOK, PlaceTyped, ProducersTyped, WorkerTyped

\* A step of a Store call keeps the places.
LEMMA PlaceCall ==
    ASSUME PlaceTyped, PlaceInv, NEW e \in Exchanges,
           Store(e) \/ GoesOn(e) \/ Refuses(e) \/ Queues(e)
    PROVE  PlaceInv'
<1>1. ~Owed(e) /\ outcome[e] = "none" /\ pc[e] # "returned"
  BY DEF PlaceInv, Owed, Store, GoesOn, Refuses, Queues, Running
<1>2. ~Holds(queue, e) /\ e \notin batch /\ e # item
  BY <1>1 DEF PlaceInv
<1>3. UNCHANGED <<batch, item>>
  BY DEF Store, GoesOn, Refuses, Queues, workerVars
<1>4. CASE Store(e) \/ GoesOn(e)
  <2>1. UNCHANGED <<queue, outcome>>
    BY <1>4 DEF Store, GoesOn, history
  <2>2. \A f \in Exchanges : pc'[f] = "returned" <=> pc[f] = "returned"
    BY <1>1, <1>4 DEF Store, GoesOn, Running, Goto, PlaceTyped
  <2> QED BY <1>3, <2>1, <2>2 DEF PlaceInv, Owed, Holds, Distinct
<1>5. CASE Refuses(e)
  <2>1. UNCHANGED queue
    BY <1>5 DEF Refuses
  <2>2. \A f \in Exchanges : pc'[f] = IF f = e THEN "returned" ELSE pc[f]
    BY <1>5 DEF Refuses, Goto, PlaceTyped
  <2>3. \A f \in Exchanges : outcome'[f] = IF f = e THEN "dropped" ELSE outcome[f]
    BY <1>5 DEF Refuses, Settle
  <2>4. \A f \in Exchanges : Owed(f)' <=> Owed(f)
    BY <1>1, <2>2, <2>3 DEF Owed
  <2> QED BY <1>3, <2>1, <2>2, <2>3, <2>4 DEF PlaceInv, Holds, Distinct
<1>6. CASE Queues(e)
  <2>1. queue' = Append(queue, e) /\ UNCHANGED outcome
    BY <1>6 DEF Queues
  <2>2. \A f \in Exchanges : pc'[f] = IF f = e THEN "returned" ELSE pc[f]
    BY <1>6 DEF Queues, Goto, PlaceTyped
  <2>3. \A f \in Exchanges : Owed(f)' <=> Owed(f) \/ f = e
    BY <1>1, <2>1, <2>2 DEF Owed
  <2>4. queue \in Seq(Exchanges)
    BY DEF PlaceTyped
  <2>5. Distinct(queue') /\ \A f : Holds(queue', f) <=> Holds(queue, f) \/ f = e
    BY <1>2, <2>1, <2>4, AppendHolds DEF PlaceInv
  <2> HIDE DEF Holds, Distinct, Owed
  <2> QED BY <1>2, <1>3, <2>1, <2>2, <2>3, <2>5 DEF PlaceInv
<1> QED BY <1>4, <1>5, <1>6

\* The worker takes the head of the queue.
LEMMA PlaceReceive ==
    ASSUME PlaceTyped, PlaceInv, Receive
    PROVE  PlaceInv'
<1>1. queue \in Seq(Exchanges) /\ queue # << >> /\ item \notin Exchanges
  BY DEF PlaceTyped, Receive
<1>2. queue' = Tail(queue) /\ item' = Head(queue) /\ UNCHANGED <<pc, batch, outcome>>
  BY DEF Receive, producerVars, history
<1>3. Head(queue) \in Exchanges
  BY <1>1, HeadTailProperties
<1>4. /\ \A y : Holds(queue, y) <=> Holds(Tail(queue), y) \/ y = Head(queue)
      /\ Distinct(Tail(queue)) /\ ~Holds(Tail(queue), Head(queue))
  BY <1>1, TailHolds DEF PlaceInv
<1>5. \A e \in Exchanges : Owed(e)' <=> Owed(e)
  BY <1>2 DEF Owed
<1> QED BY <1>1, <1>2, <1>3, <1>4, <1>5 DEF PlaceInv

\* The item goes into the batch, or has its outcome.
LEMMA PlacePrepare ==
    ASSUME PlaceTyped, PlaceInv, Prepare
    PROVE  PlaceInv'
<1>1. item \in Exchanges /\ item' = None /\ UNCHANGED <<pc, queue>>
  BY DEF PlaceTyped, Prepare, producerVars
<1>2. Owed(item) /\ ~Holds(queue, item) /\ item \notin batch
  BY <1>1 DEF PlaceInv
<1>3. \A e \in Exchanges : e # item'
  BY <1>1, NoneIsNone
<1>4. item' \notin batch'
  BY <1>1, <1>3 DEF PlaceTyped, Prepare, Prepared
<1>5. CASE Verdict(item) = "kept"
  <2>1. batch' = batch \cup {item} /\ UNCHANGED outcome
    BY <1>5 DEF Prepare, Prepared
  <2>2. \A e \in Exchanges : Owed(e)' <=> Owed(e)
    BY <1>1, <2>1 DEF Owed
  <2>3. \A e : Holds(queue, e)' <=> Holds(queue, e)
    BY <1>1
  <2>4. Distinct(queue')
    BY <1>1 DEF PlaceInv
  <2> QED BY <1>1, <1>2, <1>3, <1>4, <2>1, <2>2, <2>3, <2>4 DEF PlaceInv
<1>6. CASE Verdict(item) # "kept"
  <2>1. batch' = batch /\ Settle({item}, Verdict(item)) /\ Verdict(item) # "none"
    BY <1>6 DEF Prepare, Prepared, Verdict
  <2>2. \A e \in Exchanges : outcome'[e] = IF e = item THEN Verdict(item) ELSE outcome[e]
    BY <2>1 DEF Settle
  <2>3. \A e \in Exchanges : Owed(e)' <=> Owed(e) /\ e # item
    BY <1>1, <2>1, <2>2 DEF Owed
  <2>4. \A e : Holds(queue, e)' <=> Holds(queue, e)
    BY <1>1
  <2>5. Distinct(queue')
    BY <1>1 DEF PlaceInv
  <2>6. \A e \in Exchanges : pc'[e] # "returned" => outcome'[e] = "none"
    BY <1>1, <1>2, <2>2 DEF PlaceInv, Owed
  <2> QED BY <1>1, <1>2, <1>3, <1>4, <2>1, <2>3, <2>4, <2>5, <2>6 DEF PlaceInv
<1> QED BY <1>5, <1>6

\* The batch has its outcome.
LEMMA PlaceEnds ==
    ASSUME PlaceTyped, PlaceInv, Ends
    PROVE  PlaceInv'
<1>1. UNCHANGED <<pc, queue, item>> /\ batch' = {}
  BY DEF Ends, FlushSucceeds, FlushFails, AfterFlush, BatchAfterFlush, producerVars
<1>2. PICK o \in {"saved", "failed"} : Settle(batch, o)
  BY DEF Ends, FlushSucceeds, FlushFails
<1>3. \A e \in Exchanges : outcome'[e] = IF e \in batch THEN o ELSE outcome[e]
  BY <1>2 DEF Settle
<1>4. \A e \in Exchanges : Owed(e)' <=> Owed(e) /\ e \notin batch
  BY <1>1, <1>3 DEF Owed
<1>5. \A e : Holds(queue, e)' <=> Holds(queue, e)
  BY <1>1
<1>6. Distinct(queue') /\ item' \notin batch'
  BY <1>1 DEF PlaceInv
<1>7. \A e \in batch : pc[e] = "returned"
  BY DEF PlaceInv, PlaceTyped, Owed
<1>8. \A e \in Exchanges : pc'[e] # "returned" => outcome'[e] = "none"
  BY <1>1, <1>3, <1>7 DEF PlaceInv
<1> QED BY <1>1, <1>4, <1>5, <1>6, <1>8 DEF PlaceInv

\* Every step keeps the places.
LEMMA PlaceStep ==
    ASSUME PlaceTyped, PlaceInv, [Next]_vars
    PROVE  PlaceInv'
<1>1. CASE Elsewhere
  BY <1>1 DEF Elsewhere, PlaceInv, Owed, Holds, Distinct
<1> QED BY <1>1, StepKinds, PlaceCall, PlaceReceive, PlacePrepare, PlaceEnds

LEMMA PlaceInvariant == Spec => []PlaceInv
<1>1. Init => PlaceInv
  <2> SUFFICES ASSUME Init PROVE PlaceInv
    OBVIOUS
  <2>1. queue = << >> /\ batch = {} /\ item = None
    BY DEF Init
  <2>2. \A e \in Exchanges : pc[e] = "new" /\ outcome[e] = "none"
    BY DEF Init
  <2>3. \A x : ~Holds(queue, x)
    BY <2>1 DEF Holds
  <2>4. Distinct(queue)
    BY <2>1 DEF Distinct
  <2> QED BY <2>1, <2>2, <2>3, <2>4, NoneIsNone DEF PlaceInv, Owed
<1> QED BY <1>1, PlacesTyped, PlaceStep, TypeCorrect, PTL DEF Spec

-----------------------------------------------------------------------------
(***************************************************************************)
(* The batch, the ring and the close, as the promise sees them             *)
(***************************************************************************)

Flushing == wpc \in {"attempt", "waiting", "backoff"}

\* A batch that is written is one that may be: not empty, of distinct concepts
\* and no larger than it should be, of which there is room left while it grows.
BatchInv ==
    /\ \A e, f \in batch : Concept[e] = Concept[f] => e = f
    /\ Cardinality(batch) <= MaxBatch
    /\ wpc \in {"select", "prepare"} => Cardinality(batch) < MaxBatch
    /\ Flushing => batch # {}
    /\ wpc = "done" => batch = {}

LEMMA BatchTyped ==
    ASSUME TypeOK
    PROVE  IsFiniteSet(batch) /\ Cardinality(batch) \in Nat /\ MaxBatch \in Nat \ {0}
BY BatchFinite, StoreAssumption DEF TypeOK, WorkerTyped

LEMMA BatchPrepare ==
    ASSUME TypeOK, BatchInv, pending = Hashes(batch), item \notin batch, Prepare
    PROVE  BatchInv'
<1>1. Cardinality(batch) < MaxBatch
  BY DEF BatchInv, Prepare
<1>2. batch' = Prepared /\ wpc' = (IF BatchFull THEN "attempt" ELSE "select")
  BY DEF Prepare
<1>3. Cardinality(Prepared) \in Nat /\ Cardinality(Prepared) <= MaxBatch
  <2>1. Cardinality(batch \cup {item}) = Cardinality(batch) + 1
    BY BatchTyped, FS_AddElement
  <2>2. Cardinality(Prepared) = Cardinality(batch) + 1 \/ Cardinality(Prepared) = Cardinality(batch)
    BY <2>1 DEF Prepared
  <2>3. Cardinality(batch) \in Nat /\ MaxBatch \in Nat
    BY BatchTyped
  <2> QED BY <1>1, <2>2, <2>3
<1>4. Cardinality({}) = 0
  BY FS_EmptySet
<1>5. BatchFull => Prepared # {}
  BY <1>4, BatchTyped DEF BatchFull
<1>6. ~BatchFull => Cardinality(Prepared) < MaxBatch
  BY <1>3, BatchTyped DEF BatchFull
<1>7. ASSUME NEW e \in Prepared, NEW f \in Prepared, Concept[e] = Concept[f] PROVE e = f
  <2>1. CASE Verdict(item) # "kept"
    BY <1>7, <2>1 DEF BatchInv, Prepared
  <2>2. CASE Verdict(item) = "kept"
    <3>1. \A g \in batch : Concept[g] # Concept[item]
      BY <2>2 DEF Verdict, Hashes
    <3> QED BY <1>7, <2>2, <3>1 DEF BatchInv, Prepared
  <2> QED BY <2>1, <2>2
<1> QED BY <1>2, <1>3, <1>5, <1>6, <1>7 DEF BatchInv, Flushing

LEMMA BatchStep ==
    ASSUME TypeOK, BatchInv, pending = Hashes(batch), item \notin batch, [Next]_vars
    PROVE  BatchInv'
<1>1. CASE UNCHANGED <<batch, wpc>>
  BY <1>1 DEF BatchInv, Flushing
<1>2. ASSUME UNCHANGED batch, Flushing, Flushing' PROVE BatchInv'
  BY <1>2 DEF BatchInv, Flushing
<1>3. CASE FlushSucceeds \/ FlushFails
  <2>1. batch' = {} /\ wpc' \in {"done", "select"}
    BY <1>3 DEF FlushSucceeds, FlushFails, AfterFlush, BatchAfterFlush
  <2> QED BY <2>1, BatchTyped, FS_EmptySet DEF BatchInv, Flushing
<1>4. CASE Worker
  <2>1. CASE Receive
    BY <2>1 DEF Receive, BatchInv, Flushing
  <2>2. CASE Tick
    BY <2>2 DEF Tick, TickFlushes, BatchInv, Flushing
  <2>3. CASE Exit
    BY <2>3 DEF Exit, BatchInv, Flushing
  <2>4. CASE Attempt \/ Backoff
    BY <1>2, <1>3, <2>4 DEF Attempt, Backoff, Flushing
  <2>5. ASSUME NEW r \in Replies, Reply(r) PROVE BatchInv'
    BY <1>2, <1>3, <2>5 DEF Reply, Retry, Flushing
  <2> QED BY <1>4, <2>1, <2>2, <2>3, <2>4, <2>5, BatchPrepare DEF Worker
<1>5. ASSUME NEW e \in Exchanges, Producer(e) PROVE BatchInv'
  BY <1>1, <1>5, CallSteps DEF workerVars
<1>6. ASSUME \/ \E d \in Drainers : Drainer(d)
             \/ DrainDeadline
             \/ \E e \in Exchanges : Commit(e)
             \/ UNCHANGED vars
      PROVE  BatchInv'
  BY <1>1, <1>6 DEF Drainer, DrainBegin, DrainClose, DrainReturn, DrainDeadline, Commit, vars,
         workerVars
<1> QED BY <1>4, <1>5, <1>6 DEF Next, Terminated

LEMMA BatchInvariant == Spec => []BatchInv
<1>1. Init => BatchInv
  <2> SUFFICES ASSUME Init PROVE BatchInv
    OBVIOUS
  <2>1. batch = {} /\ wpc = "select"
    BY DEF Init
  <2> QED BY <2>1, StoreAssumption, FS_EmptySet DEF BatchInv, Flushing
<1>2. TypeOK /\ BatchInv /\ LedgerInv /\ PlaceInv /\ [Next]_vars => BatchInv'
  BY BatchStep DEF LedgerInv, PlaceInv
<1> QED BY <1>1, <1>2, TypeCorrect, LedgerInvariant, PlaceInvariant, PTL DEF Spec

\* What the ring remembers was saved by an exchange of this session.
SavedInv ==
    \A h \in Concepts : Seen(window, h) => \E e \in Exchanges : outcome[e] = "saved" /\ Concept[e] = h

\* An outcome stays.
LEMMA OutcomesStay ==
    ASSUME PlaceTyped, PlaceInv, [Next]_vars, NEW e \in Exchanges, outcome[e] # "none"
    PROVE  outcome'[e] = outcome[e]
<1>1. \A f \in Exchanges : f \in batch \/ f = item => Owed(f)
  BY DEF PlaceInv
<1>2. ASSUME NEW S, NEW o, Settle(S, o), \A f \in S : outcome[f] = "none" PROVE outcome'[e] = outcome[e]
  BY <1>2 DEF Settle
<1>3. CASE Prepare
  <2>1. item \in Exchanges
    BY <1>3 DEF Prepare, PlaceTyped
  <2> QED BY <1>1, <1>2, <1>3, <2>1 DEF Prepare, Owed
<1>4. CASE Ends
  <2>1. \A f \in batch : outcome[f] = "none"
    BY <1>1 DEF PlaceTyped, Owed
  <2> QED BY <1>2, <1>4, <2>1 DEF Ends, FlushSucceeds, FlushFails
<1>5. ASSUME NEW f \in Exchanges, Refuses(f) PROVE outcome'[e] = outcome[e]
  BY <1>2, <1>5 DEF Refuses, Running, PlaceInv
<1>6. ASSUME NEW f \in Exchanges, Store(f) \/ GoesOn(f) \/ Queues(f) PROVE outcome'[e] = outcome[e]
  BY <1>6 DEF Store, GoesOn, Queues, history
<1>7. CASE Receive \/ Elsewhere
  BY <1>7 DEF Receive, Elsewhere, history
<1> QED BY <1>3, <1>4, <1>5, <1>6, <1>7, StepKinds

\* The ring learns nothing but the batch that was saved.
LEMMA RingLearns ==
    ASSUME TypeOK, [Next]_vars, NEW h \in Concepts, Seen(window', h), ~Seen(window, h)
    PROVE  FlushSucceeds /\ h \in Hashes(batch)
<1>1. CASE FlushSucceeds
  <2>1. window \in Window /\ Hashes(batch) \subseteq Concepts
    BY ConceptType DEF TypeOK, WorkerTyped, Hashes
  <2>2. PICK i \in Slots : h \in window'.slots[i]
    BY DEF Seen
  <2>3. h \in window.slots[i] \/ h \in Hashes(batch)
    BY <1>1, <2>1, <2>2 DEF FlushSucceeds, Record, Window
  <2> QED BY <1>1, <2>3 DEF Seen
<1>2. UNCHANGED window \/ AdvanceWindow \/ FlushSucceeds
  <2>1. CASE Worker
    BY <2>1 DEF Worker, Receive, Prepare, Tick, Exit, Attempt, Backoff, Reply, Retry, FlushFails
  <2>2. ASSUME NEW e \in Exchanges, Producer(e) PROVE UNCHANGED window
    BY <2>2, CallSteps DEF workerVars
  <2>3. ASSUME \/ \E d \in Drainers : Drainer(d)
               \/ DrainDeadline
               \/ \E e \in Exchanges : Commit(e)
               \/ UNCHANGED vars
        PROVE  UNCHANGED window
    BY <2>3 DEF Drainer, DrainBegin, DrainClose, DrainReturn, DrainDeadline, Commit, vars, workerVars
  <2> QED BY <2>1, <2>2, <2>3 DEF Next, Terminated
<1> QED BY <1>1, <1>2, RollForgets

LEMMA SavedInvariant == Spec => []SavedInv
<1>1. Init => SavedInv
  BY DEF Init, SavedInv, Seen, EmptyWindow
<1>2. TypeOK /\ PlaceInv /\ SavedInv /\ [Next]_vars => SavedInv'
  <2> SUFFICES ASSUME TypeOK, PlaceInv, SavedInv, [Next]_vars, NEW h \in Concepts, Seen(window', h)
               PROVE  \E e \in Exchanges : outcome'[e] = "saved" /\ Concept[e] = h
    BY DEF SavedInv
  <2>1. CASE Seen(window, h)
    <3>1. PICK e \in Exchanges : outcome[e] = "saved" /\ Concept[e] = h
      BY <2>1 DEF SavedInv
    <3>2. outcome'[e] = outcome[e]
      BY <3>1, PlacesTyped, OutcomesStay
    <3> QED BY <3>1, <3>2
  <2>2. CASE ~Seen(window, h)
    <3>1. FlushSucceeds /\ h \in Hashes(batch)
      BY <2>2, RingLearns
    <3>2. PICK e \in batch : Concept[e] = h
      BY <3>1 DEF Hashes
    <3>3. e \in Exchanges
      BY DEF TypeOK, WorkerTyped
    <3> QED BY <3>1, <3>2, <3>3 DEF FlushSucceeds, Settle
  <2> QED BY <2>1, <2>2
<1> QED BY <1>1, <1>2, TypeCorrect, PlaceInvariant, PTL DEF Spec

\* The worker exits with nothing to deliver on a closed queue, and Drain only
\* returns when it has.
ShutInv ==
    /\ exiting => closed /\ queue = << >>
    /\ wpc = "done" => exiting
    /\ once = "finished" => wpc = "done"
    /\ \A d \in Drainers : dpc[d] = "returned" => once = "finished"

LEMMA ShutStep ==
    ASSUME TypeOK, ShutInv, [Next]_vars
    PROVE  ShutInv'
<1>1. ASSUME NEW e \in Exchanges, Producer(e) PROVE ShutInv'
  <2>1. UNCHANGED <<exiting, wpc, closed, once, dpc>> /\ (closed => UNCHANGED queue)
    BY <1>1, CallSteps DEF Store, GoesOn, Refuses, Queues, workerVars, drainVars
  <2> QED BY <2>1 DEF ShutInv
<1>2. CASE Worker
  <2>1. UNCHANGED <<closed, once, dpc>> /\ wpc # "done"
    BY <1>2 DEF Worker, Receive, Prepare, Tick, Exit, Attempt, Backoff, Reply, Retry, FlushFails,
        FlushSucceeds, AfterFlush, drainVars
  <2>2. once # "finished" /\ \A d \in Drainers : dpc[d] # "returned"
    BY <2>1 DEF ShutInv
  <2>3. CASE Exit
    BY <2>1, <2>2, <2>3 DEF Exit, ShutInv
  <2>4. CASE ~Exit
    <3>1. UNCHANGED exiting /\ (exiting => UNCHANGED queue)
      BY <1>2, <2>4 DEF Worker, Receive, Prepare, Tick, Attempt, Backoff, Reply, Retry, FlushFails,
          FlushSucceeds, AfterFlush, ShutInv
    <3>2. wpc' = "done" => exiting
      BY <1>2, <2>1, <2>4 DEF Worker, Receive, Prepare, Tick, Attempt, Backoff, Reply, Retry, FlushFails,
          FlushSucceeds, AfterFlush
    <3> QED BY <2>1, <2>2, <3>1, <3>2 DEF ShutInv
  <2> QED BY <2>3, <2>4
<1>3. ASSUME NEW d \in Drainers, Drainer(d) PROVE ShutInv'
  <2>1. UNCHANGED <<exiting, wpc, queue>> /\ (closed => closed')
    BY <1>3 DEF Drainer, DrainBegin, DrainClose, DrainReturn, workerVars
  <2>2. CASE DrainReturn(d)
    BY <2>1, <2>2 DEF DrainReturn, WorkerDone, ShutInv, TypeOK, DrainTyped
  <2>3. CASE DrainBegin(d) \/ DrainClose(d)
    <3>1. \A x \in Drainers : dpc'[x] = "returned" => dpc[x] = "returned"
      BY <2>3 DEF DrainBegin, DrainClose, TypeOK, DrainTyped
    <3>2. once' = once \/ (once = "fresh" /\ once' = "running")
      BY <2>3 DEF DrainBegin, DrainClose
    <3> QED BY <2>1, <3>1, <3>2 DEF ShutInv
  <2> QED BY <1>3, <2>2, <2>3 DEF Drainer
<1>4. ASSUME DrainDeadline \/ (\E e \in Exchanges : Commit(e)) \/ UNCHANGED vars PROVE ShutInv'
  BY <1>4 DEF DrainDeadline, Commit, vars, workerVars, drainVars, ShutInv
<1> QED BY <1>1, <1>2, <1>3, <1>4 DEF Next, Terminated

LEMMA ShutInvariant == Spec => []ShutInv
<1>1. Init => ShutInv
  BY DEF Init, ShutInv
<1>2. TypeOK /\ ShutInv /\ [Next]_vars => ShutInv'
  BY ShutStep
<1> QED BY <1>1, <1>2, TypeCorrect, PTL DEF Spec

-----------------------------------------------------------------------------
(***************************************************************************)
(* The store implements Delivery: each of its steps is a step of the       *)
(* promise or changes nothing the promise sees.                            *)
(***************************************************************************)

IsShut == \E d \in Drainers : dpc[d] = "returned"

\* The fates, read off the place an exchange has reached.
LEMMA Fates ==
    ASSUME NEW e \in Exchanges
    PROVE  /\ outcome[e] # "none" => Fate(e) = outcome[e]
           /\ Owed(e) => Fate(e) = "accepted"
           /\ outcome[e] = "none" /\ pc[e] = "new" => Fate(e) = "unseen"
           /\ outcome[e] = "none" /\ Running(pc[e]) => Fate(e) = "offered"
BY DEF Fate, Owed, Running

LEMMA FatesNext ==
    ASSUME NEW e \in Exchanges
    PROVE  /\ outcome'[e] # "none" => Fate(e)' = outcome'[e]
           /\ outcome'[e] = "none" /\ pc'[e] = "returned" => Fate(e)' = "accepted"
           /\ outcome'[e] = "none" /\ Running(pc'[e]) => Fate(e)' = "offered"
           /\ outcome'[e] = outcome[e] /\ pc'[e] = pc[e] => Fate(e)' = Fate(e)
BY DEF Fate, Running

LEMMA Invisible ==
    ASSUME \A e \in Exchanges : Fate(e)' = Fate(e), IsShut' = IsShut
    PROVE  UNCHANGED Promise!vars
BY DEF Promise!vars, IsShut

\* The promise counts as the store does.
LEMMA SameCount == \A S : Promise!Cardinality(S) = Cardinality(S)
BY DEF Promise!Cardinality, Cardinality, Promise!IsFiniteSet, IsFiniteSet

LEMMA Becomes ==
    ASSUME NEW S \in SUBSET Exchanges, NEW from, NEW to,
           \A e \in S : Fate(e) = from /\ Fate(e)' = to,
           \A e \in Exchanges \ S : Fate(e)' = Fate(e)
    PROVE  Promise!Become(S, from, to)
BY DEF Promise!Become

\* What settles a set of exchanges that are owed an outcome.
LEMMA SettleBecomes ==
    ASSUME PlaceTyped, NEW S \in SUBSET Exchanges, NEW o, o # "none", Settle(S, o), UNCHANGED pc,
           \A e \in S : Owed(e)
    PROVE  Promise!Become(S, "accepted", o)
<1>1. \A e \in S : Fate(e) = "accepted" /\ Fate(e)' = o
  BY Fates, FatesNext DEF Settle
<1>2. \A e \in Exchanges \ S : Fate(e)' = Fate(e)
  BY FatesNext DEF Settle
<1> QED BY <1>1, <1>2, Becomes

\* A step of a Store call offers, refuses or accepts its exchange, or is invisible.
LEMMA PromiseCall ==
    ASSUME PlaceTyped, PlaceInv, ShutInv, NEW e \in Exchanges, Producer(e)
    PROVE  UNCHANGED Promise!vars \/ Promise!Next
<1>1. IsShut' = IsShut
  BY CallSteps DEF drainVars, IsShut
<1>2. \A f \in Exchanges \ {e} : UNCHANGED pc[f] /\ UNCHANGED outcome[f] => Fate(f)' = Fate(f)
  BY FatesNext
<1>3. pc[e] # "returned" => outcome[e] = "none"
  BY DEF PlaceInv
<1>4. CASE Store(e)
  <2>1. \A f \in Exchanges \ {e} : Fate(f)' = Fate(f)
    BY <1>2, <1>4 DEF Store, Goto, history, PlaceTyped
  <2>2. pc[e] = "new" /\ pc'[e] = "load" /\ outcome'[e] = outcome[e]
    BY <1>4 DEF Store, Goto, history, PlaceTyped
  <2>3. Fate(e) = "unseen" /\ Fate(e)' = "offered"
    BY <1>3, <2>2, Fates, FatesNext DEF Running
  <2>4. Promise!Offer(e)
    BY <1>1, <2>1, <2>3, Becomes DEF Promise!Offer, IsShut
  <2> QED BY <2>4 DEF Promise!Next
<1>5. CASE GoesOn(e)
  <2>1. \A f \in Exchanges \ {e} : Fate(f)' = Fate(f)
    BY <1>2, <1>5 DEF GoesOn, Goto, PlaceTyped
  <2>2. Running(pc[e]) /\ Running(pc'[e]) /\ outcome'[e] = outcome[e] /\ pc[e] # "returned"
    BY <1>5 DEF GoesOn, Goto, PlaceTyped, Running
  <2>3. Fate(e)' = Fate(e)
    BY <1>3, <2>2, Fates, FatesNext
  <2> QED BY <1>1, <2>1, <2>3, Invisible
<1>6. CASE Refuses(e)
  <2>1. \A f \in Exchanges \ {e} : Fate(f)' = Fate(f)
    BY <1>2, <1>6 DEF Refuses, Goto, Settle, PlaceTyped
  <2>2. Running(pc[e]) /\ pc[e] # "returned" /\ outcome'[e] = "dropped"
    BY <1>6 DEF Refuses, Running, Settle
  <2>3. Fate(e) = "offered" /\ Fate(e)' = "dropped"
    BY <1>3, <2>2, Fates, FatesNext
  <2>4. Promise!Refuse(e)
    BY <1>1, <2>1, <2>3, Becomes DEF Promise!Refuse, IsShut
  <2> QED BY <2>4 DEF Promise!Next
<1>7. CASE Queues(e)
  <2>1. \A f \in Exchanges \ {e} : Fate(f)' = Fate(f)
    BY <1>2, <1>7 DEF Queues, Goto, PlaceTyped
  <2>2. Running(pc[e]) /\ pc[e] # "returned" /\ pc'[e] = "returned" /\ outcome'[e] = outcome[e]
    BY <1>7 DEF Queues, Goto, Running, PlaceTyped
  <2>3. Fate(e) = "offered" /\ Fate(e)' = "accepted"
    BY <1>3, <2>2, Fates, FatesNext
  <2>4. ~IsShut
    BY <1>7 DEF Queues, ShutInv, IsShut
  <2>5. Promise!Accept(e)
    BY <1>1, <2>1, <2>3, <2>4, Becomes DEF Promise!Accept, IsShut
  <2> QED BY <2>5 DEF Promise!Next
<1> QED BY <1>4, <1>5, <1>6, <1>7, CallSteps

\* What Prepare suppresses repeats an exchange that is saved or still owed.
LEMMA PromiseCollapse ==
    ASSUME PlaceTyped, PlaceInv, SavedInv, pending = Hashes(batch), item \in Exchanges,
           Concept[item] # NoConcept, Verdict(item) = "deduped"
    PROVE  \E f \in Exchanges \ {item} :
              Concept[f] = Concept[item] /\ Fate(f) \in {"accepted", "saved"}
<1>1. Owed(item) /\ item \notin batch
  BY DEF PlaceInv
<1>2. CASE Seen(window, Concept[item])
  <2>1. PICK f \in Exchanges : outcome[f] = "saved" /\ Concept[f] = Concept[item]
    BY <1>2, ConceptType DEF SavedInv
  <2>2. Fate(f) = "saved" /\ f # item
    BY <1>1, <2>1, Fates DEF Owed
  <2> QED BY <2>1, <2>2
<1>3. CASE Concept[item] \in pending
  <2>1. PICK f \in batch : Concept[f] = Concept[item]
    BY <1>3 DEF Hashes
  <2>2. f \in Exchanges /\ f # item
    BY <1>1 DEF PlaceTyped
  <2>3. Fate(f) = "accepted"
    BY <2>2, Fates DEF PlaceInv
  <2> QED BY <2>1, <2>2, <2>3
<1> QED BY <1>2, <1>3 DEF Verdict

\* A step of the worker gives the outcomes Delivery allows.
LEMMA PromiseWorker ==
    ASSUME TypeOK, PlaceTyped, PlaceInv, BatchInv, SavedInv, pending = Hashes(batch), Worker
    PROVE  UNCHANGED Promise!vars \/ Promise!Next
<1>1. dpc' = dpc
  BY DEF Worker, Receive, Prepare, Tick, Exit, Attempt, Backoff, Reply, Retry, FlushFails,
     FlushSucceeds, AfterFlush, drainVars
<1>2. IsShut' = IsShut
  BY <1>1 DEF IsShut
<1>3. CASE UNCHANGED <<pc, outcome>>
  BY <1>2, <1>3, FatesNext, Invisible
<1>4. CASE Receive \/ Elsewhere
  BY <1>3, <1>4 DEF Receive, Elsewhere, producerVars, history
<1>5. CASE Prepare
  <2>1. item \in Exchanges /\ Owed(item) /\ UNCHANGED pc
    BY <1>5 DEF Prepare, PlaceTyped, PlaceInv, producerVars
  <2>2. CASE Verdict(item) = "kept"
    BY <1>3, <1>5, <2>1, <2>2 DEF Prepare
  <2>3. CASE Verdict(item) # "kept"
    <3>1. Settle({item}, Verdict(item))
      BY <1>5, <2>3 DEF Prepare
    <3>2. Promise!Become({item}, "accepted", Verdict(item))
      BY <2>1, <3>1, SettleBecomes DEF Verdict
    <3>3. CASE Concept[item] = NoConcept
      <4>1. Promise!Skip(item)
        BY <1>2, <3>2, <3>3 DEF Promise!Skip, Verdict, IsShut
      <4> QED BY <2>1, <4>1 DEF Promise!Next
    <3>4. CASE Concept[item] # NoConcept
      <4>1. Verdict(item) = "deduped"
        BY <2>3, <3>4 DEF Verdict
      <4>2. PICK f \in Exchanges \ {item} :
                Concept[f] = Concept[item] /\ Fate(f) \in {"accepted", "saved"}
        BY <2>1, <3>4, <4>1, PromiseCollapse
      <4>3. Promise!Collapse(item)
        BY <1>2, <3>2, <4>1, <4>2 DEF Promise!Collapse, IsShut
      <4> QED BY <2>1, <4>3 DEF Promise!Next
    <3> QED BY <3>3, <3>4
  <2> QED BY <2>2, <2>3
<1>6. CASE Ends
  <2>1. batch \in SUBSET Exchanges /\ UNCHANGED pc
    BY <1>6 DEF Ends, FlushSucceeds, FlushFails, AfterFlush, producerVars, PlaceTyped
  <2>2. \A e \in batch : Owed(e)
    BY <2>1 DEF PlaceInv
  <2>3. \A e \in batch : Concept[e] # NoConcept
    BY DEF TypeOK, WorkerTyped
  <2>4. Promise!Writable(batch)
    BY <1>6, <2>1, <2>3, SameCount DEF Promise!Writable, BatchInv, Ends, Flushing
  <2>5. CASE FlushSucceeds
    <3>1. Promise!Become(batch, "accepted", "saved")
      BY <2>1, <2>2, <2>5, SettleBecomes DEF FlushSucceeds
    <3>2. Promise!Deliver(batch)
      BY <1>2, <2>4, <3>1 DEF Promise!Deliver, IsShut
    <3> QED BY <2>1, <3>2 DEF Promise!Next
  <2>6. CASE FlushFails
    <3>1. Promise!Become(batch, "accepted", "failed")
      BY <2>1, <2>2, <2>6, SettleBecomes DEF FlushFails
    <3>2. Promise!Lose(batch)
      BY <1>2, <2>4, <3>1 DEF Promise!Lose, IsShut
    <3> QED BY <2>1, <3>2 DEF Promise!Next
  <2> QED BY <1>6, <2>5, <2>6 DEF Ends
<1> QED BY <1>4, <1>5, <1>6, WorkerSteps

\* A Drain call that returns leaves nothing accepted: the queue, the worker's
\* hand and the batch are empty.
LEMMA PromiseDrain ==
    ASSUME TypeOK, PlaceTyped, PlaceInv, BatchInv, ShutInv, NEW d \in Drainers, DrainReturn(d)
    PROVE  Promise!Shut
<1>1. wpc = "done"
  BY DEF DrainReturn, WorkerDone, ShutInv
<1>2. queue = << >> /\ batch = {} /\ item \notin Exchanges
  BY <1>1 DEF ShutInv, BatchInv, PlaceTyped
<1>3. \A e \in Exchanges : ~Owed(e)
  BY <1>2 DEF PlaceInv, Holds
<1>4. \A e \in Exchanges : Fate(e) # "accepted"
  BY <1>3 DEF PlaceTyped, Outcomes, Fate, Owed
<1>5. \A e \in Exchanges : Fate(e)' = Fate(e)
  BY FatesNext DEF DrainReturn, producerVars, history
<1>6. IsShut'
  BY DEF DrainReturn, IsShut, TypeOK, DrainTyped
<1> QED BY <1>4, <1>5, <1>6 DEF Promise!Shut, IsShut

\* Everybody else's steps are invisible.
LEMMA PromiseOther ==
    ASSUME TypeOK,
           \/ \E d \in Drainers : DrainBegin(d) \/ DrainClose(d)
           \/ DrainDeadline
           \/ \E e \in Exchanges : Commit(e)
           \/ UNCHANGED vars
    PROVE  UNCHANGED Promise!vars
<1>1. UNCHANGED <<pc, outcome>>
  BY DEF DrainBegin, DrainClose, DrainDeadline, Commit, vars, producerVars, history
<1>2. \A d \in Drainers : dpc'[d] = "returned" <=> dpc[d] = "returned"
  BY DEF DrainBegin, DrainClose, DrainDeadline, Commit, vars, drainVars, TypeOK, DrainTyped
<1>3. IsShut' = IsShut
  BY <1>2 DEF IsShut
<1> QED BY <1>1, <1>3, FatesNext, Invisible

LEMMA PromiseStarts == Init => Promise!Init
BY DEF Init, Promise!Init, Fate

LEMMA PromiseGoesOn ==
    ASSUME TypeOK, LedgerInv, PlaceInv, BatchInv, SavedInv, ShutInv, [Next]_vars
    PROVE  UNCHANGED Promise!vars \/ Promise!Next
<1>1. PlaceTyped /\ pending = Hashes(batch)
  BY PlacesTyped DEF LedgerInv
<1>2. CASE \E e \in Exchanges : Producer(e)
  BY <1>1, <1>2, PromiseCall
<1>3. CASE Worker
  BY <1>1, <1>3, PromiseWorker
<1>4. CASE \E d \in Drainers : DrainReturn(d)
  BY <1>1, <1>4, PromiseDrain DEF Promise!Next
<1> QED BY <1>2, <1>3, <1>4, PromiseOther DEF Next, Drainer, Terminated

\* The promise of the store is kept in every behaviour, for every number of
\* producers, ring, queue, budget and batch size: what Store, the worker and
\* Drain do together is what Delivery allows.
THEOREM PromiseKept == Spec => ImplementsDelivery
<1>1. TypeOK /\ LedgerInv /\ PlaceInv /\ BatchInv /\ SavedInv /\ ShutInv /\ [Next]_vars
         => [Promise!Next]_(Promise!vars)
  BY PromiseGoesOn
<1> QED BY <1>1, PromiseStarts, TypeCorrect, LedgerInvariant, PlaceInvariant, BatchInvariant,
           SavedInvariant, ShutInvariant, PTL DEF Spec, ImplementsDelivery, Promise!Spec

-----------------------------------------------------------------------------
(***************************************************************************)
(* Conservation: every counter counts the exchanges of one outcome, and    *)
(* the outcomes with the exchanges in transit divide those captured.       *)
(***************************************************************************)

Captured == {e \in Exchanges : pc[e] # "new"}

With(o) == {e \in Exchanges : outcome[e] = o}

Tallies == {"dropped", "skipped", "deduped", "flushed", "flushErrors"}

\* The outcome a counter counts.
Tallied(c) == IF c = "flushed" THEN "saved" ELSE IF c = "flushErrors" THEN "failed" ELSE c

TallyInv ==
    /\ stats["captured"] = Cardinality(Captured)
    /\ \A c \in Tallies : stats[c] = Cardinality(With(Tallied(c)))

LEMMA DisjointCount ==
    ASSUME NEW S \in SUBSET Exchanges, NEW T \in SUBSET Exchanges, S \cap T = {}
    PROVE  /\ Cardinality(S \cup T) = Cardinality(S) + Cardinality(T)
           /\ Cardinality(S) \in Nat /\ Cardinality(T) \in Nat
<1>1. IsFiniteSet(S) /\ IsFiniteSet(T) /\ Cardinality(S) \in Nat /\ Cardinality(T) \in Nat
  BY BatchFinite
<1>2. Cardinality(S \cup T) = Cardinality(S) + Cardinality(T) - Cardinality(S \cap T)
  BY <1>1, FS_Union
<1>3. Cardinality(S \cap T) = 0
  BY FS_EmptySet
<1> QED BY <1>1, <1>2, <1>3

\* Settling exchanges that had no outcome, and counting as many, keeps the tallies.
LEMMA TallySettle ==
    ASSUME PlaceTyped, TallyInv, stats \in [Counters -> Nat], NEW S \in SUBSET Exchanges,
           NEW c \in Tallies, Settle(S, Tallied(c)), Count(c, Cardinality(S)),
           \A e \in S : outcome[e] = "none", Captured' = Captured
    PROVE  TallyInv'
<1>1. Tallied(c) # "none" /\ \A d \in Tallies \ {c} : Tallied(d) # Tallied(c) /\ Tallied(d) # "none"
  BY DEF Tallies, Tallied
<1>2. With(Tallied(c))' = With(Tallied(c)) \cup S /\ With(Tallied(c)) \cap S = {}
  BY <1>1 DEF Settle, With
<1>3. \A d \in Tallies \ {c} : With(Tallied(d))' = With(Tallied(d))
  BY <1>1 DEF Settle, With
<1>4. Cardinality(With(Tallied(c)))' = Cardinality(With(Tallied(c))) + Cardinality(S)
  BY <1>2, DisjointCount DEF With
<1>5. stats' = [stats EXCEPT ![c] = @ + Cardinality(S)] /\ c \in Counters
  BY DEF Count, Tallies, Counters
<1>6. \A d \in Counters \ {c} : stats'[d] = stats[d]
  BY <1>5
<1>7. stats'[c] = stats[c] + Cardinality(S)
  BY <1>5
<1>8. "captured" \in Counters \ {c} /\ Tallies \subseteq Counters
  BY DEF Tallies, Counters
<1>9. stats'["captured"] = Cardinality(Captured)'
  BY <1>6, <1>8 DEF TallyInv
<1>10. stats'[c] = Cardinality(With(Tallied(c)))'
  BY <1>4, <1>7 DEF TallyInv
<1>11. \A d \in Tallies \ {c} : stats'[d] = Cardinality(With(Tallied(d)))'
  BY <1>3, <1>6, <1>8 DEF TallyInv
<1>12. \A d \in Tallies : stats'[d] = Cardinality(With(Tallied(d)))'
  BY <1>10, <1>11
<1> QED BY <1>9, <1>12 DEF TallyInv

\* A step of a Store call counts the exchange as captured, or its loss.
LEMMA TallyCall ==
    ASSUME PlaceTyped, PlaceInv, TallyInv, stats \in [Counters -> Nat], NEW e \in Exchanges,
           Store(e) \/ GoesOn(e) \/ Refuses(e) \/ Queues(e)
    PROVE  TallyInv'
<1>1. CASE Store(e)
  <2>1. Captured' = Captured \cup {e} /\ Captured \cap {e} = {}
    BY <1>1 DEF Store, Goto, Captured, PlaceTyped
  <2>2. Cardinality({e}) = 1
    BY FS_Singleton
  <2>3. Cardinality(Captured)' = Cardinality(Captured) + 1
    BY <2>1, <2>2, DisjointCount DEF Captured
  <2>4. \A o : With(o)' = With(o)
    BY <1>1 DEF Store, history, With
  <2>5. stats' = [stats EXCEPT !["captured"] = @ + 1] /\ "captured" \in Counters
    BY <1>1 DEF Store, Count, Counters
  <2>6. stats'["captured"] = stats["captured"] + 1
    BY <2>5
  <2>7. \A c \in Tallies : stats'[c] = stats[c]
    BY <2>5 DEF Tallies, Counters
  <2>8. stats'["captured"] = Cardinality(Captured)'
    BY <2>3, <2>6 DEF TallyInv
  <2> QED BY <2>4, <2>7, <2>8 DEF TallyInv
<1>2. CASE GoesOn(e) \/ Refuses(e) \/ Queues(e)
  <2>1. Captured' = Captured
    BY <1>2 DEF GoesOn, Refuses, Queues, Running, Goto, Captured, PlaceTyped
  <2>2. CASE UNCHANGED <<outcome, stats>>
    BY <2>1, <2>2 DEF TallyInv, With
  <2>3. CASE Refuses(e)
    <3>1. Cardinality({e}) = 1 /\ Tallied("dropped") = "dropped" /\ "dropped" \in Tallies
      BY FS_Singleton DEF Tallied, Tallies
    <3>2. Settle({e}, Tallied("dropped")) /\ Count("dropped", Cardinality({e})) /\ outcome[e] = "none"
      BY <2>3, <3>1 DEF Refuses, Running, PlaceInv
    <3> QED BY <2>1, <3>1, <3>2, TallySettle
  <2> QED BY <1>2, <2>2, <2>3 DEF GoesOn, Queues
<1> QED BY <1>1, <1>2

\* What the worker skips, collapses or flushes is counted once.
LEMMA TallyWorker ==
    ASSUME PlaceTyped, PlaceInv, TallyInv, stats \in [Counters -> Nat], Prepare \/ Ends
    PROVE  TallyInv'
<1>1. Captured' = Captured
  BY DEF Prepare, Ends, FlushSucceeds, FlushFails, AfterFlush, producerVars, Captured
<1>2. CASE Prepare
  <2>1. item \in Exchanges /\ outcome[item] = "none"
    BY <1>2 DEF Prepare, PlaceTyped, PlaceInv, Owed
  <2>2. CASE Verdict(item) = "kept"
    BY <1>1, <1>2, <2>2 DEF Prepare, TallyInv, With
  <2>3. CASE Verdict(item) # "kept"
    <3>1. Verdict(item) \in Tallies /\ Tallied(Verdict(item)) = Verdict(item)
      BY <2>3 DEF Verdict, Tallies, Tallied
    <3>2. Cardinality({item}) = 1
      BY FS_Singleton
    <3>3. Settle({item}, Tallied(Verdict(item))) /\ Count(Verdict(item), Cardinality({item}))
      BY <1>2, <2>3, <3>1, <3>2 DEF Prepare
    <3> QED BY <1>1, <2>1, <3>1, <3>3, TallySettle
  <2> QED BY <2>2, <2>3
<1>3. CASE Ends
  <2>1. batch \in SUBSET Exchanges /\ \A e \in batch : outcome[e] = "none"
    BY DEF PlaceTyped, PlaceInv, Owed
  <2>2. \E c \in {"flushed", "flushErrors"} : Settle(batch, Tallied(c)) /\ Count(c, Cardinality(batch))
    BY <1>3 DEF Ends, FlushSucceeds, FlushFails, FlushSize, Tallied
  <2> QED BY <1>1, <2>1, <2>2, TallySettle DEF Tallies
<1> QED BY <1>2, <1>3

LEMMA TallyInvariant == Spec => []TallyInv
<1>1. Init => TallyInv
  <2> SUFFICES ASSUME Init PROVE TallyInv
    OBVIOUS
  <2>1. Captured = {}
    BY DEF Init, Captured
  <2>2. \A c \in Tallies : With(Tallied(c)) = {}
    BY DEF Init, With, Tallies, Tallied
  <2>3. stats["captured"] = 0 /\ \A c \in Tallies : stats[c] = 0
    BY DEF Init, Tallies, Counters
  <2> QED BY <2>1, <2>2, <2>3, FS_EmptySet DEF TallyInv
<1>2. TypeOK /\ PlaceInv /\ TallyInv /\ [Next]_vars => TallyInv'
  <2> SUFFICES ASSUME TypeOK, PlaceInv, TallyInv, [Next]_vars PROVE TallyInv'
    OBVIOUS
  <2>1. PlaceTyped /\ stats \in [Counters -> Nat]
    BY PlacesTyped DEF TypeOK
  <2>2. CASE Receive \/ Elsewhere
    BY <2>2 DEF Receive, Elsewhere, producerVars, history, TallyInv, Captured, With
  <2> QED BY <2>1, <2>2, StepKinds, TallyCall, TallyWorker
<1> QED BY <1>1, <1>2, TypeCorrect, PlaceInvariant, PTL DEF Spec

\* Without a panic, what is in transit is what was captured and has no outcome.
LEMMA TransitIs ==
    ASSUME PlaceTyped, PlaceInv, NoSendOnClosedChannel
    PROVE  InTransit = Captured \cap With("none")
<1>1. \A e \in Exchanges : e \in Range(queue) <=> Holds(queue, e)
  BY LenProperties DEF Range, Holds, PlaceTyped
<1>2. Range(queue) \subseteq Exchanges
  BY LenProperties DEF Range, PlaceTyped
<1>3. \A e \in Exchanges : e \in Range(queue) \cup InWorker <=> Owed(e)
  BY <1>1, NoneIsNone DEF PlaceInv, InWorker
<1>4. InWorker \subseteq Exchanges
  BY DEF InWorker, PlaceTyped
<1>5. InTransit \subseteq Exchanges
  BY <1>2, <1>4 DEF InTransit
<1>6. ASSUME NEW e \in Exchanges PROVE e \in InTransit <=> pc[e] # "new" /\ outcome[e] = "none"
  <2>1. CASE pc[e] = "returned"
    BY <1>3, <2>1 DEF InTransit, Owed
  <2>2. CASE pc[e] # "returned"
    <3>1. e \notin Range(queue) \cup InWorker /\ outcome[e] = "none"
      BY <1>3, <2>2 DEF Owed, PlaceInv
    <3>2. pc[e] \in {"new", "load", "cas", "reserved", "sending", "dropping"}
      BY <2>2 DEF PlaceTyped, NoSendOnClosedChannel
    <3> QED BY <3>1, <3>2 DEF InTransit
  <2> QED BY <2>1, <2>2
<1> QED BY <1>5, <1>6 DEF Captured, With

\* The backlog the session summary derives by subtraction is the real one, at
\* every moment and for every bound: no exchange is counted twice or lost
\* between Store, the worker, a failed flush and Drain.
THEOREM Accounted == Spec => []Conservation
<1>1. TypeOK /\ PlaceInv /\ TallyInv /\ NoSendOnClosedChannel => Conservation
  <2> SUFFICES ASSUME TypeOK, PlaceInv, TallyInv, NoSendOnClosedChannel PROVE Conservation
    OBVIOUS
  <2> DEFINE T == Captured \cap With("none")
  <2>1. PlaceTyped
    BY PlacesTyped
  <2>2. \A e \in Exchanges : outcome[e] # "none" => e \in Captured
    BY DEF PlaceInv, Captured
  <2>3. Captured = With("dropped") \cup With("skipped") \cup With("deduped") \cup With("saved")
                      \cup With("failed") \cup T
    BY <2>1, <2>2 DEF Captured, With, PlaceTyped, Outcomes
  <2>4. \A o : With(o) \in SUBSET Exchanges
    BY DEF With
  <2>5. Cardinality(With("dropped") \cup With("skipped") \cup With("deduped") \cup With("saved")
                      \cup With("failed") \cup T)
          = Cardinality(With("dropped")) + Cardinality(With("skipped")) + Cardinality(With("deduped"))
              + Cardinality(With("saved")) + Cardinality(With("failed")) + Cardinality(T)
    <3> DEFINE R == With("dropped") \cup With("skipped")
               S == R \cup With("deduped")
               U == S \cup With("saved")
               V == U \cup With("failed")
    <3>1. Cardinality(R) = Cardinality(With("dropped")) + Cardinality(With("skipped"))
      BY DisjointCount DEF With
    <3>2. Cardinality(S) = Cardinality(R) + Cardinality(With("deduped"))
      BY DisjointCount DEF With
    <3>3. Cardinality(U) = Cardinality(S) + Cardinality(With("saved"))
      BY DisjointCount DEF With
    <3>4. Cardinality(V) = Cardinality(U) + Cardinality(With("failed"))
      BY DisjointCount DEF With
    <3>5. Cardinality(V \cup T) = Cardinality(V) + Cardinality(T)
      BY DisjointCount DEF With
    <3> QED BY <3>1, <3>2, <3>3, <3>4, <3>5
  <2>6. /\ stats["dropped"] = Cardinality(With("dropped"))
        /\ stats["skipped"] = Cardinality(With("skipped"))
        /\ stats["deduped"] = Cardinality(With("deduped"))
        /\ stats["flushed"] = Cardinality(With("saved"))
        /\ stats["flushErrors"] = Cardinality(With("failed"))
        /\ stats["captured"] = Cardinality(Captured)
    BY DEF TallyInv, Tallies, Tallied
  <2>7. InTransit = T
    BY <2>1, TransitIs
  <2>8. /\ Cardinality(With("dropped")) \in Nat /\ Cardinality(With("skipped")) \in Nat
        /\ Cardinality(With("deduped")) \in Nat /\ Cardinality(With("saved")) \in Nat
        /\ Cardinality(With("failed")) \in Nat
    BY <2>4, BatchFinite
  <2>9. Cardinality(T) \in Nat
    BY <2>4, BatchFinite
  <2>10. Cardinality(Captured)
           = Cardinality(With("dropped")) + Cardinality(With("skipped")) + Cardinality(With("deduped"))
              + Cardinality(With("saved")) + Cardinality(With("failed")) + Cardinality(InTransit)
    BY <2>3, <2>5, <2>7
  <2> HIDE DEF T
  <2> QED BY <2>6, <2>7, <2>8, <2>9, <2>10 DEF Conservation
<1> QED BY <1>1, TypeCorrect, PlaceInvariant, TallyInvariant, StoreNeverPanics, PTL

\* What a claim is checked against: the room its loop last saw.
RoomInv ==
    /\ queuedBytes <= ByteCap
    /\ \A e \in Exchanges : pc[e] = "cas" => headroom[e] + Size[e] <= ByteCap

LEMMA RoomCall ==
    ASSUME TypeOK, RoomInv, NEW e \in Exchanges, Producer(e)
    PROVE  RoomInv'
<1>1. queuedBytes \in Int /\ ByteCap \in Nat /\ Size[e] \in Nat /\ headroom \in [Exchanges -> Int]
  BY StoreAssumption DEF TypeOK, ProducersTyped
<1>2. pc \in [Exchanges -> {"new", "load", "cas", "reserved", "sending", "dropping",
                             "returned", "panicked"}]
  BY DEF TypeOK, ProducersTyped
<1>3. ASSUME UNCHANGED headroom, queuedBytes' <= ByteCap, NEW l, l # "cas", Goto(e, l)
      PROVE  RoomInv'
  BY <1>2, <1>3 DEF RoomInv, Goto
<1>4. CASE Store(e) \/ EnterEnqueue(e) \/ Send(e)
  BY <1>3, <1>4 DEF Store, EnterEnqueue, Send, RoomInv
<1>5. CASE Drop(e)
  <2>1. queuedBytes' = queuedBytes - Size[e]
    BY <1>5 DEF Drop
  <2>2. queuedBytes' <= ByteCap
    BY <1>1, <2>1 DEF RoomInv
  <2> QED BY <1>3, <1>5, <2>2 DEF Drop
<1>6. CASE ReserveLoad(e)
  <2>1. CASE Goto(e, "returned") /\ UNCHANGED headroom
    BY <1>3, <1>6, <2>1 DEF ReserveLoad, RoomInv
  <2>2. CASE queuedBytes + Size[e] <= ByteCap /\ Goto(e, "cas")
             /\ headroom' = [headroom EXCEPT ![e] = queuedBytes]
    BY <1>1, <1>2, <1>6, <2>2 DEF ReserveLoad, Goto, RoomInv
  <2> QED BY <1>6, <2>1, <2>2 DEF ReserveLoad
<1>7. CASE ReserveCAS(e)
  <2>1. headroom' = [headroom EXCEPT ![e] = 0] /\ (Goto(e, "reserved") \/ Goto(e, "load"))
    BY <1>7 DEF ReserveCAS
  <2>2. queuedBytes' <= ByteCap
    BY <1>7 DEF ReserveCAS, RoomInv
  <2> QED BY <1>1, <1>2, <2>1, <2>2 DEF Goto, RoomInv
<1> QED BY <1>4, <1>5, <1>6, <1>7 DEF Producer

\* The queue never holds more than its byte budget, however many reserve loops
\* race: a claim succeeds only against the room it was checked for (reserve).
THEOREM BudgetCapped == Spec => [](queuedBytes <= ByteCap)
<1>1. Init => RoomInv
  BY StoreAssumption DEF Init, RoomInv
<1>2. TypeOK /\ RoomInv /\ [Next]_vars => RoomInv'
  <2> SUFFICES ASSUME TypeOK, RoomInv, [Next]_vars PROVE RoomInv'
    OBVIOUS
  <2>1. CASE UNCHANGED <<pc, headroom, queuedBytes>>
    BY <2>1 DEF RoomInv
  <2>2. CASE Prepare
    <3>1. item \in Exchanges
      BY <2>2, NoneIsNone DEF Prepare, TypeOK, WorkerTyped
    <3>2. queuedBytes' = queuedBytes - Size[item] /\ UNCHANGED <<pc, headroom>>
      BY <2>2 DEF Prepare, producerVars
    <3>3. queuedBytes \in Int /\ ByteCap \in Nat /\ Size[item] \in Nat
      BY <3>1, StoreAssumption DEF TypeOK
    <3>4. queuedBytes' <= ByteCap
      BY <3>2, <3>3 DEF RoomInv
    <3> QED BY <3>2, <3>4 DEF RoomInv
  <2>3. CASE Worker /\ ~Prepare
    BY <2>1, <2>3 DEF Worker, Receive, Tick, Exit, Attempt, Backoff, Reply, Retry, FlushFails,
       FlushSucceeds, AfterFlush, producerVars
  <2>4. ASSUME \/ \E d \in Drainers : Drainer(d)
               \/ DrainDeadline
               \/ \E e \in Exchanges : Commit(e)
               \/ UNCHANGED vars
        PROVE  RoomInv'
    BY <2>1, <2>4 DEF Drainer, DrainBegin, DrainClose, DrainReturn, DrainDeadline, Commit, vars, producerVars
  <2> QED BY <2>2, <2>3, <2>4, RoomCall DEF Next, Terminated
<1>3. RoomInv => queuedBytes <= ByteCap
  BY DEF RoomInv
<1> QED BY <1>1, <1>2, <1>3, TypeCorrect, PTL DEF Spec

-----------------------------------------------------------------------------
(***************************************************************************)
(* The byte budget is exact.  BytesOf folds over a set by choosing an      *)
(* element at a time; the lemmas show that the fold exists, that it does   *)
(* not depend on the choices, and that one exchange more or less changes   *)
(* the sum by its size.  Induction over sets is minimality: a set of       *)
(* counterexamples that is not empty has a smallest one.                   *)
(***************************************************************************)

\* A non-empty set of subsets of a finite set has a minimal member.
LEMMA LeastSubset ==
    ASSUME NEW S, IsFiniteSet(S), NEW Bad, Bad \subseteq SUBSET S, Bad # {}
    PROVE  \E T \in Bad : \A U \in Bad : ~(U \subseteq T /\ U # T)
<1>1. IsWellFoundedOn(StrictSubsetOrdering(S), SUBSET S)
  BY FS_StrictSubsetOrderingWellFounded, FS_FiniteSubsetsOfFinite
<1>2. \E T \in Bad : \A U \in Bad : <<U, T>> \notin StrictSubsetOrdering(S)
  BY <1>1, WFMin
<1> QED BY <1>2 DEF StrictSubsetOrdering

\* A non-empty set of natural numbers has a least member.
LEMMA LeastNat ==
    ASSUME NEW Bad, Bad \subseteq Nat, Bad # {}
    PROVE  \E n \in Bad : \A m \in Bad : n <= m
<1>1. PICK top \in Bad : TRUE
  OBVIOUS
<1> DEFINE Low == Bad \cap 0 .. top
           Ivs == {0 .. n : n \in Low}
<1>2. IsFiniteSet(0 .. top) /\ Ivs \subseteq SUBSET (0 .. top) /\ Ivs # {}
  <2>1. top \in Nat /\ top \in Low
    BY <1>1
  <2>2. IsFiniteSet(0 .. top)
    BY <2>1, FS_Interval
  <2> QED BY <2>1, <2>2
<1>3. \E T \in Ivs : \A U \in Ivs : ~(U \subseteq T /\ U # T)
  <2> DEFINE Top == 0 .. top
  <2>1. IsFiniteSet(Top) /\ Ivs \subseteq SUBSET Top /\ Ivs # {}
    BY <1>2
  <2> HIDE DEF Ivs, Top
  <2> QED BY <2>1, LeastSubset
<1>4. PICK n \in Low : \A U \in Ivs : ~(U \subseteq 0 .. n /\ U # 0 .. n)
  BY <1>3
<1>5. ASSUME NEW m \in Bad, m < n PROVE FALSE
  <2>1. m \in Nat /\ n \in Nat /\ top \in Nat /\ n <= top
    BY <1>4
  <2>2. m \in Low /\ 0 .. m \in Ivs
    BY <1>5, <2>1
  <2>3. 0 .. m \subseteq 0 .. n /\ n \in 0 .. n /\ n \notin 0 .. m
    BY <1>5, <2>1
  <2> QED BY <1>4, <2>2, <2>3
<1>6. \A m \in Bad : m \in Nat /\ n \in Nat
  BY <1>4
<1> QED BY <1>4, <1>5, <1>6

Chosen(s) == CHOOSE x \in s : TRUE

SumStep(g, s) == IF s = {} THEN 0 ELSE Size[Chosen(s)] + g[s \ {Chosen(s)}]

\* The function the fold over T defines.
SumOn(T) == CHOOSE g : g = [s \in SUBSET T |-> SumStep(g, s)]

LEMMA BytesIsSum == \A T : BytesOf(T) = SumOn(T)[T]
BY DEF BytesOf, MapThenSumSet, MapThenFoldSet, SumOn, SumStep, Chosen

LEMMA ChosenIn == \A s : s # {} => Chosen(s) \in s
BY DEF Chosen

\* The fold's equation has a solution: by sets of growing cardinality.
LEMMA SumExists ==
    ASSUME NEW T \in SUBSET Exchanges
    PROVE  SumOn(T) = [s \in SUBSET T |-> SumStep(SumOn(T), s)]
<1> DEFINE D(n) == {s \in SUBSET T : Cardinality(s) <= n}
           Good(n, g) == g = [s \in D(n) |-> SumStep(g, s)]
           Bad == {n \in Nat : ~ \E g : Good(n, g)}
<1>1. \A s \in SUBSET T : IsFiniteSet(s) /\ Cardinality(s) \in Nat
  BY BatchFinite
<1>2. ASSUME NEW n \in Nat, NEW s \in D(n), s # {}
      PROVE  n # 0 /\ s \ {Chosen(s)} \in D(n - 1)
  <2>1. Cardinality(s \ {Chosen(s)}) = Cardinality(s) - 1 /\ s \in SUBSET T /\ Cardinality(s) <= n
    BY <1>1, <1>2, ChosenIn, FS_RemoveElement
  <2>2. Cardinality(s) \in Nat /\ Cardinality(s \ {Chosen(s)}) \in Nat
    BY <1>1, <2>1
  <2> QED BY <2>1, <2>2
<1>3. ASSUME NEW n \in Bad, \A m \in Bad : n <= m PROVE FALSE
  <2>1. CASE n = 0
    <3>1. \A g : \A s \in D(0) : SumStep(g, s) = 0
      BY <1>2 DEF SumStep
    <3>2. Good(0, [s \in D(0) |-> 0])
      BY <3>1
    <3> QED BY <2>1, <3>2
  <2>2. CASE n # 0
    <3>1. n \in Nat /\ n - 1 \in Nat
      BY <2>2
    <3>2. n - 1 \notin Bad
      <4> HIDE DEF Bad
      <4> QED BY <1>3, <3>1
    <3>3. PICK g : Good(n - 1, g)
      BY <3>1, <3>2
    <3> DEFINE h == [s \in D(n) |-> SumStep(g, s)]
    <3>4. \A s \in D(n - 1) : s \in D(n) /\ h[s] = g[s]
      <4>1. \A s \in D(n - 1) : s \in D(n)
        BY <1>1, <3>1
      <4> QED BY <3>3, <4>1
    <3>5. \A s \in D(n) : SumStep(g, s) = SumStep(h, s)
      <4> SUFFICES ASSUME NEW s \in D(n), s # {} PROVE SumStep(g, s) = SumStep(h, s)
        BY DEF SumStep
      <4>1. s \ {Chosen(s)} \in D(n - 1)
        BY <1>2, <3>1
      <4>2. g[s \ {Chosen(s)}] = h[s \ {Chosen(s)}]
        BY <3>4, <4>1
      <4> HIDE DEF h
      <4> QED BY <4>2 DEF SumStep
    <3>6. Good(n, h)
      BY <3>5
    <3> QED BY <3>1, <3>6
  <2> QED BY <2>1, <2>2
<1>4. Bad = {}
  <2>1. Bad \subseteq Nat
    OBVIOUS
  <2> HIDE DEF Bad
  <2> QED BY <1>3, <2>1, LeastNat
<1>5. Cardinality(T) \in Nat
  BY <1>1
<1>6. PICK g : Good(Cardinality(T), g)
  BY <1>4, <1>5
<1>7. D(Cardinality(T)) = SUBSET T
  BY <1>1, FS_Subset
<1>8. g = [s \in SUBSET T |-> SumStep(g, s)]
  BY <1>6, <1>7
<1> QED BY <1>8 DEF SumOn

\* Taking any exchange out of a set, not only the chosen one, takes its size off.
LEMMA SumRemove ==
    ASSUME NEW T \in SUBSET Exchanges
    PROVE  /\ \A s \in SUBSET T : SumOn(T)[s] \in Int
           /\ \A s \in SUBSET T : \A x \in s : SumOn(T)[s] = Size[x] + SumOn(T)[s \ {x}]
<1> DEFINE F == SumOn(T)
           Step(s) == F[s] \in Int /\ \A x \in s : F[s] = Size[x] + F[s \ {x}]
           Bad == {s \in SUBSET T : ~Step(s)}
<1>1. \A s \in SUBSET T : F[s] = IF s = {} THEN 0 ELSE Size[Chosen(s)] + F[s \ {Chosen(s)}]
  BY SumExists DEF SumStep
<1>2. IsFiniteSet(T)
  BY BatchFinite
<1>3. \A e \in T : Size[e] \in Nat
  BY StoreAssumption
<1> HIDE DEF F
<1>4. ASSUME NEW s \in Bad, \A u \in Bad : ~(u \subseteq s /\ u # s) PROVE FALSE
  <2>1. s \in SUBSET T
    OBVIOUS
  <2>2. \A x \in s : Step(s \ {x})
    BY <1>4, <2>1
  <2>3. CASE s = {}
    <3>1. F[s] = 0
      BY <1>1, <2>1, <2>3
    <3>2. Step(s)
      BY <2>3, <3>1
    <3> QED BY <3>2
  <2>4. CASE s # {}
    <3> DEFINE y == Chosen(s)
    <3>1. y \in s /\ y \in T
      BY <2>1, <2>4, ChosenIn
    <3>2. F[s] = Size[y] + F[s \ {y}]
      BY <1>1, <2>1, <2>4
    <3> HIDE DEF y
    <3>3. F[s \ {y}] \in Int /\ Size[y] \in Nat
      BY <1>3, <2>2, <3>1
    <3>4. F[s] \in Int
      BY <3>2, <3>3
    <3>5. ASSUME NEW x \in s, x # y PROVE F[s] = Size[x] + F[s \ {x}]
      <4>1. F[s \ {y}] = Size[x] + F[(s \ {y}) \ {x}]
        BY <2>2, <3>1, <3>5
      <4>2. F[s \ {x}] = Size[y] + F[(s \ {x}) \ {y}]
        BY <2>2, <3>1, <3>5
      <4>3. (s \ {y}) \ {x} = (s \ {x}) \ {y}
        OBVIOUS
      <4>4. x \in T /\ (s \ {y}) \ {x} \in SUBSET T /\ (s \ {y}) \ {x} # s
        BY <2>1, <3>1
      <4>5. F[(s \ {y}) \ {x}] \in Int
        BY <1>4, <4>4
      <4>6. Size[x] \in Nat
        BY <1>3, <4>4
      <4>7. F[s \ {x}] = Size[y] + F[(s \ {y}) \ {x}]
        BY <4>2, <4>3
      <4> HIDE DEF Step, Bad
      <4> QED BY <3>2, <3>3, <4>1, <4>5, <4>6, <4>7
    <3>6. Step(s)
      BY <3>2, <3>4, <3>5
    <3> QED BY <3>6
  <2> QED BY <2>3, <2>4
<1>5. Bad = {}
  <2>1. Bad \subseteq SUBSET T
    OBVIOUS
  <2> HIDE DEF Bad
  <2> QED BY <1>2, <1>4, <2>1, LeastSubset
<1> QED BY <1>5 DEF F

\* The sum over a subset does not depend on the set it is taken in.
LEMMA SumWithin ==
    ASSUME NEW T \in SUBSET Exchanges
    PROVE  BytesOf(T) = SumOn(Exchanges)[T]
<1> DEFINE F == SumOn(T)
           G == SumOn(Exchanges)
           Bad == {s \in SUBSET T : F[s] # G[s]}
<1>1. \A s \in SUBSET T : F[s] = IF s = {} THEN 0 ELSE Size[Chosen(s)] + F[s \ {Chosen(s)}]
  BY SumExists DEF SumStep
<1>2. \A s \in SUBSET T : G[s] = IF s = {} THEN 0 ELSE Size[Chosen(s)] + G[s \ {Chosen(s)}]
  BY SumExists DEF SumStep
<1>3. IsFiniteSet(T)
  BY BatchFinite
<1> HIDE DEF F, G
<1>4. ASSUME NEW s \in Bad, \A u \in Bad : ~(u \subseteq s /\ u # s) PROVE FALSE
  <2>1. s # {}
    BY <1>1, <1>2
  <2>2. Chosen(s) \in s
    BY <2>1, ChosenIn
  <2>3. F[s \ {Chosen(s)}] = G[s \ {Chosen(s)}]
    BY <1>4, <2>2
  <2> QED BY <1>1, <1>2, <2>1, <2>3
<1>5. Bad = {}
  <2>1. Bad \subseteq SUBSET T
    OBVIOUS
  <2> HIDE DEF Bad
  <2> QED BY <1>3, <1>4, <2>1, LeastSubset
<1>6. F[T] = G[T]
  BY <1>5
<1> QED BY <1>6, BytesIsSum DEF F, G

\* One exchange more is its size more.
LEMMA BytesMore ==
    ASSUME NEW T \in SUBSET Exchanges, NEW e \in Exchanges, e \notin T
    PROVE  /\ BytesOf(T) \in Int
           /\ BytesOf(T \cup {e}) = BytesOf(T) + Size[e]
<1>1. T \cup {e} \in SUBSET Exchanges /\ (T \cup {e}) \ {e} = T
  OBVIOUS
<1>2. BytesOf(T) = SumOn(Exchanges)[T] /\ BytesOf(T \cup {e}) = SumOn(Exchanges)[T \cup {e}]
  BY <1>1, SumWithin
<1> DEFINE F == SumOn(Exchanges)
<1>3. F[T] \in Int /\ F[T \cup {e}] = Size[e] + F[T]
  <2>1. /\ \A s \in SUBSET Exchanges : F[s] \in Int
        /\ \A s \in SUBSET Exchanges : \A x \in s : F[s] = Size[x] + F[s \ {x}]
    BY SumRemove
  <2> HIDE DEF F
  <2>2. F[T] \in Int
    BY <2>1
  <2>3. F[T \cup {e}] = Size[e] + F[(T \cup {e}) \ {e}]
    BY <1>1, <2>1
  <2> QED BY <1>1, <2>2, <2>3
<1>4. Size[e] \in Nat
  BY StoreAssumption
<1> QED BY <1>2, <1>3, <1>4

LEMMA BytesNone == BytesOf({}) = 0
BY SumWithin, SumExists DEF SumStep

\* The bytes of e are reserved.
Reserved(e) == pc[e] \in {"reserved", "sending", "dropping"} \/ Holds(queue, e) \/ e = item

LEMMA HoldingIs ==
    ASSUME queue \in Seq(Exchanges), item \in Exchanges \cup {None}
    PROVE  Holding \subseteq Exchanges /\ \A e \in Exchanges : e \in Holding <=> Reserved(e)
<1>1. \A e : e \in Range(queue) <=> Holds(queue, e)
  BY LenProperties DEF Range, Holds
<1>2. \A e : Holds(queue, e) => e \in Exchanges
  BY LenProperties DEF Holds
<1> QED BY <1>1, <1>2, NoneIsNone DEF Holding, Reserved

LEMMA HoldingNext ==
    ASSUME queue' \in Seq(Exchanges), item' \in Exchanges \cup {None}
    PROVE  Holding' \subseteq Exchanges /\ \A e \in Exchanges : e \in Holding' <=> Reserved(e)'
<1>1. \A e : e \in Range(queue') <=> Holds(queue', e)
  BY LenProperties DEF Range, Holds
<1>2. \A e : Holds(queue', e) => e \in Exchanges
  BY LenProperties DEF Holds
<1> QED BY <1>1, <1>2, NoneIsNone DEF Holding, Reserved

Exact == queuedBytes = BytesOf(Holding)

LEMMA ExactSame ==
    ASSUME Exact, UNCHANGED queuedBytes, Holding' \subseteq Exchanges, Holding \subseteq Exchanges,
           \A e \in Exchanges : e \in Holding' <=> e \in Holding
    PROVE  Exact'
<1>1. Holding' = Holding
  OBVIOUS
<1> QED BY <1>1 DEF Exact

LEMMA ExactMore ==
    ASSUME Exact, Holding' \subseteq Exchanges, Holding \subseteq Exchanges,
           NEW e \in Exchanges, queuedBytes' = queuedBytes + Size[e], e \notin Holding,
           \A f \in Exchanges : f \in Holding' <=> f \in Holding \/ f = e
    PROVE  Exact'
<1>1. Holding' = Holding \cup {e}
  OBVIOUS
<1>2. BytesOf(Holding') = BytesOf(Holding) + Size[e]
  BY <1>1, BytesMore
<1> QED BY <1>2 DEF Exact

LEMMA ExactLess ==
    ASSUME Exact, Holding' \subseteq Exchanges, Holding \subseteq Exchanges,
           NEW e \in Exchanges, queuedBytes' = queuedBytes - Size[e], e \notin Holding',
           \A f \in Exchanges : f \in Holding <=> f \in Holding' \/ f = e
    PROVE  Exact'
<1>1. Holding = Holding' \cup {e}
  OBVIOUS
<1>2. BytesOf(Holding) = BytesOf(Holding') + Size[e] /\ BytesOf(Holding') \in Int
  BY <1>1, BytesMore
<1>3. Size[e] \in Nat
  BY StoreAssumption
<1>4. queuedBytes = BytesOf(Holding') + Size[e]
  BY <1>2 DEF Exact
<1>5. queuedBytes' = BytesOf(Holding')
  BY <1>2, <1>3, <1>4
<1> QED BY <1>5 DEF Exact

\* A step of a Store call keeps the budget exact.
LEMMA ExactCall ==
    ASSUME TypeOK, TypeOK', PlaceInv, Exact, NoSendOnClosedChannel', NEW e \in Exchanges, Producer(e)
    PROVE  Exact'
<1>1. PlaceTyped
  BY PlacesTyped
<1>2. /\ Holding \subseteq Exchanges /\ \A f \in Exchanges : f \in Holding <=> Reserved(f)
      /\ Holding' \subseteq Exchanges /\ \A f \in Exchanges : f \in Holding' <=> Reserved(f)'
  BY HoldingIs, HoldingNext DEF TypeOK, WorkerTyped
<1>3. UNCHANGED item
  BY CallSteps DEF workerVars
<1>4. pc[e] # "returned" => ~Holds(queue, e) /\ e # item
  BY DEF PlaceInv, Owed
<1>5. ASSUME UNCHANGED <<queue, queuedBytes>>, NEW l, Goto(e, l),
             l \in {"reserved", "sending", "dropping"} <=> pc[e] \in {"reserved", "sending", "dropping"}
      PROVE  Exact'
  <2>1. \A f \in Exchanges : Reserved(f)' <=> Reserved(f)
    BY <1>1, <1>3, <1>5 DEF Reserved, Goto, PlaceTyped
  <2> QED BY <1>2, <1>5, <2>1, ExactSame
<1>6. CASE Store(e) \/ ReserveLoad(e) \/ EnterEnqueue(e)
  BY <1>5, <1>6 DEF Store, ReserveLoad, EnterEnqueue
<1>7. CASE ReserveCAS(e)
  <2>1. CASE Unraced(e) /\ Goto(e, "reserved") /\ queuedBytes' = headroom[e] + Size[e]
    <3>1. pc[e] = "cas" /\ UNCHANGED queue
      BY <1>7 DEF ReserveCAS
    <3>2. queuedBytes' = queuedBytes + Size[e]
      BY <2>1 DEF Unraced
    <3>3. ~Reserved(e)
      BY <1>4, <3>1 DEF Reserved
    <3>4. \A f \in Exchanges : Reserved(f)' <=> Reserved(f) \/ f = e
      BY <1>1, <1>3, <2>1, <3>1 DEF Reserved, Goto, PlaceTyped
    <3> QED BY <1>2, <3>2, <3>3, <3>4, ExactMore
  <2>2. CASE Goto(e, "load") /\ UNCHANGED queuedBytes
    BY <1>5, <1>7, <2>2 DEF ReserveCAS
  <2> QED BY <1>7, <2>1, <2>2 DEF ReserveCAS
<1>8. CASE Send(e)
  <2>1. CASE Goto(e, "panicked")
    <3>1. pc'[e] = "panicked"
      BY <1>1, <2>1 DEF Goto, PlaceTyped
    <3> QED BY <3>1 DEF NoSendOnClosedChannel
  <2>2. CASE Goto(e, "returned") /\ queue' = Append(queue, e)
    <3>1. pc[e] = "sending" /\ UNCHANGED queuedBytes
      BY <1>8 DEF Send
    <3>2. \A f : Holds(queue', f) <=> Holds(queue, f) \/ f = e
      BY <1>1, <2>2, AppendHolds DEF PlaceTyped
    <3>3. \A f \in Exchanges : Reserved(f)' <=> Reserved(f)
      BY <1>1, <1>3, <2>2, <3>1, <3>2 DEF Reserved, Goto, PlaceTyped
    <3> QED BY <1>2, <3>1, <3>3, ExactSame
  <2>3. CASE Goto(e, "dropping") /\ UNCHANGED queue
    BY <1>5, <1>8, <2>3 DEF Send
  <2> QED BY <1>8, <2>1, <2>2, <2>3 DEF Send
<1>9. CASE Drop(e)
  <2>1. /\ pc[e] = "dropping" /\ UNCHANGED queue /\ Goto(e, "returned")
        /\ queuedBytes' = queuedBytes - Size[e]
    BY <1>9 DEF Drop
  <2>2. \A f \in Exchanges : Reserved(f) <=> Reserved(f)' \/ f = e
    BY <1>1, <1>3, <2>1 DEF Reserved, Goto, PlaceTyped
  <2>3. ~Reserved(e)'
    BY <1>1, <1>3, <1>4, <2>1 DEF Reserved, Goto, PlaceTyped
  <2> QED BY <1>2, <2>1, <2>2, <2>3, ExactLess
<1> QED BY <1>6, <1>7, <1>8, <1>9 DEF Producer

\* The worker releases what it prepares, and nothing else.
LEMMA ExactWorker ==
    ASSUME TypeOK, TypeOK', PlaceInv, Exact, Receive \/ Prepare
    PROVE  Exact'
<1>1. PlaceTyped
  BY PlacesTyped
<1>2. /\ Holding \subseteq Exchanges /\ \A f \in Exchanges : f \in Holding <=> Reserved(f)
      /\ Holding' \subseteq Exchanges /\ \A f \in Exchanges : f \in Holding' <=> Reserved(f)'
  BY HoldingIs, HoldingNext DEF TypeOK, WorkerTyped
<1>3. CASE Receive
  <2>1. queue \in Seq(Exchanges) /\ queue # << >> /\ item \notin Exchanges
    BY <1>1, <1>3 DEF PlaceTyped, Receive
  <2>2. queue' = Tail(queue) /\ item' = Head(queue) /\ UNCHANGED <<pc, queuedBytes>>
    BY <1>3 DEF Receive, producerVars
  <2>3. \A f : Holds(queue, f) <=> Holds(queue', f) \/ f = item'
    BY <2>1, <2>2, TailHolds
  <2>4. \A f \in Exchanges : Reserved(f)' <=> Reserved(f)
    BY <2>1, <2>2, <2>3 DEF Reserved
  <2> QED BY <1>2, <2>2, <2>4, ExactSame
<1>4. CASE Prepare
  <2>1. /\ item \in Exchanges /\ item' = None /\ UNCHANGED <<pc, queue>>
        /\ queuedBytes' = queuedBytes - Size[item]
    BY <1>1, <1>4 DEF PlaceTyped, Prepare, producerVars
  <2>2. pc[item] = "returned" /\ ~Holds(queue, item)
    BY <2>1 DEF PlaceInv, Owed
  <2>3. \A f \in Exchanges : f # item'
    BY <2>1, NoneIsNone
  <2>4. PICK e \in Exchanges : e = item
    BY <2>1
  <2>5. \A f \in Exchanges : Reserved(f) <=> Reserved(f)' \/ f = e
    BY <2>1, <2>3, <2>4 DEF Reserved
  <2>6. ~Reserved(e)'
    BY <2>1, <2>2, <2>3, <2>4 DEF Reserved
  <2>7. queuedBytes' = queuedBytes - Size[e]
    BY <2>1, <2>4
  <2> QED BY <1>2, <2>5, <2>6, <2>7, ExactLess
<1> QED BY <1>3, <1>4

LEMMA ExactElsewhere ==
    ASSUME Exact, UNCHANGED <<pc, queue, item, queuedBytes>>
    PROVE  Exact'
<1>1. Holding' = Holding
  BY DEF Holding
<1> QED BY <1>1 DEF Exact

\* The byte budget neither leaks nor goes negative, for any exchanges of any
\* sizes: queuedBytes is the sum of the bodies between reserve and release,
\* whatever races and whichever side of the handoff fails, and at most the cap.
THEOREM BudgetIsExact == Spec => []BudgetExact
<1>1. Init => Exact
  <2> SUFFICES ASSUME Init PROVE Exact
    OBVIOUS
  <2>1. Holding = {}
    BY DEF Init, Holding, Range
  <2> QED BY <2>1, BytesNone DEF Init, Exact
<1>2. TypeOK /\ TypeOK' /\ PlaceInv /\ NoSendOnClosedChannel' /\ Exact /\ [Next]_vars => Exact'
  <2> SUFFICES ASSUME TypeOK, TypeOK', PlaceInv, NoSendOnClosedChannel', Exact, [Next]_vars
               PROVE  Exact'
    OBVIOUS
  <2>1. CASE Worker /\ ~(Receive \/ Prepare)
    BY <2>1, ExactElsewhere DEF Worker, Tick, Exit, Attempt, Backoff, Reply, Retry, FlushFails,
       FlushSucceeds, AfterFlush, producerVars
  <2>2. ASSUME \/ \E d \in Drainers : Drainer(d)
               \/ DrainDeadline
               \/ \E e \in Exchanges : Commit(e)
               \/ UNCHANGED vars
        PROVE  Exact'
    BY <2>2, ExactElsewhere DEF Drainer, DrainBegin, DrainClose, DrainReturn, DrainDeadline, Commit,
       vars, producerVars, workerVars
  <2> QED BY <2>1, <2>2, ExactCall, ExactWorker DEF Next, Terminated
<1>3. Exact /\ queuedBytes <= ByteCap => BudgetExact
  BY DEF Exact, BudgetExact
<1> QED BY <1>1, <1>2, <1>3, TypeCorrect, PlaceInvariant, StoreNeverPanics, BudgetCapped, PTL DEF Spec

=============================================================================
