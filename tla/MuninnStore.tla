---------------------------- MODULE MuninnStore ----------------------------
(***************************************************************************)
(* MuninnStore of internal/store/muninn.go: the asynchronous delivery of   *)
(* captured exchanges to the MuninnDB vault.                               *)
(*                                                                         *)
(* Actors, and the goroutines they stand for:                              *)
(*   - one producer per exchange, the proxy goroutine calling Store(ex);   *)
(*   - the worker, the single goroutine started by New;                    *)
(*   - the callers of Drain and the drain deadline timer;                  *)
(*   - MuninnDB (external): commits writes, possibly without its answer    *)
(*     reaching the worker.                                                *)
(*                                                                         *)
(* Time is abstracted: the ticker, a backoff and the drain deadline may    *)
(* each fire at any moment they are armed.                                 *)
(***************************************************************************)
EXTENDS DedupWindow, Sequences, FiniteSets, FiniteSetsExt, Functions

CONSTANTS
    Exchanges,    \* exchanges the proxy captures in one session
    Drainers,     \* goroutines that call Drain
    Size,         \* Size[e]: body bytes of e
    Concept,      \* Concept[e]: hash of e's concept, NoConcept if e is noise or empty
    Content,      \* Content[e]: what a memory of e would hold, its concept included
    NoConcept,
    None,
    QueueCap,     \* capacity of the queue channel (256)
    ByteCap,      \* maxQueuedBytes
    MaxBatch,     \* maxBatchSize
    MaxAttempts   \* maxAttempts

ASSUME StoreAssumption ==
    /\ IsFiniteSet(Exchanges)
    /\ None \notin Exchanges
    /\ NoConcept \notin Concepts
    /\ Size \in [Exchanges -> Nat]
    /\ Concept \in [Exchanges -> Concepts \cup {NoConcept}]
    /\ \A e, f \in Exchanges : Content[e] = Content[f] => Concept[e] = Concept[f]
    /\ QueueCap \in Nat \ {0}
    /\ ByteCap \in Nat
    /\ MaxBatch \in Nat \ {0}
    /\ MaxAttempts \in Nat \ {0}

VARIABLES
    \* Producers
    pc,           \* where the Store call of each exchange stands
    headroom,     \* the value of queuedBytes each reserve loop last loaded
    queuedBytes,  \* bytes reserved against ByteCap
    readers,      \* producers inside the queueMu read lock
    \* The queue and its closing
    queue,
    drained,      \* guarded by queueMu
    closed,       \* the channel is closed
    \* The worker
    wpc,
    item,         \* exchange received from the queue and not yet prepared
    batch,        \* formatted, undelivered exchanges
    pending,      \* concept hashes of the batch
    window,       \* the dedup ring
    attempt,      \* index of callTool's current attempt
    exiting,      \* the flush in progress is the last one
    \* Drain
    dpc,          \* where each Drain call stands
    once,         \* drainOnce
    armed,        \* the drain deadline timer is running
    cancelled,    \* flushCtx is cancelled
    \* MuninnDB
    vault,        \* dedup keys of the stored memories, with their contents
    \* Session counters
    stats,
    \* History
    outcome,      \* what became of each exchange
    age           \* rolls since each concept was last recorded, RingSize when never or longer ago

producerVars == <<pc, headroom, readers>>
workerVars   == <<wpc, item, batch, pending, window, attempt, exiting>>
drainVars    == <<dpc, once, armed, drained, closed>>
history      == <<outcome, age>>
vars == <<producerVars, queuedBytes, queue, workerVars, drainVars, cancelled,
          vault, stats, history>>

Counters == {"captured", "dropped", "skipped", "deduped", "flushed", "flushErrors"}

\* DedupKey of mcpclient: a digest of what is stored, so it is the same for
\* every attempt n, and for every exchange, that would store the same memory.
KeyPerAttempt(e, n) == <<Content[e], n>>   \* mutant
DedupKey(e, n) == Content[e]

Memory(e) == [key |-> DedupKey(e, attempt), content |-> Content[e], concept |-> Concept[e]]

\* The state New leaves.
Init ==
    /\ pc = [e \in Exchanges |-> "new"]
    /\ headroom = [e \in Exchanges |-> 0]
    /\ queuedBytes = 0
    /\ readers = {}
    /\ queue = << >>
    /\ drained = FALSE
    /\ closed = FALSE
    /\ wpc = "select"
    /\ item = None
    /\ batch = {}
    /\ pending = {}
    /\ window = EmptyWindow
    /\ attempt = 0
    /\ exiting = FALSE
    /\ dpc = [d \in Drainers |-> "idle"]
    /\ once = "fresh"
    /\ armed = FALSE
    /\ cancelled = FALSE
    /\ vault = {}
    /\ stats = [c \in Counters |-> 0]
    /\ outcome = [e \in Exchanges |-> "none"]
    /\ age = [h \in Concepts |-> RingSize]

Goto(e, l) == pc' = [pc EXCEPT ![e] = l]

Count(c, n) == stats' = [stats EXCEPT ![c] = @ + n]

Settle(S, o) == outcome' = [e \in Exchanges |-> IF e \in S THEN o ELSE outcome[e]]
-----------------------------------------------------------------------------
(***************************************************************************)
(* Store(ex)                                                               *)
(***************************************************************************)

\* The call begins: the exchange is counted before anything can refuse it.
Store(e) ==
    /\ pc[e] = "new"
    /\ Goto(e, "load")
    /\ Count("captured", 1)
    /\ UNCHANGED <<headroom, queuedBytes, readers, queue, workerVars, drainVars,
                   cancelled, vault, history>>

\* reserve loads the budget; with no room left the call only counts the drop,
\* having reserved nothing it must not release anything.
ReserveLoad(e) ==
    /\ pc[e] = "load"
    /\ \/ /\ queuedBytes + Size[e] > ByteCap
          /\ Goto(e, "returned")
          /\ Count("dropped", 1)
          /\ Settle({e}, "dropped")
          /\ UNCHANGED headroom
       \/ /\ queuedBytes + Size[e] <= ByteCap
          /\ Goto(e, "cas")
          /\ headroom' = [headroom EXCEPT ![e] = queuedBytes]
          /\ UNCHANGED <<stats, outcome>>
    /\ UNCHANGED <<queuedBytes, readers, queue, workerVars, drainVars, cancelled,
                   vault, age>>

SwapUnchecked(e) == TRUE   \* mutant
Unraced(e) == queuedBytes = headroom[e]

\* The compare-and-swap that claims the bytes, or sends the loop round again.
ReserveCAS(e) ==
    /\ pc[e] = "cas"
    /\ \/ /\ Unraced(e)
          /\ queuedBytes' = headroom[e] + Size[e]
          /\ Goto(e, "reserved")
       \/ /\ ~Unraced(e)
          /\ Goto(e, "load")
          /\ UNCHANGED queuedBytes
    /\ headroom' = [headroom EXCEPT ![e] = 0]
    /\ UNCHANGED <<readers, queue, workerVars, drainVars, cancelled, vault, stats, history>>

\* The read lock is taken and drained is read under it.  After a drain the
\* lock is given back at once and the exchange is dropped.
EnterEnqueue(e) ==
    /\ pc[e] = "reserved"
    /\ \/ /\ drained
          /\ Goto(e, "dropping")
          /\ UNCHANGED readers
       \/ /\ ~drained
          /\ Goto(e, "sending")
          /\ readers' = readers \cup {e}
    /\ UNCHANGED <<headroom, queuedBytes, queue, workerVars, drainVars, cancelled,
                   vault, stats, history>>

UnlockOnSend(e) ==   \* mutant
    readers' = IF Len(queue) < QueueCap THEN readers \ {e} ELSE readers
RUnlock(e) == readers' = readers \ {e}

\* The non-blocking send, still under the read lock.  A send on a closed
\* channel panics; a full channel drops the exchange.
Send(e) ==
    /\ pc[e] = "sending"
    /\ RUnlock(e)
    /\ \/ /\ closed
          /\ Goto(e, "panicked")
          /\ UNCHANGED queue
       \/ /\ ~closed /\ Len(queue) < QueueCap
          /\ Goto(e, "returned")
          /\ queue' = Append(queue, e)
       \/ /\ ~closed /\ Len(queue) >= QueueCap
          /\ Goto(e, "dropping")
          /\ UNCHANGED queue
    /\ UNCHANGED <<headroom, queuedBytes, workerVars, drainVars, cancelled, vault,
                   stats, history>>

\* drop: the reserved bytes go back and the exchange is counted.
Drop(e) ==
    /\ pc[e] = "dropping"
    /\ Goto(e, "returned")
    /\ queuedBytes' = queuedBytes - Size[e]
    /\ Count("dropped", 1)
    /\ Settle({e}, "dropped")
    /\ UNCHANGED <<headroom, readers, queue, workerVars, drainVars, cancelled, vault, age>>
-----------------------------------------------------------------------------
(***************************************************************************)
(* worker                                                                  *)
(***************************************************************************)

\* Both flushes of the loop body roll the window before they write.
AdvanceWindow ==
    /\ window' = Roll(window)
    /\ age' = [h \in Concepts |-> IF age[h] < RingSize THEN age[h] + 1 ELSE RingSize]

\* The worker takes the oldest exchange off the queue (a closed channel still
\* hands out what it buffers).
Receive ==
    /\ wpc = "select"
    /\ queue # << >>
    /\ item' = Head(queue)
    /\ queue' = Tail(queue)
    /\ wpc' = "prepare"
    /\ UNCHANGED <<producerVars, queuedBytes, batch, pending, window, attempt, exiting,
                   drainVars, cancelled, vault, stats, history>>

VerdictByRing(e) ==   \* mutant
    IF Concept[e] = NoConcept THEN "skipped"
    ELSE IF Seen(window, Concept[e]) THEN "deduped"
    ELSE "kept"

\* formatAndDedup: noise and empty captures are skipped, a concept that is in
\* the ring or in the undelivered batch is a duplicate, the rest is kept.
Verdict(e) ==
    IF Concept[e] = NoConcept THEN "skipped"
    ELSE IF Seen(window, Concept[e]) \/ Concept[e] \in pending THEN "deduped"
    ELSE "kept"

\* The batch after the item is prepared.
Prepared == IF Verdict(item) = "kept" THEN batch \cup {item} ELSE batch

BatchFull == Cardinality(Prepared) >= MaxBatch

\* The item is prepared and its bytes are released; a batch that is full
\* rolls the window and goes out at once.
Prepare ==
    /\ wpc = "prepare"
    /\ queuedBytes' = queuedBytes - Size[item]
    /\ batch' = Prepared
    /\ \/ /\ Verdict(item) = "kept"
          /\ pending' = pending \cup {Concept[item]}
          /\ UNCHANGED <<stats, outcome>>
       \/ /\ Verdict(item) # "kept"
          /\ Count(Verdict(item), 1)
          /\ Settle({item}, Verdict(item))
          /\ UNCHANGED pending
    /\ \/ /\ BatchFull
          /\ AdvanceWindow
          /\ wpc' = "attempt"
       \/ /\ ~BatchFull
          /\ wpc' = "select"
          /\ UNCHANGED <<window, age>>
    /\ item' = None
    /\ UNCHANGED <<producerVars, queue, attempt, exiting, drainVars, cancelled, vault>>

NeverDue == FALSE   \* mutant
TickFlushes == batch # {}

\* The flush ticker: the window rolls whether or not there is a batch.
Tick ==
    /\ wpc = "select"
    /\ AdvanceWindow
    /\ wpc' = IF TickFlushes THEN "attempt" ELSE "select"
    /\ UNCHANGED <<producerVars, queuedBytes, queue, item, batch, pending, attempt, exiting,
                   drainVars, cancelled, vault, stats, outcome>>

\* The channel is closed and empty: flush what is left, without rolling, and exit.
Exit ==
    /\ wpc = "select"
    /\ closed
    /\ queue = << >>
    /\ exiting' = TRUE
    /\ wpc' = IF batch # {} THEN "attempt" ELSE "done"
    /\ UNCHANGED <<producerVars, queuedBytes, queue, item, batch, pending, window, attempt,
                   drainVars, cancelled, vault, stats, history>>
-----------------------------------------------------------------------------
(***************************************************************************)
(* flushDelivered, flushFormatted and callTool                             *)
(***************************************************************************)

Hashes(S) == {Concept[e] : e \in S}

BatchAfterFlush == {}

PendingKept == pending   \* mutant
PendingAfterFlush == {}

FlushSizeOne == 1        \* mutant
FlushSize == Cardinality(batch)

\* What the worker's loop does when the flush returns.
AfterFlush ==
    /\ batch' = BatchAfterFlush
    /\ pending' = PendingAfterFlush
    /\ attempt' = 0
    /\ wpc' = IF exiting THEN "done" ELSE "select"
    /\ UNCHANGED <<producerVars, queuedBytes, queue, item, exiting, drainVars, cancelled, vault>>

\* The batch is stored: its hashes enter the open slot.
FlushSucceeds ==
    /\ window' = Record(window, Hashes(batch))
    /\ age' = [h \in Concepts |-> IF h \in Hashes(batch) THEN 0 ELSE age[h]]
    /\ Count("flushed", FlushSize)
    /\ Settle(batch, "saved")
    /\ AfterFlush

\* The batch is given up: it is counted and its hashes are not recorded.
FlushFails ==
    /\ Count("flushErrors", FlushSize)
    /\ Settle(batch, "failed")
    /\ AfterFlush
    /\ UNCHANGED <<window, age>>

Retry ==
    /\ attempt' = attempt + 1
    /\ wpc' = "backoff"
    /\ UNCHANGED <<producerVars, queuedBytes, queue, item, batch, pending, window, exiting,
                   drainVars, cancelled, vault, stats, history>>

\* One attempt: with flushCtx cancelled the request never leaves the process.
Attempt ==
    /\ wpc = "attempt"
    /\ \/ cancelled /\ FlushFails
       \/ /\ ~cancelled
          /\ wpc' = "waiting"
          /\ UNCHANGED <<producerVars, queuedBytes, queue, item, batch, pending, window,
                         attempt, exiting, drainVars, cancelled, vault, stats, history>>

\* How an attempt can end, as CallWithID and CheckEnvelope classify it.
Replies == {"result", "notEnvelope", "transport", "serverError", "clientError", "rpcError"}

AnyOKStatus(r) == r \in {"result", "notEnvelope"}   \* mutant

\* Only a 2xx holding a JSON-RPC response object confirms the write.
Confirms(r) == r = "result"

Retryable(r) == r \notin {"clientError", "rpcError"}


\* When a failed attempt is the last: the drain deadline has passed, the
\* rejection is permanent, or the attempts are used up.
GiveUp(r) == cancelled \/ ~Retryable(r) \/ attempt + 1 = MaxAttempts

\* callTool's verdict on one attempt.  MuninnDB answers with a result only
\* when it holds the dedup_key of the whole batch (external).
Reply(r) ==
    /\ wpc = "waiting"
    /\ r = "result" => \A e \in batch : \E m \in vault : m.key = DedupKey(e, attempt)
    /\ \/ Confirms(r) /\ FlushSucceeds
       \/ ~Confirms(r) /\ GiveUp(r) /\ FlushFails
       \/ ~Confirms(r) /\ ~GiveUp(r) /\ Retry

\* The backoff elapses, or is cut short by the drain deadline.
Backoff ==
    /\ wpc = "backoff"
    /\ \/ cancelled /\ FlushFails
       \/ /\ wpc' = "attempt"
          /\ UNCHANGED <<producerVars, queuedBytes, queue, item, batch, pending, window,
                         attempt, exiting, drainVars, cancelled, vault, stats, history>>

\* MuninnDB (external) stores one memory of the request it is serving.  Its
\* dedup_key makes a second write of the same memory a no-op.
Commit(e) ==
    /\ wpc = "waiting"
    /\ e \in batch
    /\ \A m \in vault : m.key # DedupKey(e, attempt)
    /\ vault' = vault \cup {Memory(e)}
    /\ UNCHANGED <<producerVars, queuedBytes, queue, workerVars, drainVars, cancelled,
                   stats, history>>
-----------------------------------------------------------------------------
(***************************************************************************)
(* Drain                                                                   *)
(***************************************************************************)

\* The first caller arms the drain deadline; the others block in drainOnce.
DrainBegin(d) ==
    /\ dpc[d] = "idle"
    /\ once = "fresh"
    /\ once' = "running"
    /\ armed' = TRUE
    /\ dpc' = [dpc EXCEPT ![d] = "closing"]
    /\ UNCHANGED <<producerVars, queuedBytes, queue, workerVars, drained, closed, cancelled,
                   vault, stats, history>>

LockIgnored == TRUE   \* mutant
WriteLockFree == readers = {}

\* The write lock excludes every producer that is between its check and its send.
DrainClose(d) ==
    /\ dpc[d] = "closing"
    /\ WriteLockFree
    /\ drained' = TRUE
    /\ closed' = TRUE
    /\ dpc' = [dpc EXCEPT ![d] = "waiting"]
    /\ UNCHANGED <<producerVars, queuedBytes, queue, workerVars, once, armed, cancelled,
                   vault, stats, history>>

WorkerDone == wpc = "done"

\* The worker has exited: the timer is stopped and the context released.  A
\* caller that was blocked in drainOnce only does the latter.
DrainReturn(d) ==
    /\ \/ dpc[d] = "waiting" /\ WorkerDone
       \/ dpc[d] = "idle" /\ once = "finished"
    /\ once' = "finished"
    /\ armed' = FALSE
    /\ cancelled' = TRUE
    /\ dpc' = [dpc EXCEPT ![d] = "returned"]
    /\ UNCHANGED <<producerVars, queuedBytes, queue, workerVars, drained, closed,
                   vault, stats, history>>

\* drainTimeout passes before the worker is done.
DrainDeadline ==
    /\ armed
    /\ armed' = FALSE
    /\ cancelled' = TRUE
    /\ UNCHANGED <<producerVars, queuedBytes, queue, workerVars, dpc, once, drained, closed,
                   vault, stats, history>>
-----------------------------------------------------------------------------
\* A drained store with every Store call returned has nothing left to do.
Terminated ==
    /\ wpc = "done"
    /\ \A e \in Exchanges : pc[e] \in {"returned", "panicked"}
    /\ \A d \in Drainers : dpc[d] = "returned"
    /\ UNCHANGED vars

Producer(e) == \/ Store(e) \/ ReserveLoad(e) \/ ReserveCAS(e)
               \/ EnterEnqueue(e) \/ Send(e) \/ Drop(e)

Worker == \/ Receive \/ Prepare \/ Tick \/ Exit \/ Attempt \/ Backoff
          \/ \E r \in Replies : Reply(r)

Drainer(d) == DrainBegin(d) \/ DrainClose(d) \/ DrainReturn(d)

Next ==
    \/ \E e \in Exchanges : Producer(e) \/ Commit(e)
    \/ Worker
    \/ \E d \in Drainers : Drainer(d)
    \/ DrainDeadline
    \/ Terminated

Spec == Init /\ [][Next]_vars

\* The scheduling the code relies on: a goroutine that has begun Store or
\* Drain, and the worker, are not stopped forever; the ticker, the backoff
\* timer and the HTTP timeout of an attempt fire.  Nothing obliges the agent
\* to send, anybody to call Drain, or MuninnDB to store anything.
Fairness ==
    /\ \A e \in Exchanges : WF_vars(ReserveLoad(e) \/ ReserveCAS(e) \/ EnterEnqueue(e)
                                     \/ Send(e) \/ Drop(e))
    /\ WF_vars(Receive)
    /\ WF_vars(Tick)
    /\ WF_vars(Exit)
    /\ WF_vars(Prepare \/ Attempt \/ Backoff \/ \E r \in Replies : Reply(r))
    /\ \A d \in Drainers : WF_vars(DrainClose(d) \/ DrainReturn(d))

FairSpec == Spec /\ Fairness
-----------------------------------------------------------------------------
(***************************************************************************)
(* Properties                                                              *)
(***************************************************************************)

ProducersTyped ==
    /\ pc \in [Exchanges -> {"new", "load", "cas", "reserved", "sending", "dropping",
                             "returned", "panicked"}]
    /\ headroom \in [Exchanges -> Int]
    /\ readers \subseteq Exchanges

WorkerTyped ==
    /\ wpc \in {"select", "prepare", "attempt", "waiting", "backoff", "done"}
    /\ item \in Exchanges \cup {None}
    /\ wpc = "prepare" <=> item # None
    /\ batch \subseteq {e \in Exchanges : Concept[e] # NoConcept}
    /\ pending \subseteq Concepts
    /\ window \in Window
    /\ attempt \in 0 .. MaxAttempts - 1
    /\ exiting \in BOOLEAN

DrainTyped ==
    /\ dpc \in [Drainers -> {"idle", "closing", "waiting", "returned"}]
    /\ once \in {"fresh", "running", "finished"}
    /\ armed \in BOOLEAN /\ drained \in BOOLEAN /\ closed \in BOOLEAN

Outcomes == {"none", "dropped", "skipped", "deduped", "saved", "failed"}

\* The shape of the state: what every other property is read against.
TypeOK ==
    /\ ProducersTyped /\ WorkerTyped /\ DrainTyped
    /\ queuedBytes \in Int
    /\ queue \in Seq(Exchanges)
    /\ cancelled \in BOOLEAN
    /\ \A m \in vault : \E e \in Exchanges :
          m.content = Content[e] /\ m.concept = Concept[e]
    /\ stats \in [Counters -> Nat]
    /\ outcome \in [Exchanges -> Outcomes]
    /\ age \in [Concepts -> 0 .. RingSize]

InWorker == batch \cup ({item} \ {None})

InTransit ==
    {e \in Exchanges : pc[e] \in {"load", "cas", "reserved", "sending", "dropping"}}
        \cup Range(queue) \cup InWorker

\* The exchanges whose bytes are reserved.
Holding == {e \in Exchanges : pc[e] \in {"reserved", "sending", "dropping"}}
               \cup Range(queue) \cup ({item} \ {None})

BytesOf(S) == MapThenSumSet(LAMBDA e : Size[e], S)

\* The byte budget is exactly what the exchanges between reserve and release
\* hold, and never above maxQueuedBytes, whatever producers race on it and
\* whichever side of the handoff fails: it neither leaks (which would close
\* capture for good) nor goes negative (which would open it without limit).
BudgetExact == queuedBytes = BytesOf(Holding) /\ queuedBytes <= ByteCap

\* Every captured exchange is either in the pipeline or in exactly one of the
\* terminal counters, so the backlog the session summary derives by
\* subtraction is the real one.
Conservation ==
    stats["captured"] = stats["dropped"] + stats["skipped"] + stats["deduped"]
        + stats["flushed"] + stats["flushErrors"] + Cardinality(InTransit)

\* A hash recorded in the dedup ring stays known for exactly RingSize rolls,
\* whichever of the ticker and a full batch drove them.
WindowIsExact == \A h \in Concepts : Seen(window, h) <=> age[h] < RingSize

\* The ring is a ledger: a concept it knows is in the vault.
LedgerSound ==
    \A h \in Concepts : Seen(window, h) => \E m \in vault : m.concept = h

\* A repeat is only ever suppressed in favour of a memory that is stored or
\* still on its way; a concept whose flush failed is captured afresh.
RepeatIsJustified ==
    [][\A e \in Exchanges : outcome[e] # "deduped" /\ outcome'[e] = "deduped" =>
          \/ \E m \in vault : m.concept = Concept[e]
          \/ \E f \in batch : Concept[f] = Concept[e]]_vars

\* An exchange reported saved is in the vault.
SavedIsStored ==
    \A e \in Exchanges : outcome[e] = "saved" => \E m \in vault : m.content = Content[e]

\* Retries of an ambiguous write, and a later exchange that would store the
\* same memory, never leave two copies of it.
NoDuplicateMemory == \A m, n \in vault : m.content = n.content => m = n

\* No producer sends on the closed channel, however Store races Drain.
NoSendOnClosedChannel == \A e \in Exchanges : pc[e] # "panicked"

\* A captured exchange is eventually given an outcome, drained or not.
EveryExchangeSettles == \A e \in Exchanges : pc[e] = "load" ~> outcome[e] # "none"

\* A Drain call that begins returns, even while producers keep storing and
\* with MuninnDB unreachable.
DrainReturns == \A d \in Drainers : dpc[d] = "closing" ~> dpc[d] = "returned"
-----------------------------------------------------------------------------
(***************************************************************************)
(* The store implements Delivery                                           *)
(***************************************************************************)

\* The fate of an exchange: its outcome once it has one, accepted once Store
\* returned without refusing it, offered while Store runs.
Fate(e) ==
    IF outcome[e] # "none" THEN outcome[e]
    ELSE IF pc[e] = "new" THEN "unseen"
    ELSE IF pc[e] = "returned" THEN "accepted"
    ELSE "offered"

Promise == INSTANCE Delivery WITH
    fate <- [e \in Exchanges |-> Fate(e)],
    shut <- (\E d \in Drainers : dpc[d] = "returned")

\* Every behaviour of the store is one Delivery allows: each step of a
\* producer, of the worker or of Drain is a step of the promise or invisible.
ImplementsDelivery == Promise!Spec
=============================================================================
