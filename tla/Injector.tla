------------------------------ MODULE Injector ------------------------------
(***************************************************************************)
(* Injector of internal/inject: concurrent Enrich calls that share a       *)
(* window of recalled memories, a last-query cache, a one-shot session     *)
(* context and a self-tuning gate.                                         *)
(*                                                                         *)
(* Each turn is one Enrich call, a goroutine of the proxy.  Its steps are  *)
(* the critical sections of inj.mu and inj.sessionMu and the calls that    *)
(* are made between them; MuninnDB and the judge (external) answer with    *)
(* anything.  A memory stands for itself: what makes two of them           *)
(* duplicates or contradictions is Selection's subject, and here all of    *)
(* them are fit and distinct.  Scores are hundredths.  The session         *)
(* counters, which the injector never reads, are left out.                 *)
(***************************************************************************)
EXTENDS Integers, FiniteSets, Functions

CONSTANTS
    Turns,          \* Enrich calls of the session
    Queries,        \* intents
    Memories,       \* memory IDs, as numbers
    Cosine,         \* Cosine[q][m]: relevance of m to q
    Similar,        \* pairs of different queries that querySimReuse equates
    DefaultGate,    \* minScore at the start
    Gates,          \* the gates CalibrateThreshold may return
    NoQuery,
    NoTurn,
    Grounding,      \* a Grounder is configured
    GroundTopK,     \* how many of a turn's candidates the judge sees
    AutoCalibrate,
    CalibMinSamples, CalibRefreshEach, CalibCap,
    DecayFloor,
    IntentTTL, NegativeTTL, RetryInterval,  \* in ticks
    MaxAttempts,    \* maxSessionInitAttempts
    JudgeTicks,     \* ticks a judge may take: its timeout
    MaxInFlight,    \* bound: Enrich calls at the same time
    MaxTime         \* bound: ticks of the session

ASSUME InjectorAssumption ==
    /\ IsFiniteSet(Turns)
    /\ Memories \subseteq Nat /\ IsFiniteSet(Memories)
    /\ Cosine \in [Queries -> [Memories -> Nat]]
    /\ Similar \subseteq Queries \X Queries
    /\ NoQuery \notin Queries
    /\ NoTurn \notin Turns
    /\ DefaultGate \in Nat \ {0} /\ Gates \subseteq Nat \ {0}
    /\ Grounding \in BOOLEAN /\ AutoCalibrate \in BOOLEAN
    /\ GroundTopK \in Nat \ {0}
    /\ {CalibMinSamples, CalibRefreshEach, CalibCap, DecayFloor, IntentTTL,
        NegativeTTL, RetryInterval, MaxAttempts, JudgeTicks, MaxInFlight, MaxTime} \subseteq Nat

VARIABLES
    \* Each Enrich call
    pc,
    asks,          \* the query of its request
    recalled,      \* what MuninnDB returned to it
    gate,          \* the gate it read before it took its branch
    merged,        \* its candidates, with their effective relevance
    \* Guarded by mu
    window,        \* recentMemories: score and lastSeen of each tracked memory
    turn,
    minScore, samples, sinceCalib, calibrated,
    lastQuery, lastQueryAt, lastWasEmpty, lastEmptyAt,
    \* The session start
    sessionMu,     \* the turn that holds the lock, NoTurn if none
    attempts, retryAfter, settled, sessionCtx,
    \* The clock
    now,
    \* History
    contextTo,     \* turns that took the session context
    fetchedAt,     \* when the last session fetch ended
    repliedAt,     \* when each turn's recall was answered
    lastRecall,    \* what the last recall of each query gave, and when it was answered
    rejectedFor,   \* pairs <<m, q>>: the last recall of q had m rejected
    overlapped     \* some Enrich call began while another was running

turnVars    == <<pc, asks, recalled, gate, merged>>
windowVars  == <<window, turn>>
gateVars    == <<minScore, samples, sinceCalib, calibrated>>
cacheVars   == <<lastQuery, lastQueryAt, lastWasEmpty, lastEmptyAt>>
sessionVars == <<sessionMu, attempts, retryAfter, settled, sessionCtx>>
history     == <<contextTo, fetchedAt, repliedAt, lastRecall, rejectedFor, overlapped>>
vars == <<turnVars, windowVars, gateVars, cacheVars, sessionVars, now, history>>

NothingMerged == [m \in {} |-> 0]

Init ==
    /\ pc = [t \in Turns |-> "new"]
    /\ asks = [t \in Turns |-> NoQuery]
    /\ recalled = [t \in Turns |-> {}]
    /\ gate = [t \in Turns |-> 0]
    /\ merged = [t \in Turns |-> NothingMerged]
    /\ window = [m \in {} |-> 0]
    /\ turn = 0
    /\ minScore = DefaultGate
    /\ samples = 0 /\ sinceCalib = 0 /\ calibrated = FALSE
    /\ lastQuery = NoQuery /\ lastQueryAt = 0 /\ lastWasEmpty = FALSE /\ lastEmptyAt = 0
    /\ sessionMu = NoTurn
    /\ attempts = 0 /\ retryAfter = 0 /\ settled = FALSE /\ sessionCtx = FALSE
    /\ now = 0
    /\ contextTo = {}
    /\ fetchedAt = -RetryInterval
    /\ repliedAt = [t \in Turns |-> 0]
    /\ lastRecall = [q \in Queries |-> [found |-> {}, at |-> -IntentTTL - JudgeTicks]]
    /\ rejectedFor = {}
    /\ overlapped = FALSE

At(t, l) == pc[t] = l
Goto(t, l) == pc' = [pc EXCEPT ![t] = l]

\* Enrich returns: the locals of the call are gone.
Return(t) ==
    /\ Goto(t, "done")
    /\ asks' = [asks EXCEPT ![t] = NoQuery]
    /\ gate' = [gate EXCEPT ![t] = 0]
    /\ merged' = [merged EXCEPT ![t] = NothingMerged]
    /\ UNCHANGED recalled

InFlight == {t \in Turns : pc[t] \notin {"new", "done"}}
-----------------------------------------------------------------------------
(***************************************************************************)
(* Scores: a memory loses three tenths of its score with every turn that   *)
(* does not recall it again.  Effective scores are scaled by               *)
(* 10^Cardinality(Turns) to stay whole.                                    *)
(***************************************************************************)

Scale == Cardinality(Turns)

DecayedScore(score, age) == score * 7^age * 10^(Scale - age)

Clears(score, age, bar) == DecayedScore(score, age) >= bar * 10^Scale

\* decayedWindowLocked: the effective score at turn n of every memory of w.
Decayed(w, n) == [m \in DOMAIN w |-> DecayedScore(w[m].score, n - w[m].seen)]

\* selectForInjection: the candidates of f at or above gate g.
Selected(f, g) == Restrict(f, {m \in DOMAIN f : f[m] >= g * 10^Scale})

Unfaded(w, m, n) == Clears(w[m].score, n - w[m].seen, DecayFloor)

\* mergeMemories: the recalled memories are fresh, the others stay while they
\* have not faded.
Merged(w, q, R, n) ==
    [m \in R \cup {x \in DOMAIN w : Unfaded(w, x, n)} |->
        IF m \in R THEN [score |-> Cosine[q][m], seen |-> n] ELSE w[m]]
-----------------------------------------------------------------------------
(***************************************************************************)
(* fetchSessionContext                                                     *)
(***************************************************************************)

\* The proxy calls Enrich with a request that asks q, or NoQuery when its body
\* is not JSON, of no known format, or holds no user turn.
Enrich(t, q) ==
    /\ At(t, "new")
    /\ Cardinality(InFlight) < MaxInFlight
    /\ Goto(t, "session")
    /\ asks' = [asks EXCEPT ![t] = q]
    /\ overlapped' = (overlapped \/ InFlight # {})
    /\ UNCHANGED <<recalled, gate, merged, windowVars, gateVars, cacheVars, sessionVars,
                   now, contextTo, fetchedAt, repliedAt, lastRecall, rejectedFor>>

LockNotTaken == TRUE   \* mutant
SessionLockFree == sessionMu = NoTurn

\* A fetch is due until one has returned something, but not too often, and not
\* too many times.
FetchDue == ~settled /\ attempts < MaxAttempts /\ now >= retryAfter

\* Where the turn goes when the session start is dealt with.
AfterSession(t) == Goto(t, IF asks[t] = NoQuery THEN "done" ELSE "consult")

\* The session lock is taken; a fetch that is due keeps it.
EnterSession(t) ==
    /\ At(t, "session")
    /\ SessionLockFree
    /\ \/ FetchDue /\ Goto(t, "fetching") /\ sessionMu' = t
       \/ ~FetchDue /\ AfterSession(t) /\ UNCHANGED sessionMu
    /\ UNCHANGED <<asks, recalled, gate, merged, windowVars, gateVars, cacheVars, attempts,
                   retryAfter, settled, sessionCtx, now, history>>

\* Both calls have returned or timed out; one that found something settles the
\* session context for good.
FetchReturns(t, found) ==
    /\ At(t, "fetching")
    /\ attempts' = attempts + 1
    /\ retryAfter' = now + RetryInterval
    /\ settled' = (settled \/ found)
    /\ sessionCtx' = (sessionCtx \/ found)
    /\ sessionMu' = NoTurn
    /\ fetchedAt' = now
    /\ AfterSession(t)
    /\ UNCHANGED <<asks, recalled, gate, merged, windowVars, gateVars, cacheVars, now,
                   contextTo, repliedAt, lastRecall, rejectedFor, overlapped>>
-----------------------------------------------------------------------------
(***************************************************************************)
(* The last-query cache                                                    *)
(***************************************************************************)

SameIntent(q, p) == q = p \/ <<q, p>> \in Similar

StaleIntent(t) == lastQuery # NoQuery /\ SameIntent(asks[t], lastQuery)   \* mutant
CachedIntent(t) ==
    /\ lastQuery # NoQuery
    /\ now - lastQueryAt < IntentTTL
    /\ SameIntent(asks[t], lastQuery)

ReuseWindow(t) == CachedIntent(t) /\ DOMAIN window # {}

AnyMiss(t) == CachedIntent(t) /\ DOMAIN window = {}   \* mutant
NegCached(t) ==
    /\ CachedIntent(t)
    /\ DOMAIN window = {}
    /\ lastWasEmpty
    /\ now - lastEmptyAt < NegativeTTL

\* intentCacheVerdict: reuse the window, skip the recall and inject nothing, or
\* recall.
Consult(t) ==
    /\ At(t, "consult")
    /\ \/ ReuseWindow(t) /\ Goto(t, "reuse")
       \/ NegCached(t) /\ Goto(t, "skip")
       \/ ~ReuseWindow(t) /\ ~NegCached(t) /\ Goto(t, "recall")
    /\ UNCHANGED <<asks, recalled, gate, merged, windowVars, gateVars, cacheVars,
                   sessionVars, now, history>>

\* currentMinScore, under its own lock, whatever the verdict.
ReadGate(t) ==
    /\ gate' = [gate EXCEPT ![t] = minScore]
    /\ \/ At(t, "reuse") /\ Goto(t, "reusing")
       \/ At(t, "skip") /\ Goto(t, "enriched")
       \/ At(t, "recall") /\ Goto(t, "recalling")
    /\ UNCHANGED <<asks, recalled, merged, windowVars, gateVars, cacheVars, sessionVars,
                   now, history>>

\* snapshotWindow: the window as it is by now, not aged by the continuation.
Reuse(t) ==
    /\ At(t, "reusing")
    /\ merged' = [merged EXCEPT ![t] = Selected(Decayed(window, turn), gate[t])]
    /\ Goto(t, "enriched")
    /\ UNCHANGED <<asks, recalled, gate, windowVars, gateVars, cacheVars, sessionVars,
                   now, history>>
-----------------------------------------------------------------------------
(***************************************************************************)
(* A fresh recall                                                          *)
(***************************************************************************)

\* observeCalibration: the sample grows by the recall, and when it is large
\* enough, and then every so often, the gate is retuned to it.
Sampled(n) == IF samples + n > CalibCap THEN CalibCap ELSE samples + n

CalibrationDue(n) ==
    IF calibrated THEN sinceCalib + 1 >= CalibRefreshEach ELSE Sampled(n) >= CalibMinSamples

Observe(n) ==
    IF ~AutoCalibrate \/ n = 0 THEN UNCHANGED gateVars
    ELSE /\ samples' = Sampled(n)
         /\ \/ /\ CalibrationDue(n)
               /\ minScore' \in Gates
               /\ calibrated' = TRUE
               /\ sinceCalib' = 0
            \/ /\ ~CalibrationDue(n)
               /\ sinceCalib' = sinceCalib + 1
               /\ UNCHANGED <<minScore, calibrated>>

\* MuninnDB answers, and the scores of its answer are sampled.
RecallReturns(t, R) ==
    /\ At(t, "recalling")
    /\ recalled' = [recalled EXCEPT ![t] = R]
    /\ repliedAt' = [repliedAt EXCEPT ![t] = now]
    /\ Observe(Cardinality(R))
    /\ rejectedFor' = rejectedFor \ (Memories \X {asks[t]})
    /\ Goto(t, "recalled")
    /\ UNCHANGED <<asks, gate, merged, windowVars, cacheVars, sessionVars, now,
                   contextTo, fetchedAt, lastRecall, overlapped>>

\* The recall fails or times out: the request passes through, and neither the
\* cache nor the session context is touched.
RecallFails(t) ==
    /\ At(t, "recalling")
    /\ Return(t)
    /\ UNCHANGED <<windowVars, gateVars, cacheVars, sessionVars, now, history>>

\* mergeMemories: the turn counts, and the window takes the recall in.
Merge(t) ==
    /\ At(t, "recalled")
    /\ turn' = turn + 1
    /\ window' = Merged(window, asks[t], recalled[t], turn')
    /\ merged' = [merged EXCEPT ![t] = Decayed(window', turn')]
    /\ Goto(t, "gating")
    /\ UNCHANGED <<asks, recalled, gate, gateVars, cacheVars, sessionVars, now, history>>

GateAfter(t) == minScore

\* selectForInjection, with the gate as the calibration left it.
Gate(t) ==
    /\ At(t, "gating")
    /\ merged' = [merged EXCEPT ![t] = Selected(@, GateAfter(t))]
    /\ recalled' = [recalled EXCEPT ![t] = {}]
    /\ Goto(t, IF Grounding /\ DOMAIN merged'[t] # {} THEN "judging" ELSE "vetted")
    /\ UNCHANGED <<asks, gate, windowVars, gateVars, cacheVars, sessionVars,
                   now, history>>

Ahead(f, a, b) == f[a] > f[b] \/ (f[a] = f[b] /\ a < b)

\* The candidates the judge sees: the GroundTopK best.
Judged(f) == {m \in DOMAIN f : Cardinality({x \in DOMAIN f : Ahead(f, x, m)}) < GroundTopK}

WindowKept(rejected) == window   \* mutant
WindowWithout(rejected) == Restrict(window, DOMAIN window \ rejected)

\* groundMemories: what the judge rejects leaves the turn and the window.  A
\* judge that fails rejects nothing.
Ground(t, rejected) ==
    /\ At(t, "judging")
    /\ rejected \subseteq Judged(merged[t])
    /\ merged' = [merged EXCEPT ![t] = Restrict(@, DOMAIN @ \ rejected)]
    /\ window' = WindowWithout(rejected)
    /\ rejectedFor' = rejectedFor \cup (rejected \X {asks[t]})
    /\ Goto(t, "vetted")
    /\ UNCHANGED <<asks, recalled, gate, turn, gateVars, cacheVars, sessionVars, now,
                   contextTo, fetchedAt, repliedAt, lastRecall, overlapped>>

\* The query and what became of it are remembered for the next turns.
Remember(t) ==
    /\ At(t, "vetted")
    /\ lastQuery' = asks[t]
    /\ lastQueryAt' = now
    /\ lastWasEmpty' = (DOMAIN window = {})
    /\ lastEmptyAt' = IF lastWasEmpty' THEN now ELSE lastEmptyAt
    /\ lastRecall' = [lastRecall EXCEPT ![asks[t]] =
                         [found |-> DOMAIN merged[t], at |-> repliedAt[t]]]
    /\ repliedAt' = [repliedAt EXCEPT ![t] = 0]
    /\ Goto(t, "enriched")
    /\ UNCHANGED <<asks, recalled, gate, merged, windowVars, gateVars, sessionVars, now,
                   contextTo, fetchedAt, rejectedFor, overlapped>>
-----------------------------------------------------------------------------
ContextTaken == FALSE

\* The session context is read and cleared in one critical section; the turn
\* then injects what it has, if it has anything and the format allows it, and
\* forwards the request.
Inject(t) ==
    /\ At(t, "enriched")
    /\ sessionCtx' = ContextTaken
    /\ contextTo' = IF sessionCtx THEN contextTo \cup {t} ELSE contextTo
    /\ Return(t)
    /\ UNCHANGED <<windowVars, gateVars, cacheVars, sessionMu, attempts, retryAfter,
                   settled, now, fetchedAt, repliedAt, lastRecall, rejectedFor, overlapped>>

\* Between the answer to its recall and its entry in the cache.
Recalling(t) == pc[t] \in {"recalled", "gating", "judging", "vetted"}

\* Time passes, but no judge outlasts its timeout.
Tick ==
    /\ now < MaxTime
    /\ \A t \in Turns : Recalling(t) => now - repliedAt[t] < JudgeTicks
    /\ now' = now + 1
    /\ UNCHANGED <<turnVars, windowVars, gateVars, cacheVars, sessionVars, history>>

Step(t) ==
    \/ EnterSession(t)
    \/ \E found \in BOOLEAN : FetchReturns(t, found)
    \/ Consult(t) \/ ReadGate(t) \/ Reuse(t)
    \/ \E R \in SUBSET Memories : RecallReturns(t, R)
    \/ RecallFails(t)
    \/ Merge(t) \/ Gate(t)
    \/ \E rejected \in SUBSET Memories : Ground(t, rejected)
    \/ Remember(t)
    \/ Inject(t)

\* Every turn has returned and the session is over.
Quiet == now = MaxTime /\ (\A t \in Turns : At(t, "done")) /\ UNCHANGED vars

Next ==
    \/ \E t \in Turns, q \in Queries \cup {NoQuery} : Enrich(t, q)
    \/ \E t \in Turns : Step(t)
    \/ Tick
    \/ Quiet

Spec == Init /\ [][Next]_vars
-----------------------------------------------------------------------------
(***************************************************************************)
(* Properties                                                              *)
(***************************************************************************)

TurnsTyped ==
    /\ pc \in [Turns -> {"new", "session", "fetching", "consult", "reuse", "skip", "recall",
                         "reusing", "recalling", "recalled", "gating", "judging", "vetted",
                         "enriched", "done"}]
    /\ asks \in [Turns -> Queries \cup {NoQuery}]
    /\ recalled \in [Turns -> SUBSET Memories]
    /\ \A t \in Turns : pc[t] \notin {"new", "session", "fetching", "done"} => asks[t] \in Queries

CacheTyped ==
    /\ DOMAIN window \subseteq Memories
    /\ \A m \in DOMAIN window : window[m] \in [score : Nat, seen : 1 .. turn]
    /\ turn \in Nat
    /\ lastQuery \in Queries \cup {NoQuery}
    /\ lastQueryAt \in 0 .. now /\ lastEmptyAt \in 0 .. now
    /\ lastWasEmpty \in BOOLEAN
    /\ minScore \in Gates \cup {DefaultGate}

SessionTyped ==
    /\ sessionMu \in Turns \cup {NoTurn}
    /\ attempts \in 0 .. MaxAttempts /\ retryAfter \in Nat
    /\ settled \in BOOLEAN /\ sessionCtx \in BOOLEAN
    /\ contextTo \subseteq Turns

\* The shape of the state; a tracked memory was seen at a turn that was counted.
TypeOK == TurnsTyped /\ CacheTyped /\ SessionTyped /\ now \in Nat

Fetching == {t \in Turns : At(t, "fetching")}

\* Session-start fetches do not stampede MuninnDB however many turns arrive
\* together: one at a time, at most MaxAttempts in all, none after the context
\* is settled, and none within RetryInterval of the last.
NoStampede ==
    /\ \A s, t \in Fetching : s = t
    /\ attempts + Cardinality(Fetching) <= MaxAttempts
    /\ Fetching # {} => ~settled /\ now - fetchedAt >= RetryInterval

\* The session context is given to one turn, and until then it is kept,
\* whichever turns fail or pass through.
SessionContextOnce ==
    /\ sessionCtx => settled /\ contextTo = {}
    /\ settled /\ ~sessionCtx => Cardinality(contextTo) = 1

\* However many turns begin a session together, its context is fetched once with
\* success, and is given to one of them.
SessionStartsOnce == NoStampede /\ SessionContextOnce

\* A memory of the window has not faded below the floor, unless it was only
\* just recalled.
WindowIsLive ==
    \A m \in DOMAIN window :
        window[m].seen = turn \/ Clears(window[m].score, turn - window[m].seen, DecayFloor)

RejectedFor(q) == {m \in Memories : <<m, q>> \in rejectedFor}

\* A turn continues with the window only if MuninnDB answered its intent within
\* the TTL, a judge's timeout apart.
ReuseIsFresh ==
    [][\A t \in Turns : At(t, "consult") /\ pc'[t] = "reuse" =>
          \E p \in Queries : /\ SameIntent(asks[t], p)
                             /\ now - lastRecall[p].at < IntentTTL + JudgeTicks]_vars

\* While Enrich calls come one at a time, a recall is skipped for nothing only
\* if the last recall of that intent, not long ago, gave nothing that the judge
\* has not rejected for it.
MissIsSound ==
    [][\A t \in Turns : ~overlapped /\ At(t, "consult") /\ pc'[t] = "skip" =>
          \E p \in Queries : /\ SameIntent(asks[t], p)
                             /\ lastRecall[p].found \subseteq RejectedFor(p)
                             /\ now - lastRecall[p].at < NegativeTTL + JudgeTicks]_vars

\* The continuation of an intent injects nothing that the judge rejected when
\* that intent was last recalled.
ContinuesVetted(t) ==
    At(t, "reusing") /\ pc'[t] = "enriched" =>
        \E p \in Queries : /\ SameIntent(asks[t], p)
                           /\ DOMAIN merged'[t] \cap RejectedFor(p) = {}

\* It holds while Enrich calls come one at a time.
ReuseIsVettedAlone == [][\A t \in Turns : ~overlapped => ContinuesVetted(t)]_vars

\* inject.go, without that condition: the judge evicts what it rejects "so the
\* same-intent reuse path above holds only vetted memories".
ReuseIsVetted == [][\A t \in Turns : ContinuesVetted(t)]_vars
=============================================================================
