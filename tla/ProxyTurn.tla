------------------------------ MODULE ProxyTurn ------------------------------
(***************************************************************************)
(* The turns of internal/proxy: ServeHTTP with its recovery and its turn   *)
(* line (proxy.go, access.go), instrument, captureResponse, the tee of a   *)
(* streamed answer (stream.go) and the idle write deadline (deadline.go).  *)
(* The handler of a MITM tunnel (mitm.go) is the same pipeline.            *)
(*                                                                         *)
(* One goroutine per turn; turns share the counters and the store.  The    *)
(* stdlib's ReverseProxy is part of the turn: it aborts the handler by a   *)
(* panic when the copy of a response fails.  The agent may leave or stop   *)
(* reading, the upstream may fail, go quiet or break off.  Bodies are      *)
(* counted in events (what one Read of a stream returns).                  *)
(***************************************************************************)
EXTENDS Naturals, Sequences, FiniteSets, FiniteSetsExt

CONSTANTS
    Turns,         \* requests of the session
    Requests,      \* Requests[t]: what turn t may ask: path words, body, an upgrade
    Replies,       \* Replies[t]: what its upstream may answer: kind and status
    CapturePaths,  \* words of captured paths; none: every path
    ExcludePaths,
    MaxEvents,     \* events of one response
    Idle,          \* writeIdleTimeout, in ticks
    Faulty         \* turns whose pipeline may panic

ReplyKinds == {"upgrade", "grpc", "opaque", "stream", "whole", "gzip", "badGzip", "tooLarge", "cutOff"}

ASSUME TurnAssumption ==
    /\ IsFiniteSet(Turns)
    /\ \A t \in Turns : \A r \in Requests[t] : r.body \in {"none", "whole", "broken", "tooLarge"} /\ r.upgrade \in BOOLEAN
    /\ \A t \in Turns : \A r \in Replies[t] : r.kind \in ReplyKinds /\ r.status \in Nat \ {0}
    /\ MaxEvents \in Nat
    /\ Idle \in Nat \ {0}
    /\ Faulty \subseteq Turns

VARIABLES
    stage,      \* where the handler of a turn stands
    req,        \* the request
    source,     \* what the answer is copied from
    status,     \* the recorder's status, NoStatus before a header was written
    answer,     \* the status on the wire
    heard,      \* events read from it, through the streamCapture of a stream
    relayed,    \* events the agent has received
    writing,    \* a Write to the agent is in progress
    budget,     \* ticks until the write deadline of the connection
    blocked,    \* history: ticks the Write in progress has waited
    agent,      \* the agent's side of the connection
    panicked,   \* the turn ended in the recovery: after which panic
    offered,    \* exchanges handed to the store
    lines,      \* turn lines
    counters    \* the session counters of stats.Stats a request moves

NoStatus  == 0
NoPanic   == "no"
NoRequest == [words |-> {}, body |-> "none", upgrade |-> FALSE]

vars == <<stage, req, source, status, answer, heard, relayed, writing, budget,
          blocked, agent, panicked, offered, lines, counters>>

Counters == {"requests", "proxyErrors", "upstreamErrors", "uncapturable", "latencies", "upgraded"}

Init ==
    /\ stage = [t \in Turns |-> "idle"]
    /\ req = [t \in Turns |-> NoRequest]
    /\ source = [t \in Turns |-> "none"]
    /\ status = [t \in Turns |-> NoStatus]
    /\ answer = [t \in Turns |-> NoStatus]
    /\ heard = [t \in Turns |-> 0]
    /\ relayed = [t \in Turns |-> 0]
    /\ writing = [t \in Turns |-> FALSE]
    /\ budget = [t \in Turns |-> Idle]
    /\ blocked = [t \in Turns |-> 0]
    /\ agent = [t \in Turns |-> "reading"]
    /\ panicked = [t \in Turns |-> NoPanic]
    /\ offered = [t \in Turns |-> <<>>]
    /\ lines = [t \in Turns |-> <<>>]
    /\ counters = [c \in Counters |-> 0]

-----------------------------------------------------------------------------
\* Counts one of each counter named.
Count(names) == counters' = [c \in Counters |-> counters[c] + (IF c \in names THEN 1 ELSE 0)]

ShouldCapture(words) ==
    /\ words \cap ExcludePaths = {}
    /\ CapturePaths = {} \/ words \cap CapturePaths # {}

\* writeJSONError through the recorder, and the reply's own header.
WriteHeader(t, code) ==
    /\ status' = [status EXCEPT ![t] = code]
    /\ answer' = [answer EXCEPT ![t] = code]

\* finalize runs under sync.Once: EOF, Close and a broken stream all end here.
OfferOnce(t, n) == IF offered[t] = <<>> THEN Append(offered[t], n) ELSE offered[t]

\* Hands an exchange of n events to the store; the names are what else is
\* counted.  A turn is sampled whether or not it is stored.
Offer(t, n, names) ==
    /\ offered' = [offered EXCEPT ![t] = OfferOnce(t, n)]
    /\ Count(names \cup {"latencies"})

-----------------------------------------------------------------------------
\* A request other than the status endpoint's: counted, then instrumented.
Arrive(t, r) ==
    /\ stage[t] = "idle"
    /\ stage' = [stage EXCEPT ![t] = "reading"]
    /\ req' = [req EXCEPT ![t] = r]
    /\ Count({"requests"})
    /\ UNCHANGED <<source, status, answer, heard, relayed, writing, budget, blocked,
                   agent, panicked, offered, lines>>

RefusedWith(body) == CASE body = "broken" -> 500 [] body = "tooLarge" -> 413 [] OTHER -> NoStatus

\* A path that is not captured goes on untouched; a body that cannot be
\* buffered ends the turn; anything else is enriched.
ReadBody(t) ==
    /\ stage[t] = "reading"
    /\ LET refused == RefusedWith(req[t].body)
       IN  \/ /\ ~ShouldCapture(req[t].words)
              /\ stage' = [stage EXCEPT ![t] = "upstream"]
              /\ UNCHANGED <<status, answer>>
           \/ /\ ShouldCapture(req[t].words)
              /\ refused # NoStatus
              /\ WriteHeader(t, refused)
              /\ stage' = [stage EXCEPT ![t] = "closing"]
           \/ /\ ShouldCapture(req[t].words)
              /\ refused = NoStatus
              /\ stage' = [stage EXCEPT ![t] = IF req[t].body = "none" THEN "upstream" ELSE "enriching"]
              /\ UNCHANGED <<status, answer>>
    /\ UNCHANGED <<req, source, heard, relayed, writing, budget, blocked, agent,
                   panicked, offered, lines, counters>>

\* The injector answers with the body to forward, enriched or not.
Enrich(t) ==
    /\ stage[t] = "enriching"
    /\ stage' = [stage EXCEPT ![t] = "upstream"]
    /\ UNCHANGED <<req, source, status, answer, heard, relayed, writing, budget, blocked,
                   agent, panicked, offered, lines, counters>>

\* errorHandler: a turn the agent cancelled gets no answer, any other a 502.
Canceled(t) == agent[t] = "gone" /\ UNCHANGED <<status, answer, counters>>
Unreachable(t) == WriteHeader(t, 502) /\ Count({"proxyErrors"})

RoundTripFails(t) ==
    /\ stage[t] = "upstream"
    /\ Canceled(t) \/ Unreachable(t)
    /\ stage' = [stage EXCEPT ![t] = "closing"]
    /\ UNCHANGED <<req, source, heard, relayed, writing, budget, blocked, agent,
                   panicked, offered, lines>>

Unreadable(r) == r.kind \in {"upgrade", "grpc", "opaque"}
Buffered(r)   == r.kind \in {"whole", "gzip", "badGzip"}
UpstreamError(r) == IF r.kind # "upgrade" /\ r.status >= 400 THEN {"upstreamErrors"} ELSE {}

\* An upgrade is hijacked before a header goes through the recorder.
RelayHeader(t, r) ==
    IF r.kind = "upgrade"
    THEN answer' = [answer EXCEPT ![t] = r.status] /\ UNCHANGED status
    ELSE WriteHeader(t, r.status)

Untouched(r) == IF r.kind = "upgrade" THEN "raw" ELSE "upstream"

RelayFrom(t, s) ==
    /\ source' = [source EXCEPT ![t] = s]
    /\ stage' = [stage EXCEPT ![t] = "relaying"]

NotCounted(r) == UpstreamError(r)                                    \* mutant
\* What is counted of an answer that cannot become a memory.
Missed(r) == {"uncapturable"} \cup UpstreamError(r)

\* captureResponse on a captured path: what cannot be read is counted and
\* relayed, a stream is teed, anything else is read whole first.
Capture(t, r) ==
    \/ /\ Unreadable(r)
       /\ RelayHeader(t, r)
       /\ RelayFrom(t, Untouched(r))
       /\ Count(Missed(r))
       /\ UNCHANGED offered
    \/ /\ r.kind = "stream"
       /\ RelayHeader(t, r)
       /\ RelayFrom(t, "tee")
       /\ Count(UpstreamError(r))
       /\ UNCHANGED offered
    \/ /\ Buffered(r)
       /\ RelayHeader(t, r)
       /\ RelayFrom(t, "memory")
       /\ Offer(t, MaxEvents, UpstreamError(r))
    \/ /\ r.kind \in {"tooLarge", "cutOff"}
       /\ IF r.kind = "cutOff" /\ agent[t] = "gone"
          THEN Count(UpstreamError(r)) /\ UNCHANGED <<status, answer>>
          ELSE Count(UpstreamError(r) \cup {"proxyErrors"}) /\ WriteHeader(t, 502)
       /\ stage' = [stage EXCEPT ![t] = "closing"]
       /\ UNCHANGED <<source, offered>>

Respond(t, r) ==
    /\ stage[t] = "upstream"
    /\ r.kind = "upgrade" => req[t].upgrade
    /\ IF ShouldCapture(req[t].words)
       THEN Capture(t, r)
       ELSE RelayHeader(t, r) /\ RelayFrom(t, Untouched(r)) /\ UNCHANGED <<offered, counters>>
    /\ budget' = [budget EXCEPT ![t] = Idle]
    /\ UNCHANGED <<req, heard, relayed, writing, blocked, agent, panicked, lines>>

-----------------------------------------------------------------------------
(***************************************************************************)
(* Copying the answer.  A Read runs through the tee before its bytes are   *)
(* written; the write first extends the deadline of the connection, which  *)
(* a hijacked upgrade does not have.                                       *)
(***************************************************************************)
Hijacked(t) == source[t] = "raw"

NotExtended(t) == budget[t]                                          \* mutant
Extended(t) == Idle

CopyEvent(t) ==
    /\ stage[t] = "relaying"
    /\ ~writing[t]
    /\ heard[t] < MaxEvents
    /\ heard' = [heard EXCEPT ![t] = @ + 1]
    /\ writing' = [writing EXCEPT ![t] = TRUE]
    /\ budget' = [budget EXCEPT ![t] = Extended(t)]
    /\ blocked' = [blocked EXCEPT ![t] = 0]
    /\ UNCHANGED <<stage, req, source, status, answer, relayed, agent, panicked,
                   offered, lines, counters>>

Written(t) ==
    /\ writing[t]
    /\ agent[t] = "reading"
    /\ relayed' = [relayed EXCEPT ![t] = @ + 1]
    /\ writing' = [writing EXCEPT ![t] = FALSE]
    /\ UNCHANGED <<stage, req, source, status, answer, heard, budget, blocked, agent,
                   panicked, offered, lines, counters>>

OnlyAtEOF(t, names) ==                                               \* mutant
    IF source[t] = "tee" /\ names = {} THEN Offer(t, heard[t], names)
    ELSE Count(names) /\ UNCHANGED offered
\* The body is closed with what was heard, in the order the code does it.
CloseBody(t, names) ==
    IF source[t] = "tee" THEN Offer(t, heard[t], names)
    ELSE Count(names) /\ UNCHANGED offered

\* EOF: the tee finalizes in Read, and again, to no effect, in Close.
EndOfBody(t) ==
    /\ stage[t] = "relaying"
    /\ ~writing[t]
    /\ source[t] = "memory" => heard[t] = MaxEvents
    /\ CloseBody(t, {})
    /\ stage' = [stage EXCEPT ![t] = "closing"]
    /\ UNCHANGED <<req, source, status, answer, heard, relayed, writing, budget,
                   blocked, agent, panicked, lines>>

SkipsTheLine(t, why) ==                                                 \* mutant
    /\ panicked' = [panicked EXCEPT ![t] = why]
    /\ answer' = [answer EXCEPT ![t] = IF status[t] = NoStatus THEN 502 ELSE @]
    /\ stage' = [stage EXCEPT ![t] = "ended"]
\* The recovery: a 502 if no header went out, written past the recorder.
Recover(t, why) ==
    /\ panicked' = [panicked EXCEPT ![t] = why]
    /\ answer' = [answer EXCEPT ![t] = IF status[t] = NoStatus THEN 502 ELSE @]
    /\ stage' = [stage EXCEPT ![t] = "closing"]

\* The copy fails: Close finalizes the tee, then ReverseProxy panics.  A
\* hijacked copy just ends.
CopyFails(t) ==
    /\ IF Hijacked(t)
       THEN /\ stage' = [stage EXCEPT ![t] = "closing"]
            /\ UNCHANGED <<answer, panicked, offered, counters>>
       ELSE CloseBody(t, {"proxyErrors"}) /\ Recover(t, "copy")
    /\ writing' = [writing EXCEPT ![t] = FALSE]
    /\ UNCHANGED <<req, source, status, heard, relayed, budget, blocked, agent, lines>>

\* The upstream breaks off, or the agent's departure cancels the request.
ReadFails(t) ==
    /\ stage[t] = "relaying"
    /\ ~writing[t]
    /\ source[t] # "memory"
    /\ CopyFails(t)

AgentLost(t) == writing[t] /\ agent[t] = "gone" /\ CopyFails(t)

DeadlineCuts(t) ==
    /\ writing[t]
    /\ budget[t] = 0
    /\ ~Hijacked(t)
    /\ CopyFails(t)

\* A stage of the pipeline panics; the tee is not closed on this path.
Panic(t) ==
    /\ t \in Faulty
    /\ stage[t] \in {"reading", "enriching", "upstream", "relaying"}
    /\ stage[t] = "relaying" => source[t] = "tee"
    /\ ~writing[t]
    /\ Recover(t, "stage")
    /\ Count({"proxyErrors"})
    /\ UNCHANGED <<req, source, status, heard, relayed, writing, budget, blocked,
                   agent, offered, lines>>

StatusLogged(t) == IF status[t] = NoStatus THEN 200 ELSE status[t]
Level(t) == IF panicked[t] # NoPanic \/ StatusLogged(t) >= 500 THEN "error" ELSE "info"

\* What remains of a turn is its line, its exchange and what was counted.
Release(t) ==
    /\ req' = [req EXCEPT ![t] = NoRequest]
    /\ answer' = [answer EXCEPT ![t] = NoStatus]
    /\ heard' = [heard EXCEPT ![t] = 0]
    /\ relayed' = [relayed EXCEPT ![t] = 0]
    /\ budget' = [budget EXCEPT ![t] = Idle]
    /\ blocked' = [blocked EXCEPT ![t] = 0]
    /\ agent' = [agent EXCEPT ![t] = "reading"]

\* The deferred turn line, on every path out of the handler.
LogTurn(t) ==
    /\ stage[t] = "closing"
    /\ stage' = [stage EXCEPT ![t] = "ended"]
    /\ lines' = [lines EXCEPT ![t] = Append(@, [status |-> StatusLogged(t), level |-> Level(t)])]
    /\ Release(t)
    /\ UNCHANGED <<source, status, writing, panicked, offered, counters>>

-----------------------------------------------------------------------------
\* degradedReasons of the status answer, over the counters of this module.
Degraded == {c \in {"proxyErrors", "uncapturable"} : counters[c] > 0}

\* The agent stops reading, reads again, or leaves.
AgentTurns(t, how) ==
    /\ stage[t] \notin {"idle", "ended"}
    /\ agent[t] # "gone" /\ agent[t] # how
    /\ agent' = [agent EXCEPT ![t] = how]
    /\ UNCHANGED <<stage, req, source, status, answer, heard, relayed, writing, budget,
                   blocked, panicked, offered, lines, counters>>

\* Time passes only when no write can go through at once.
Tick ==
    /\ \A t \in Turns : ~(writing[t] /\ agent[t] # "stalled")
    /\ \E t \in Turns : stage[t] = "relaying" /\ budget[t] > 0
    /\ budget' = [t \in Turns |-> IF stage[t] = "relaying" /\ budget[t] > 0
                                  THEN budget[t] - 1 ELSE budget[t]]
    /\ blocked' = [t \in Turns |-> IF writing[t] /\ blocked[t] < Idle
                                   THEN blocked[t] + 1 ELSE blocked[t]]
    /\ UNCHANGED <<stage, req, source, status, answer, heard, relayed, writing, agent,
                   panicked, offered, lines, counters>>

\* What the handler of a turn does by itself, what its upstream does, and
\* what its agent does.
Handler(t) == ReadBody(t) \/ Enrich(t) \/ Written(t) \/ AgentLost(t) \/ DeadlineCuts(t) \/ LogTurn(t)
Upstream(t) ==
    \/ RoundTripFails(t) \/ CopyEvent(t) \/ EndOfBody(t) \/ ReadFails(t)
    \/ \E r \in Replies[t] : Respond(t, r)
Caller(t) ==
    \/ \E r \in Requests[t] : Arrive(t, r)
    \/ \E how \in {"reading", "stalled", "gone"} : AgentTurns(t, how)

TurnStep ==
    \/ Tick
    \/ \E t \in Turns : Handler(t) \/ Upstream(t) \/ Caller(t) \/ Panic(t)

Next == TurnStep

Spec == Init /\ [][Next]_vars

\* The handlers of net/http run, the connection's deadline fires, and a write
\* drains if the agent keeps coming back to read; of the upstream and of an
\* agent that does not read nothing is assumed.
TurnFairness ==
    /\ \A t \in Turns : WF_vars(Handler(t))
                       /\ SF_vars(Written(t))
    /\ WF_vars(Tick)

-----------------------------------------------------------------------------
\* The types of the turns' state.
TurnsTyped ==
    /\ stage \in [Turns -> {"idle", "reading", "enriching", "upstream", "relaying", "closing", "ended"}]
    /\ source \in [Turns -> {"none", "raw", "upstream", "tee", "memory"}]
    /\ agent \in [Turns -> {"reading", "stalled", "gone"}]
    /\ panicked \in [Turns -> {NoPanic, "copy", "stage"}]
CopiesTyped ==
    /\ heard \in [Turns -> 0..MaxEvents] /\ relayed \in [Turns -> 0..MaxEvents]
    /\ writing \in [Turns -> BOOLEAN]
    /\ budget \in [Turns -> 0..Idle] /\ blocked \in [Turns -> 0..Idle]
OutcomesTyped ==
    /\ status \in [Turns -> Nat] /\ answer \in [Turns -> Nat]
    /\ offered \in [Turns -> Seq(0..MaxEvents)]
    /\ lines \in [Turns -> Seq([status : Nat, level : {"error", "info"}])]
    /\ counters \in [Counters -> Nat]
TypeOK ==
    /\ TurnsTyped
    /\ CopiesTyped
    /\ OutcomesTyped
    /\ req \in [Turns -> (UNION {Requests[t] : t \in Turns}) \cup {NoRequest}]

\* A streamed or buffered answer becomes one exchange, however it ends: EOF,
\* an upstream that breaks off, an agent that leaves or stops reading.  The
\* exchange holds at least every event the agent received.  Only a panic of
\* the pipeline itself may lose it.
OneExchange ==
    \A t \in Turns :
        /\ Len(offered[t]) <= 1
        /\ \A i \in 1..Len(offered[t]) : offered[t][i] >= relayed[t]
        /\ stage[t] \in {"closing", "ended"} /\ source[t] \in {"tee", "memory"}
              => offered[t] # <<>> \/ panicked[t] = "stage"

BadGateway(t) == source[t] = "none" /\ status[t] = 502

\* A turn is answered unless its agent left, and has one turn line in the
\* end, at level error exactly if it failed; the session's counters say what
\* the turns were: one proxy error for each that was answered 502 or aborted,
\* one latency sample for each that was captured.
OutcomesAddUp ==
    /\ \A t \in Turns :
          /\ Len(lines[t]) = (IF stage[t] = "ended" THEN 1 ELSE 0)
          /\ stage[t] = "closing" => answer[t] # NoStatus \/ agent[t] = "gone"
          /\ stage[t] = "ended" => (lines[t][1].level = "error") = (panicked[t] # NoPanic \/ status[t] >= 500)
    /\ counters["proxyErrors"] = Cardinality({t \in Turns : panicked[t] # NoPanic \/ BadGateway(t)})
    /\ counters["latencies"] = Cardinality({t \in Turns : offered[t] # <<>>})

\* A session that calls itself healthy has recorded every captured turn whose
\* answer went to the agent, and has failed none.
HealthyMeansSaved ==
    Degraded = {} => \A t \in Turns :
        /\ panicked[t] = NoPanic /\ ~BadGateway(t)
        /\ stage[t] = "closing" /\ source[t] # "none" /\ ShouldCapture(req[t].words) => offered[t] # <<>>

\* A turn is cut by its deadline only when the agent has not read for the
\* whole idle time: a slow upstream never costs the agent its answer.
CutOnlyWhenAgentStalls ==
    [][\A t \in Turns : writing[t] /\ stage'[t] = "closing" =>
           agent[t] = "gone" \/ blocked[t] = Idle \/ Hijacked(t)]_vars

-----------------------------------------------------------------------------
\* What the session relies on of its turns.
Life == INSTANCE TurnLife WITH
    life <- [t \in Turns |-> CASE stage[t] = "idle" -> "none" [] stage[t] = "ended" -> "over" [] OTHER -> "flying"],
    hijacked <- {t \in Turns : Hijacked(t)},
    exchange <- [t \in Turns |-> IF offered[t] = <<>> THEN "none" ELSE "stored"],
    storeOpen <- TRUE

\* The pipeline is one of those that Session composes with.
ImplementsTurnLife == Life!LifeSpec
=============================================================================
