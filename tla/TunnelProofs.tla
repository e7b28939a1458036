----------------------------- MODULE TunnelProofs -----------------------------
(***************************************************************************)
(* Theorems about ProxyTurn and Tunnel, for any number of turns, requests, *)
(* replies and events, any idle time, any number of connections and hosts, *)
(* any bound of the leaf cache and any deadlines.  The first part is about *)
(* the turns alone; the second about what a client of a tunnel is served   *)
(* with, and what the first shows of the turns, for those that come        *)
(* through tunnels.                                                        *)
(***************************************************************************)
EXTENDS Tunnel, FiniteSetTheorems, SequenceTheorems, WellFoundedInduction, TLAPS

\* The assumption on the constants, by parts.
LEMMA ConstantTypes ==
    /\ IsFiniteSet(Turns)
    /\ MaxEvents \in Nat
    /\ Idle \in Nat /\ Idle > 0
    /\ \A t \in Turns : \A r \in Replies[t] : r.kind \in ReplyKinds /\ r.status \in Nat /\ r.status # 0
BY TurnAssumption

\* A counter counted, or not, is a number still.
LEMMA CountKeepsType ==
    ASSUME counters \in [Counters -> Nat], NEW names, Count(names)
    PROVE  counters' \in [Counters -> Nat]
BY DEF Count

-----------------------------------------------------------------------------
(***************************************************************************)
(* Types                                                                   *)
(***************************************************************************)

\* A handler may offer one exchange more, of no more events than there are.
LEMMA OfferKeepsType ==
    ASSUME offered \in [Turns -> Seq(0..MaxEvents)], NEW t \in Turns, NEW n \in 0..MaxEvents
    PROVE  OfferOnce(t, n) \in Seq(0..MaxEvents)
<1>1. offered[t] \in Seq(0..MaxEvents)
  OBVIOUS
<1>2. Append(offered[t], n) \in Seq(0..MaxEvents)
  BY <1>1, AppendProperties
<1> QED BY <1>1, <1>2 DEF OfferOnce

\* A step of the handler, its upstream or its client, or of time, keeps where
\* each turn stands within the stages, and who its two ends are.
LEMMA StepKeepsTurns ==
    ASSUME TurnsTyped, TurnStep
    PROVE  TurnsTyped'
<1> USE DEF TurnsTyped
<1>1. CASE Tick
  BY <1>1 DEF Tick
<1>2. ASSUME NEW t \in Turns, NEW r, Arrive(t, r) PROVE TurnsTyped'
  BY <1>2 DEF Arrive
<1>3. ASSUME NEW t \in Turns, ReadBody(t) PROVE TurnsTyped'
  BY <1>3 DEF ReadBody
<1>4. ASSUME NEW t \in Turns, Enrich(t) PROVE TurnsTyped'
  BY <1>4 DEF Enrich
<1>5. ASSUME NEW t \in Turns, RoundTripFails(t) PROVE TurnsTyped'
  BY <1>5 DEF RoundTripFails
<1>6. ASSUME NEW t \in Turns, NEW r, Respond(t, r) PROVE TurnsTyped'
  <2>1. /\ source' = source \/ \E s \in {"raw", "upstream", "tee", "memory"} : source' = [source EXCEPT ![t] = s]
        /\ \E s \in {"relaying", "closing"} : stage' = [stage EXCEPT ![t] = s]
        /\ UNCHANGED <<agent, panicked>>
    BY <1>6 DEF Respond, Capture, RelayFrom, Untouched
  <2> QED BY <2>1
<1>7. ASSUME NEW t \in Turns, CopyEvent(t) PROVE TurnsTyped'
  BY <1>7 DEF CopyEvent
<1>8. ASSUME NEW t \in Turns, Written(t) PROVE TurnsTyped'
  BY <1>8 DEF Written
<1>9. ASSUME NEW t \in Turns, EndOfBody(t) PROVE TurnsTyped'
  BY <1>9 DEF EndOfBody
<1>10. ASSUME NEW t \in Turns, CopyFails(t) PROVE TurnsTyped'
  <2>1. /\ stage' = [stage EXCEPT ![t] = "closing"]
        /\ panicked' = panicked \/ panicked' = [panicked EXCEPT ![t] = "copy"]
        /\ UNCHANGED <<source, agent>>
    BY <1>10 DEF CopyFails, Recover
  <2> QED BY <2>1
<1>11. ASSUME NEW t \in Turns, Panic(t) PROVE TurnsTyped'
  BY <1>11 DEF Panic, Recover
<1>12. ASSUME NEW t \in Turns, LogTurn(t) PROVE TurnsTyped'
  BY <1>12 DEF LogTurn, Release
<1>13. ASSUME NEW t \in Turns, NEW how \in {"reading", "stalled", "gone"}, AgentTurns(t, how) PROVE TurnsTyped'
  BY <1>13 DEF AgentTurns
<1> QED
  BY <1>1, <1>2, <1>3, <1>4, <1>5, <1>6, <1>7, <1>8, <1>9, <1>10, <1>11, <1>12, <1>13
  DEF TurnStep, Handler, Upstream, Caller, ReadFails, AgentLost, DeadlineCuts

-----------------------------------------------------------------------------
(***************************************************************************)
(* The copy of an answer: a write is in progress only in the copy, after   *)
(* the tee heard what it carries, and what its deadline has left and what  *)
(* it has waited make up the idle time.                                    *)
(***************************************************************************)
CopyInv ==
    \A t \in Turns :
        /\ relayed[t] <= heard[t]
        /\ writing[t] => stage[t] = "relaying" /\ relayed[t] < heard[t] /\ budget[t] + blocked[t] = Idle

CopyOK == TurnsTyped /\ CopiesTyped /\ CopyInv

\* Time runs for the write and against its deadline alike.
LEMMA TickKeepsCopies ==
    ASSUME CopyOK, Tick
    PROVE  CopiesTyped' /\ CopyInv'
<1> USE ConstantTypes DEF CopyOK, CopiesTyped, CopyInv
<1>1. UNCHANGED <<stage, heard, relayed, writing>>
  BY DEF Tick
<1>2. budget' \in [Turns -> 0..Idle] /\ blocked' \in [Turns -> 0..Idle]
  BY DEF Tick
<1>3. \A t \in Turns : writing[t] => budget'[t] + blocked'[t] = Idle
  <2> SUFFICES ASSUME NEW t \in Turns, writing[t] PROVE budget'[t] + blocked'[t] = Idle
    OBVIOUS
  <2>1. /\ budget[t] \in 0..Idle /\ blocked[t] \in 0..Idle
        /\ budget[t] + blocked[t] = Idle /\ stage[t] = "relaying"
    OBVIOUS
  <2>2. /\ budget'[t] = IF budget[t] > 0 THEN budget[t] - 1 ELSE budget[t]
        /\ blocked'[t] = IF blocked[t] < Idle THEN blocked[t] + 1 ELSE blocked[t]
    BY <2>1 DEF Tick
  <2> QED BY <2>1, <2>2
<1> QED BY <1>1, <1>2, <1>3

\* Only the steps of the copy move it; the rest leave it alone or, at the end of
\* the turn, forget it.
LEMMA StepKeepsCopies ==
    ASSUME CopyOK, TurnStep
    PROVE  CopiesTyped' /\ CopyInv'
<1> USE ConstantTypes DEF CopyOK, TurnsTyped, CopiesTyped, CopyInv
<1>1. CASE Tick
  BY <1>1, TickKeepsCopies
<1>2. ASSUME NEW t \in Turns, NEW r, Arrive(t, r) PROVE CopiesTyped' /\ CopyInv'
  BY <1>2 DEF Arrive
<1>3. ASSUME NEW t \in Turns, ReadBody(t) PROVE CopiesTyped' /\ CopyInv'
  <2>1. /\ stage[t] = "reading" /\ \E s \in {"upstream", "enriching", "closing"} : stage' = [stage EXCEPT ![t] = s]
        /\ UNCHANGED <<heard, relayed, writing, budget, blocked>>
    BY <1>3 DEF ReadBody
  <2> QED BY <2>1
<1>4. ASSUME NEW t \in Turns, Enrich(t) PROVE CopiesTyped' /\ CopyInv'
  BY <1>4 DEF Enrich
<1>5. ASSUME NEW t \in Turns, RoundTripFails(t) PROVE CopiesTyped' /\ CopyInv'
  <2>1. /\ stage[t] = "upstream" /\ stage' = [stage EXCEPT ![t] = "closing"]
        /\ UNCHANGED <<heard, relayed, writing, budget, blocked>>
    BY <1>5 DEF RoundTripFails
  <2> QED BY <2>1
<1>6. ASSUME NEW t \in Turns, NEW r, Respond(t, r) PROVE CopiesTyped' /\ CopyInv'
  <2>1. /\ stage[t] = "upstream" /\ \E s \in {"relaying", "closing"} : stage' = [stage EXCEPT ![t] = s]
        /\ budget' = [budget EXCEPT ![t] = Idle] /\ UNCHANGED <<heard, relayed, writing, blocked>>
    BY <1>6 DEF Respond, Capture, RelayFrom
  <2> QED BY <2>1
<1>7. ASSUME NEW t \in Turns, CopyEvent(t) PROVE CopiesTyped' /\ CopyInv'
  <2>1. /\ stage[t] = "relaying" /\ ~writing[t] /\ UNCHANGED stage
        /\ heard[t] < MaxEvents /\ heard' = [heard EXCEPT ![t] = heard[t] + 1]
        /\ writing' = [writing EXCEPT ![t] = TRUE]
        /\ budget' = [budget EXCEPT ![t] = Idle] /\ blocked' = [blocked EXCEPT ![t] = 0]
        /\ UNCHANGED relayed
    BY <1>7 DEF CopyEvent, Extended
  <2>2. heard[t] \in Nat /\ relayed[t] \in Nat /\ heard' \in [Turns -> 0..MaxEvents]
    BY <2>1
  <2> QED BY <2>1, <2>2
<1>8. ASSUME NEW t \in Turns, Written(t) PROVE CopiesTyped' /\ CopyInv'
  <2>1. /\ writing[t] /\ relayed' = [relayed EXCEPT ![t] = relayed[t] + 1]
        /\ writing' = [writing EXCEPT ![t] = FALSE]
        /\ UNCHANGED <<stage, heard, budget, blocked>>
    BY <1>8 DEF Written
  <2>2. heard[t] \in 0..MaxEvents /\ relayed[t] \in 0..MaxEvents /\ relayed[t] < heard[t]
    BY <2>1
  <2>3. relayed' \in [Turns -> 0..MaxEvents]
    BY <2>1, <2>2
  <2> QED BY <2>1, <2>2, <2>3
<1>9. ASSUME NEW t \in Turns, EndOfBody(t) PROVE CopiesTyped' /\ CopyInv'
  <2>1. /\ ~writing[t] /\ stage' = [stage EXCEPT ![t] = "closing"]
        /\ UNCHANGED <<heard, relayed, writing, budget, blocked>>
    BY <1>9 DEF EndOfBody
  <2> QED BY <2>1
<1>10. ASSUME NEW t \in Turns, CopyFails(t) PROVE CopiesTyped' /\ CopyInv'
  <2>1. /\ writing' = [writing EXCEPT ![t] = FALSE] /\ stage' = [stage EXCEPT ![t] = "closing"]
        /\ UNCHANGED <<heard, relayed, budget, blocked>>
    BY <1>10 DEF CopyFails, Recover
  <2> QED BY <2>1
<1>11. ASSUME NEW t \in Turns, Panic(t) PROVE CopiesTyped' /\ CopyInv'
  BY <1>11 DEF Panic, Recover
<1>12. ASSUME NEW t \in Turns, LogTurn(t) PROVE CopiesTyped' /\ CopyInv'
  BY <1>12 DEF LogTurn, Release
<1>13. ASSUME NEW t \in Turns, NEW how, AgentTurns(t, how) PROVE CopiesTyped' /\ CopyInv'
  BY <1>13 DEF AgentTurns
<1> QED
  BY <1>1, <1>2, <1>3, <1>4, <1>5, <1>6, <1>7, <1>8, <1>9, <1>10, <1>11, <1>12, <1>13
  DEF TurnStep, Handler, Upstream, Caller, ReadFails, AgentLost, DeadlineCuts

\* In every reachable state of the turns.
LEMMA CopiesSound == Spec => []CopyOK
<1>1. Init => CopyOK
  BY ConstantTypes DEF Init, CopyOK, TurnsTyped, CopiesTyped, CopyInv, NoPanic
<1>2. CopyOK /\ [Next]_vars => CopyOK'
  <2>1. CopyOK /\ UNCHANGED vars => CopyOK'
    BY DEF CopyOK, TurnsTyped, CopiesTyped, CopyInv, vars
  <2>2. CopyOK /\ TurnStep => CopyOK'
    BY StepKeepsTurns, StepKeepsCopies DEF CopyOK
  <2> QED BY <2>1, <2>2 DEF Next
<1> QED BY <1>1, <1>2, PTL DEF Spec

\* A write ends with its turn only by its agent, by its deadline or by its hijack.
LEMMA CutByItsAgent ==
    ASSUME CopyOK, TurnStep, NEW u \in Turns, writing[u], stage'[u] = "closing"
    PROVE  agent[u] = "gone" \/ blocked[u] = Idle \/ Hijacked(u)
<1>1. stage[u] = "relaying"
  BY DEF CopyOK, CopyInv
<1>2. CASE Tick
  BY <1>1, <1>2 DEF Tick
<1>3. ASSUME NEW t \in Turns, Handler(t) \/ Upstream(t) \/ Caller(t) \/ Panic(t)
      PROVE  agent[u] = "gone" \/ blocked[u] = Idle \/ Hijacked(u)
  <2> USE DEF CopyOK, TurnsTyped
  <2>1. CASE AgentLost(t) \/ DeadlineCuts(t)
    <3>1. stage' = [stage EXCEPT ![t] = "closing"]
      BY <2>1 DEF AgentLost, DeadlineCuts, CopyFails, Recover
    <3>2. t = u
      BY <1>1, <3>1
    <3>3. budget[u] + blocked[u] = Idle /\ budget[u] \in Nat /\ blocked[u] \in Nat
      BY ConstantTypes DEF CopyInv, CopiesTyped
    <3> QED BY <2>1, <3>2, <3>3, ConstantTypes DEF AgentLost, DeadlineCuts
  <2>2. CASE ~(AgentLost(t) \/ DeadlineCuts(t))
    <3>1. \/ UNCHANGED stage
          \/ stage[t] # "relaying" /\ \E s : stage' = [stage EXCEPT ![t] = s]
          \/ ~writing[t] /\ \E s : stage' = [stage EXCEPT ![t] = s]
      BY <1>3, <2>2 DEF Handler, Upstream, Caller, Panic, ReadBody, Enrich, Written, LogTurn,
            RoundTripFails, Respond, Capture, RelayFrom, CopyEvent, EndOfBody, ReadFails, CopyFails,
            Recover, Arrive, AgentTurns
    <3> QED BY <1>1, <3>1
  <2> QED BY <2>1, <2>2
<1> QED BY <1>2, <1>3 DEF TurnStep

\* A write is cut only when its agent left or has not read for the whole idle
\* time: each write extends the deadline it runs under, so that a slow upstream
\* uses up none of it (deadline.go).
THEOREM DeadlineIsTheAgents == Spec => CutOnlyWhenAgentStalls
<1>1. CopyOK /\ [Next]_vars =>
        [\A t \in Turns : writing[t] /\ stage'[t] = "closing" =>
            agent[t] = "gone" \/ blocked[t] = Idle \/ Hijacked(t)]_vars
  BY CutByItsAgent DEF Next
<1> QED BY <1>1, CopiesSound, PTL DEF Spec, CutOnlyWhenAgentStalls

-----------------------------------------------------------------------------
(***************************************************************************)
(* The answer of a turn: none before its upstream replied, one while it is *)
(* relayed, and one at its end unless the agent left.                      *)
(***************************************************************************)
AnswersTyped == status \in [Turns -> Nat] /\ answer \in [Turns -> Nat]

AnswerInv ==
    \A t \in Turns :
        /\ stage[t] \in {"idle", "reading", "enriching", "upstream"} =>
              source[t] = "none" /\ panicked[t] = NoPanic /\ status[t] = NoStatus
        /\ stage[t] = "relaying" => source[t] # "none" /\ panicked[t] = NoPanic /\ answer[t] # NoStatus
        /\ stage[t] # "ended" /\ status[t] # NoStatus => answer[t] # NoStatus
        /\ stage[t] = "closing" => answer[t] # NoStatus \/ agent[t] = "gone"

\* Every path to the end of a turn writes a header, or the recovery does, or the
\* agent that would read it left.
LEMMA StepKeepsAnswers ==
    ASSUME TurnsTyped, AnswersTyped, AnswerInv, CopyInv, TurnStep
    PROVE  AnswersTyped' /\ AnswerInv'
<1> USE ConstantTypes DEF TurnsTyped, AnswersTyped, AnswerInv, NoStatus, NoPanic
<1>1. CASE Tick
  BY <1>1 DEF Tick
<1>2. ASSUME NEW t \in Turns, NEW r, Arrive(t, r) PROVE AnswersTyped' /\ AnswerInv'
  BY <1>2 DEF Arrive
<1>3. ASSUME NEW t \in Turns, ReadBody(t) PROVE AnswersTyped' /\ AnswerInv'
  <2>1. CASE UNCHANGED <<status, answer>>
    <3>1. /\ stage[t] = "reading" /\ \E s \in {"upstream", "enriching"} : stage' = [stage EXCEPT ![t] = s]
          /\ UNCHANGED <<source, panicked, agent>>
      BY <1>3, <2>1 DEF ReadBody, WriteHeader, RefusedWith
    <3> QED BY <2>1, <3>1
  <2>2. CASE ~UNCHANGED <<status, answer>>
    <3>1. /\ stage[t] = "reading" /\ stage' = [stage EXCEPT ![t] = "closing"]
          /\ \E n \in {500, 413} : status' = [status EXCEPT ![t] = n] /\ answer' = [answer EXCEPT ![t] = n]
          /\ UNCHANGED <<source, panicked, agent>>
      BY <1>3, <2>2 DEF ReadBody, WriteHeader, RefusedWith
    <3> QED BY <3>1
  <2> QED BY <2>1, <2>2
<1>4. ASSUME NEW t \in Turns, Enrich(t) PROVE AnswersTyped' /\ AnswerInv'
  BY <1>4 DEF Enrich
<1>5. ASSUME NEW t \in Turns, RoundTripFails(t) PROVE AnswersTyped' /\ AnswerInv'
  <2>1. /\ stage[t] = "upstream" /\ stage' = [stage EXCEPT ![t] = "closing"]
        /\ UNCHANGED <<source, panicked, agent>>
        /\ \/ agent[t] = "gone" /\ UNCHANGED <<status, answer>>
           \/ status' = [status EXCEPT ![t] = 502] /\ answer' = [answer EXCEPT ![t] = 502]
    BY <1>5 DEF RoundTripFails, Canceled, Unreachable, WriteHeader
  <2> QED BY <2>1
<1>6. ASSUME NEW t \in Turns, NEW r \in Replies[t], Respond(t, r) PROVE AnswersTyped' /\ AnswerInv'
  <2>1. stage[t] = "upstream" /\ UNCHANGED <<panicked, agent>> /\ r.status \in Nat /\ r.status # 0
    BY <1>6 DEF Respond
  <2>2. CASE stage' = [stage EXCEPT ![t] = "relaying"]
    <3>1. /\ \E s \in {"raw", "upstream", "tee", "memory"} : source' = [source EXCEPT ![t] = s]
          /\ answer' = [answer EXCEPT ![t] = r.status]
          /\ UNCHANGED status \/ status' = [status EXCEPT ![t] = r.status]
      BY <1>6, <2>2 DEF Respond, Capture, RelayFrom, RelayHeader, Untouched, WriteHeader
    <3> QED BY <2>1, <2>2, <3>1
  <2>3. CASE stage' # [stage EXCEPT ![t] = "relaying"]
    <3>1. /\ stage' = [stage EXCEPT ![t] = "closing"] /\ UNCHANGED source
          /\ \/ agent[t] = "gone" /\ UNCHANGED <<status, answer>>
             \/ status' = [status EXCEPT ![t] = 502] /\ answer' = [answer EXCEPT ![t] = 502]
      BY <1>6, <2>3 DEF Respond, Capture, RelayFrom, WriteHeader
    <3> QED BY <2>1, <3>1
  <2> QED BY <2>2, <2>3
<1>7. ASSUME NEW t \in Turns, CopyEvent(t) PROVE AnswersTyped' /\ AnswerInv'
  BY <1>7 DEF CopyEvent
<1>8. ASSUME NEW t \in Turns, Written(t) PROVE AnswersTyped' /\ AnswerInv'
  BY <1>8 DEF Written
<1>9. ASSUME NEW t \in Turns, EndOfBody(t) PROVE AnswersTyped' /\ AnswerInv'
  BY <1>9 DEF EndOfBody
<1>10. ASSUME NEW t \in Turns, stage[t] = "relaying", CopyFails(t) PROVE AnswersTyped' /\ AnswerInv'
  <2>1. /\ stage[t] = "relaying" /\ stage' = [stage EXCEPT ![t] = "closing"]
        /\ UNCHANGED <<source, status, agent>>
        /\ \/ UNCHANGED <<answer, panicked>>
           \/ /\ panicked' = [panicked EXCEPT ![t] = "copy"]
              /\ answer' = [answer EXCEPT ![t] = IF status[t] = 0 THEN 502 ELSE answer[t]]
    BY <1>10 DEF CopyFails, Recover
  <2> QED BY <2>1
<1>11. ASSUME NEW t \in Turns, Panic(t) PROVE AnswersTyped' /\ AnswerInv'
  <2>1. /\ stage[t] \in {"reading", "enriching", "upstream", "relaying"}
        /\ stage' = [stage EXCEPT ![t] = "closing"] /\ UNCHANGED <<source, status, agent>>
        /\ panicked' = [panicked EXCEPT ![t] = "stage"]
        /\ answer' = [answer EXCEPT ![t] = IF status[t] = 0 THEN 502 ELSE answer[t]]
    BY <1>11 DEF Panic, Recover
  <2> QED BY <2>1
<1>12. ASSUME NEW t \in Turns, LogTurn(t) PROVE AnswersTyped' /\ AnswerInv'
  BY <1>12 DEF LogTurn, Release
<1>13. ASSUME NEW t \in Turns, NEW how, AgentTurns(t, how) PROVE AnswersTyped' /\ AnswerInv'
  BY <1>13 DEF AgentTurns
<1> QED
  BY <1>1, <1>2, <1>3, <1>4, <1>5, <1>6, <1>7, <1>8, <1>9, <1>10, <1>11, <1>12, <1>13
  DEF TurnStep, Handler, Upstream, Caller, ReadFails, AgentLost, DeadlineCuts, CopyInv

-----------------------------------------------------------------------------
(***************************************************************************)
(* The exchange of a turn: a buffered answer is handed over when it is     *)
(* read, a streamed one when its copy ends, whichever way.                 *)
(***************************************************************************)
ExchangeInv ==
    \A t \in Turns :
        /\ source[t] \in {"none", "raw", "upstream"} => offered[t] = <<>>
        /\ source[t] = "tee" => IF stage[t] = "relaying" THEN offered[t] = <<>>
                                ELSE offered[t] # <<>> \/ panicked[t] = "stage"
        /\ source[t] = "memory" => offered[t] = <<MaxEvents>>
        /\ offered[t] # <<>> => \E n \in 0..MaxEvents : offered[t] = <<n>> /\ relayed[t] <= n

\* The first exchange of a turn is its only one.
LEMMA FirstOffer ==
    ASSUME NEW t \in Turns, offered[t] = <<>>, NEW n
    PROVE  OfferOnce(t, n) = <<n>> /\ <<n>> # <<>>
BY DEF OfferOnce

\* A step that offers nothing, and leaves the turns that have offered at the
\* stage they are at.
LEMMA NothingOffered ==
    ASSUME CopyOK, ExchangeInv, CopiesTyped', UNCHANGED offered,
           \A t \in Turns : \/ source[t] = "none" /\ source'[t] \in {"none", "raw", "upstream"}
                            \/ source[t] = "none" /\ source'[t] = "tee" /\ stage'[t] = "relaying"
                            \/ source'[t] = source[t] /\ source[t] \in {"raw", "upstream", "memory"}
                            \/ source'[t] = source[t] /\ stage'[t] # "relaying" /\ panicked'[t] = "stage"
                            \/ /\ source'[t] = source[t] /\ panicked'[t] = panicked[t]
                               /\ stage'[t] = stage[t] \/ (stage[t] = "closing" /\ stage'[t] = "ended"),
           \A t \in Turns : relayed'[t] <= relayed[t] \/ source[t] = "memory" \/ offered[t] = <<>>
    PROVE  ExchangeInv'
<1> SUFFICES ASSUME NEW t \in Turns
             PROVE  /\ source'[t] \in {"none", "raw", "upstream"} => offered[t] = <<>>
                    /\ source'[t] = "tee" => IF stage'[t] = "relaying" THEN offered[t] = <<>>
                                             ELSE offered[t] # <<>> \/ panicked'[t] = "stage"
                    /\ source'[t] = "memory" => offered[t] = <<MaxEvents>>
                    /\ offered[t] # <<>> => \E n \in 0..MaxEvents : offered[t] = <<n>> /\ relayed'[t] <= n
  BY DEF ExchangeInv
<1>1. /\ source'[t] \in {"none", "raw", "upstream"} => offered[t] = <<>>
      /\ source'[t] = "tee" => IF stage'[t] = "relaying" THEN offered[t] = <<>>
                               ELSE offered[t] # <<>> \/ panicked'[t] = "stage"
      /\ source'[t] = "memory" => offered[t] = <<MaxEvents>>
  BY DEF ExchangeInv
<1>2. ASSUME offered[t] # <<>> PROVE \E n \in 0..MaxEvents : offered[t] = <<n>> /\ relayed'[t] <= n
  <2>1. relayed'[t] \in 0..MaxEvents /\ relayed[t] \in 0..MaxEvents
    BY DEF CopiesTyped, CopyOK
  <2>2. PICK n \in 0..MaxEvents : offered[t] = <<n>> /\ relayed[t] <= n
    BY <1>2 DEF ExchangeInv
  <2>3. CASE relayed'[t] <= relayed[t]
    BY <2>1, <2>2, <2>3, ConstantTypes
  <2>4. CASE source[t] = "memory"
    BY <2>1, <2>4, ConstantTypes DEF ExchangeInv
  <2> QED BY <1>2, <2>3, <2>4
<1> QED BY <1>1, <1>2

\* A step in which one turn hands over its exchange, of no fewer events than its
\* agent received.
LEMMA OneOffered ==
    ASSUME CopyOK, ExchangeInv, NEW t \in Turns, NEW n \in 0..MaxEvents,
           offered[t] = <<>>, offered' = [offered EXCEPT ![t] = OfferOnce(t, n)],
           offered \in [Turns -> Seq(0..MaxEvents)],
           UNCHANGED relayed, relayed[t] <= n,
           (source'[t] = "tee" /\ stage'[t] # "relaying") \/ (source'[t] = "memory" /\ n = MaxEvents),
           \A u \in Turns \ {t} : source'[u] = source[u] /\ stage'[u] = stage[u] /\ panicked'[u] = panicked[u]
    PROVE  ExchangeInv'
<1>1. offered'[t] = <<n>> /\ offered'[t] # <<>> /\ \A u \in Turns \ {t} : offered'[u] = offered[u]
  BY FirstOffer
<1> QED BY <1>1 DEF ExchangeInv

\* The conditions under which one of the two applies hold of every step.
LEMMA StepKeepsExchanges ==
    ASSUME CopyOK, CopiesTyped', AnswerInv, ExchangeInv, offered \in [Turns -> Seq(0..MaxEvents)], TurnStep
    PROVE  ExchangeInv' /\ offered' \in [Turns -> Seq(0..MaxEvents)]
<1> DEFINE Goal == ExchangeInv' /\ offered' \in [Turns -> Seq(0..MaxEvents)]
<1> USE DEF TurnsTyped
<1>a. \A t \in Turns : relayed[t] \in 0..MaxEvents /\ relayed[t] <= relayed[t] /\ heard[t] \in 0..MaxEvents
  BY ConstantTypes DEF CopyOK, CopiesTyped
<1>b. ASSUME NEW t \in Turns, NEW n \in 0..MaxEvents, offered' = [offered EXCEPT ![t] = OfferOnce(t, n)]
      PROVE  offered' \in [Turns -> Seq(0..MaxEvents)]
  BY <1>b, OfferKeepsType
<1>1. ASSUME UNCHANGED <<offered, panicked, relayed, source, stage>> PROVE Goal
  BY <1>1, <1>a, NothingOffered DEF CopyOK
<1>2. ASSUME NEW t \in Turns, NEW s, stage' = [stage EXCEPT ![t] = s], source[t] \in {"none", "raw", "upstream", "memory"},
             UNCHANGED <<offered, panicked, relayed, source>> PROVE Goal
  BY <1>2, <1>a, NothingOffered DEF CopyOK
<1>3. ASSUME NEW t \in Turns, LogTurn(t) PROVE Goal
  <2>1. /\ stage[t] = "closing" /\ stage' = [stage EXCEPT ![t] = "ended"]
        /\ UNCHANGED <<offered, panicked, source>> /\ relayed' = [relayed EXCEPT ![t] = 0]
    BY <1>3 DEF LogTurn, Release
  <2>2. \A u \in Turns : relayed'[u] <= relayed[u]
    BY <2>1, <1>a DEF CopyOK, CopiesTyped
  <2> QED BY <2>1, <2>2, NothingOffered DEF CopyOK
<1>4. ASSUME NEW t \in Turns, Written(t) PROVE Goal
  <2>1. /\ stage[t] = "relaying" /\ UNCHANGED <<offered, panicked, source, stage>>
        /\ relayed' = [relayed EXCEPT ![t] = relayed[t] + 1]
    BY <1>4 DEF Written, CopyOK, CopyInv
  <2>2. source[t] = "memory" \/ offered[t] = <<>>
    BY <2>1 DEF ExchangeInv, CopyOK
  <2>3. \A u \in Turns : relayed'[u] <= relayed[u] \/ source[u] = "memory" \/ offered[u] = <<>>
    BY <2>1, <2>2, <1>a DEF CopyOK, CopiesTyped
  <2> QED BY <2>1, <2>3, NothingOffered DEF CopyOK
<1>5. ASSUME NEW t \in Turns, stage[t] = "relaying", CloseBody(t, {}) \/ CloseBody(t, {"proxyErrors"}),
             stage' = [stage EXCEPT ![t] = "closing"], UNCHANGED <<source, relayed>>,
             \A u \in Turns \ {t} : panicked'[u] = panicked[u]
      PROVE  Goal
  <2>1. CASE source[t] = "tee"
    <3>1. offered' = [offered EXCEPT ![t] = OfferOnce(t, heard[t])]
      BY <1>5, <2>1 DEF CloseBody, Offer
    <3>2. offered[t] = <<>> /\ relayed[t] <= heard[t]
      BY <1>5, <2>1 DEF ExchangeInv, CopyOK, CopyInv
    <3>3. \A u \in Turns \ {t} : source'[u] = source[u] /\ stage'[u] = stage[u] /\ panicked'[u] = panicked[u]
      <4>1. source' = source /\ stage' = [stage EXCEPT ![t] = "closing"]
        BY <1>5
      <4> QED BY <1>5, <4>1 DEF CopyOK
    <3>4. source'[t] = "tee" /\ stage'[t] = "closing" /\ heard[t] \in 0..MaxEvents
      BY <1>5, <1>a, <2>1 DEF CopyOK
    <3>5. UNCHANGED relayed
      BY <1>5
    <3>6. source'[t] = "tee" /\ stage'[t] # "relaying"
      BY <3>4
    <3>a. PICK n \in 0..MaxEvents : n = heard[t]
      BY <3>4
    <3>7. n \in 0..MaxEvents /\ offered' = [offered EXCEPT ![t] = OfferOnce(t, n)] /\ relayed[t] <= n
      BY <3>1, <3>2, <3>a
    <3>b. (source'[t] = "tee" /\ stage'[t] # "relaying") \/ (source'[t] = "memory" /\ n = MaxEvents)
      BY <3>6
    <3>8. ExchangeInv'
      BY <3>2, <3>3, <3>5, <3>7, <3>b, OneOffered
    <3> QED BY <3>7, <3>8, <1>b
  <2>2. CASE source[t] # "tee"
    <3>1. UNCHANGED offered /\ source[t] \in {"raw", "upstream", "memory", "none"}
      BY <1>5, <2>2 DEF CloseBody, CopyOK
    <3> QED BY <1>5, <2>2, <3>1, <1>a, NothingOffered DEF CopyOK
  <2> QED BY <2>1, <2>2
<1>6. ASSUME NEW t \in Turns, stage[t] = "relaying", CopyFails(t) PROVE Goal
  <2>1. CASE Hijacked(t)
    BY <1>2, <1>6, <2>1 DEF CopyFails, Hijacked
  <2>2. CASE ~Hijacked(t)
    <3>1. /\ CloseBody(t, {"proxyErrors"}) /\ stage' = [stage EXCEPT ![t] = "closing"]
          /\ UNCHANGED <<source, relayed>> /\ panicked' = [panicked EXCEPT ![t] = "copy"]
      BY <1>6, <2>2 DEF CopyFails, Recover
    <3> QED BY <1>5, <1>6, <3>1 DEF CopyOK
  <2> QED BY <2>1, <2>2
<1>7. ASSUME NEW t \in Turns, Panic(t) PROVE Goal
  <2>1. /\ stage' = [stage EXCEPT ![t] = "closing"] /\ panicked' = [panicked EXCEPT ![t] = "stage"]
        /\ UNCHANGED <<offered, source, relayed>>
    BY <1>7 DEF Panic, Recover
  <2>2. \A u \in Turns : \/ source'[u] = source[u] /\ stage'[u] # "relaying" /\ panicked'[u] = "stage"
                         \/ source'[u] = source[u] /\ panicked'[u] = panicked[u] /\ stage'[u] = stage[u]
    BY <2>1 DEF CopyOK
  <2> QED BY <2>1, <2>2, <1>a, NothingOffered
<1>8. ASSUME NEW t \in Turns, NEW r, Respond(t, r) PROVE Goal
  <2>1. stage[t] = "upstream" /\ source[t] = "none" /\ UNCHANGED <<panicked, relayed>>
    BY <1>8 DEF Respond, AnswerInv, CopyOK
  <2>2. CASE UNCHANGED offered
    <3>1. /\ \E s \in {"relaying", "closing"} : stage' = [stage EXCEPT ![t] = s]
          /\ \/ UNCHANGED source
             \/ \E s \in {"raw", "upstream"} : source' = [source EXCEPT ![t] = s]
             \/ source' = [source EXCEPT ![t] = "tee"] /\ stage' = [stage EXCEPT ![t] = "relaying"]
             \/ Offer(t, MaxEvents, UpstreamError(r)) /\ source' = [source EXCEPT ![t] = "memory"]
      BY <1>8 DEF Respond, Capture, RelayFrom, Untouched
    <3>2. ~Offer(t, MaxEvents, UpstreamError(r))
      <4>1. offered[t] = <<>> /\ OfferOnce(t, MaxEvents) # <<>>
        BY <2>1, FirstOffer DEF ExchangeInv
      <4> QED BY <2>2, <4>1 DEF Offer
    <3> QED BY <2>1, <2>2, <3>1, <3>2, <1>a, NothingOffered DEF CopyOK
  <2>3. CASE ~UNCHANGED offered
    <3>1. /\ stage' = [stage EXCEPT ![t] = "relaying"] /\ source' = [source EXCEPT ![t] = "memory"]
          /\ offered' = [offered EXCEPT ![t] = OfferOnce(t, MaxEvents)]
      BY <1>8, <2>3 DEF Respond, Capture, RelayFrom, Offer
    <3>2. offered[t] = <<>> /\ relayed[t] <= MaxEvents /\ MaxEvents \in 0..MaxEvents
      BY <2>1, <1>a, ConstantTypes DEF ExchangeInv
    <3>3. /\ source'[t] = "memory"
          /\ \A u \in Turns \ {t} : source'[u] = source[u] /\ stage'[u] = stage[u] /\ panicked'[u] = panicked[u]
      BY <2>1, <3>1 DEF CopyOK
    <3>4. ExchangeInv'
      BY <2>1, <3>1, <3>2, <3>3, OneOffered
    <3> QED BY <3>1, <3>2, <3>4, <1>b
  <2> QED BY <2>2, <2>3
<1>9. ASSUME NEW t \in Turns, stage[t] \in {"idle", "reading", "enriching", "upstream"}, NEW s,
             stage' = [stage EXCEPT ![t] = s], UNCHANGED <<offered, panicked, relayed, source>> PROVE Goal
  BY <1>2, <1>9 DEF AnswerInv
<1>10. ASSUME NEW t \in Turns, NEW r, Arrive(t, r) PROVE Goal
  BY <1>9, <1>10 DEF Arrive
<1>11. ASSUME NEW t \in Turns, ReadBody(t) \/ Enrich(t) \/ RoundTripFails(t) PROVE Goal
  <2>1. /\ stage[t] \in {"reading", "enriching", "upstream"} /\ \E s : stage' = [stage EXCEPT ![t] = s]
        /\ UNCHANGED <<offered, panicked, relayed, source>>
    BY <1>11 DEF ReadBody, Enrich, RoundTripFails
  <2> QED BY <1>9, <2>1
<1>12. ASSUME NEW t \in Turns, EndOfBody(t) PROVE Goal
  <2>1. /\ stage[t] = "relaying" /\ CloseBody(t, {}) /\ stage' = [stage EXCEPT ![t] = "closing"]
        /\ UNCHANGED <<source, relayed, panicked>>
    BY <1>12 DEF EndOfBody
  <2> QED BY <1>5, <2>1
<1>13. ASSUME NEW t \in Turns, CopyEvent(t) PROVE Goal
  BY <1>1, <1>13 DEF CopyEvent
<1>14. ASSUME NEW t \in Turns, NEW how, AgentTurns(t, how) PROVE Goal
  BY <1>1, <1>14 DEF AgentTurns
<1>15. CASE Tick
  BY <1>1, <1>15 DEF Tick
<1>16. \A t \in Turns : writing[t] => stage[t] = "relaying"
  BY DEF CopyOK, CopyInv
<1>17. ASSUME NEW t \in Turns, Handler(t) PROVE Goal
  BY <1>3, <1>4, <1>6, <1>11, <1>16, <1>17 DEF Handler, AgentLost, DeadlineCuts
<1>18. ASSUME NEW t \in Turns, Upstream(t) PROVE Goal
  BY <1>6, <1>8, <1>11, <1>12, <1>13, <1>18 DEF Upstream, ReadFails
<1>19. ASSUME NEW t \in Turns, Caller(t) PROVE Goal
  BY <1>10, <1>14, <1>19 DEF Caller
<1>20. ASSUME NEW t \in Turns, Handler(t) \/ Upstream(t) \/ Caller(t) \/ Panic(t) PROVE Goal
  BY <1>7, <1>17, <1>18, <1>19, <1>20
<1>21. CASE \E t \in Turns : Handler(t) \/ Upstream(t) \/ Caller(t) \/ Panic(t)
  <2>1. PICK t \in Turns : Handler(t) \/ Upstream(t) \/ Caller(t) \/ Panic(t)
    BY <1>21
  <2> QED BY <1>20, <2>1
<1>22. Tick \/ \E t \in Turns : Handler(t) \/ Upstream(t) \/ Caller(t) \/ Panic(t)
  BY DEF TurnStep
<1>23. Goal
  BY <1>15, <1>21, <1>22
<1> QED BY <1>23 DEF Goal

\* What every reachable state of the turns satisfies.
TurnInv ==
    /\ CopyOK
    /\ AnswersTyped
    /\ AnswerInv
    /\ offered \in [Turns -> Seq(0..MaxEvents)]
    /\ ExchangeInv

LEMMA TurnsStartSound == Init => TurnInv
<1> SUFFICES ASSUME Init PROVE TurnInv
  OBVIOUS
<1>1. CopyOK
  BY ConstantTypes DEF Init, CopyOK, TurnsTyped, CopiesTyped, CopyInv, NoPanic
<1>2. AnswersTyped /\ AnswerInv
  BY DEF Init, AnswersTyped, AnswerInv, NoStatus, NoPanic
<1>3. offered \in [Turns -> Seq(0..MaxEvents)]
  BY DEF Init
<1>4. \A t \in Turns : source[t] = "none" /\ offered[t] = <<>>
  BY DEF Init
<1>5. ExchangeInv
  BY <1>4 DEF ExchangeInv
<1> QED BY <1>1, <1>2, <1>3, <1>5 DEF TurnInv

LEMMA TurnsSound == Spec => []TurnInv
<1>1. Init => TurnInv
  BY TurnsStartSound
<1>2. TurnInv /\ [Next]_vars => TurnInv'
  <2>1. ASSUME TurnInv, UNCHANGED vars PROVE TurnInv'
    BY <2>1 DEF TurnInv, CopyOK, TurnsTyped, CopiesTyped, CopyInv, AnswersTyped, AnswerInv, ExchangeInv, vars
  <2>2. ASSUME TurnInv, TurnStep PROVE TurnInv'
    <3>1. TurnsTyped' /\ CopiesTyped' /\ CopyInv'
      BY <2>2, StepKeepsTurns, StepKeepsCopies DEF TurnInv, CopyOK
    <3>2. AnswersTyped' /\ AnswerInv'
      BY <2>2, StepKeepsAnswers DEF TurnInv, CopyOK
    <3>3. ExchangeInv' /\ offered' \in [Turns -> Seq(0..MaxEvents)]
      BY <2>2, <3>1, StepKeepsExchanges DEF TurnInv
    <3> QED BY <3>1, <3>2, <3>3 DEF TurnInv, CopyOK
  <2> QED BY <2>1, <2>2 DEF Next
<1> QED BY <1>1, <1>2, PTL DEF Spec

\* The first of them that the session relies on.
LEMMA InvIsOneExchange ==
    TurnInv => OneExchange
<1> SUFFICES ASSUME TurnInv, NEW t \in Turns
             PROVE  /\ Len(offered[t]) <= 1
                    /\ \A i \in 1..Len(offered[t]) : offered[t][i] >= relayed[t]
                    /\ stage[t] \in {"closing", "ended"} /\ source[t] \in {"tee", "memory"}
                          => offered[t] # <<>> \/ panicked[t] = "stage"
  BY DEF OneExchange
<1>1. CASE offered[t] = <<>>
  <2>1. Len(offered[t]) = 0
    BY <1>1
  <2>2. source[t] # "memory"
    <3>1. <<MaxEvents>> # <<>>
      OBVIOUS
    <3> QED BY <1>1, <3>1 DEF TurnInv, ExchangeInv
  <2>3. stage[t] # "relaying" /\ source[t] = "tee" => panicked[t] = "stage"
    BY <1>1 DEF TurnInv, ExchangeInv
  <2>4. \A i \in 1..Len(offered[t]) : FALSE
    BY <2>1
  <2>5. Len(offered[t]) <= 1
    BY <2>1
  <2> QED BY <2>2, <2>3, <2>4, <2>5
<1>2. CASE offered[t] # <<>>
  <2>1. PICK n \in 0..MaxEvents : offered[t] = <<n>> /\ relayed[t] <= n
    BY <1>2 DEF TurnInv, ExchangeInv
  <2>2. Len(offered[t]) = 1 /\ offered[t][1] = n
    BY <2>1
  <2>3. n >= relayed[t]
    BY <2>1, ConstantTypes DEF TurnInv, CopyOK, CopiesTyped
  <2>4. \A i \in 1..Len(offered[t]) : i = 1
    BY <2>2
  <2> QED BY <1>2, <2>2, <2>3, <2>4
<1> QED BY <1>1, <1>2

\* A captured answer becomes one exchange, and no more, however its turn ends;
\* the exchange holds every event the agent received (finalize under sync.Once,
\* stream.go; captureResponse, proxy.go).
THEOREM OneExchangeATurn == Spec => []OneExchange
BY InvIsOneExchange, TurnsSound, PTL

-----------------------------------------------------------------------------
(***************************************************************************)
(* The turns implement TurnLife.                                           *)
(***************************************************************************)
InFlight == {"reading", "enriching", "upstream", "relaying", "closing"}

LifeOf(s) == CASE s = "idle" -> "none" [] s = "ended" -> "over" [] OTHER -> "flying"
ExchangeOf(o) == IF o = <<>> THEN "none" ELSE "stored"

\* A step within the flight of a turn, which neither takes its connection out of
\* the server's hands nor hands over an exchange, is none of TurnLife's.
LEMMA WithinFlight ==
    ASSUME TurnsTyped, NEW t \in Turns, stage[t] \in InFlight, NEW s \in InFlight,
           stage' = [stage EXCEPT ![t] = s], UNCHANGED offered,
           \/ UNCHANGED source
           \/ source[t] # "raw" /\ \E x \in {"upstream", "tee", "memory"} : source' = [source EXCEPT ![t] = x]
    PROVE  UNCHANGED Life!lifeVars
<1>1. \A u \in Turns : LifeOf(stage'[u]) = LifeOf(stage[u])
  BY DEF TurnsTyped, InFlight, LifeOf
<1>2. \A u \in Turns : source'[u] = "raw" <=> source[u] = "raw"
  BY DEF TurnsTyped
<1>3. {u \in Turns : source'[u] = "raw"} = {u \in Turns : source[u] = "raw"}
  BY <1>2
<1>4. [u \in Turns |-> LifeOf(stage'[u])] = [u \in Turns |-> LifeOf(stage[u])]
  BY <1>1
<1> QED BY <1>3, <1>4 DEF Life!lifeVars, LifeOf, Hijacked

\* A reply that is an upgrade leaves the server's hands.
LEMMA HijackStep ==
    ASSUME TurnsTyped, NEW t \in Turns, stage[t] \in InFlight, stage' = [stage EXCEPT ![t] = "relaying"],
           source' = [source EXCEPT ![t] = "raw"], UNCHANGED offered, offered[t] = <<>>
    PROVE  Life!Hijack(t)
<1>1. \A u \in Turns : LifeOf(stage'[u]) = LifeOf(stage[u])
  BY DEF TurnsTyped, InFlight, LifeOf
<1>2. [u \in Turns |-> LifeOf(stage'[u])] = [u \in Turns |-> LifeOf(stage[u])]
  BY <1>1
<1>3. {u \in Turns : source'[u] = "raw"} = {u \in Turns : source[u] = "raw"} \cup {t}
  BY DEF TurnsTyped
<1>4. LifeOf(stage[t]) = "flying"
  BY DEF TurnsTyped, InFlight, LifeOf
<1> QED BY <1>2, <1>3, <1>4 DEF Life!Hijack, LifeOf, Hijacked

\* A turn hands its exchange over in flight.
LEMMA HandOverStep ==
    ASSUME TurnsTyped, NEW t \in Turns, stage[t] \in InFlight, NEW s \in InFlight,
           stage' = [stage EXCEPT ![t] = s], NEW n, offered[t] = <<>>,
           offered \in [Turns -> Seq(0..MaxEvents)], offered' = [offered EXCEPT ![t] = <<n>>],
           \/ UNCHANGED source
           \/ source[t] # "raw" /\ source' = [source EXCEPT ![t] = "memory"]
    PROVE  Life!HandOver(t)
<1>1. \A u \in Turns : LifeOf(stage'[u]) = LifeOf(stage[u])
  BY DEF TurnsTyped, InFlight, LifeOf
<1>2. [u \in Turns |-> LifeOf(stage'[u])] = [u \in Turns |-> LifeOf(stage[u])]
  BY <1>1
<1>3. \A u \in Turns : source'[u] = "raw" <=> source[u] = "raw"
  BY DEF TurnsTyped
<1>4. {u \in Turns : source'[u] = "raw"} = {u \in Turns : source[u] = "raw"}
  BY <1>3
<1>5. LifeOf(stage[t]) = "flying"
  BY DEF TurnsTyped, InFlight, LifeOf
<1>6. ExchangeOf(offered'[t]) = "stored" /\ \A u \in Turns \ {t} : ExchangeOf(offered'[u]) = ExchangeOf(offered[u])
  <2>1. <<n>> # <<>>
    OBVIOUS
  <2> QED BY <2>1 DEF ExchangeOf
<1>7. [u \in Turns |-> ExchangeOf(offered'[u])] =
         [[u \in Turns |-> ExchangeOf(offered[u])] EXCEPT ![t] = "stored"]
  BY <1>6
<1> QED BY <1>2, <1>4, <1>5, <1>7 DEF Life!HandOver, LifeOf, ExchangeOf, Hijacked

\* A turn begins when its request arrives and ends with its line.
LEMMA EndsOfLife ==
    ASSUME TurnsTyped, NEW t \in Turns, NEW s, stage' = [stage EXCEPT ![t] = s], UNCHANGED <<source, offered>>
    PROVE  /\ stage[t] = "idle" /\ s = "reading" => Life!Begin(t)
           /\ stage[t] = "closing" /\ s = "ended" => Life!End(t)
<1>1. [u \in Turns |-> LifeOf(stage'[u])] = [[u \in Turns |-> LifeOf(stage[u])] EXCEPT ![t] = LifeOf(s)]
  BY DEF TurnsTyped
<1>2. {u \in Turns : source'[u] = "raw"} = {u \in Turns : source[u] = "raw"}
  OBVIOUS
<1>3. LifeOf("idle") = "none" /\ LifeOf("reading") = "flying" /\ LifeOf("closing") = "flying" /\ LifeOf("ended") = "over"
  BY DEF LifeOf
<1>4. stage[t] = "idle" /\ s = "reading" => Life!Begin(t)
  BY <1>1, <1>2, <1>3 DEF Life!Begin, LifeOf, Hijacked
<1>5. stage[t] = "closing" /\ s = "ended" => Life!End(t)
  BY <1>1, <1>2, <1>3 DEF Life!End, LifeOf, Hijacked
<1> QED BY <1>4, <1>5

\* A step of a turn is one of TurnLife's, or none.
LEMMA StepIsOfALife ==
    ASSUME TurnInv, NEW t \in Turns, Handler(t) \/ Upstream(t) \/ Caller(t) \/ Panic(t)
    PROVE  UNCHANGED Life!lifeVars \/ Life!Begin(t) \/ Life!Fly(t)
<1> DEFINE Goal == UNCHANGED Life!lifeVars \/ Life!Begin(t) \/ Life!Fly(t)
<1>1. TurnsTyped /\ offered \in [Turns -> Seq(0..MaxEvents)]
  BY DEF TurnInv, CopyOK
<1>2. ASSUME UNCHANGED <<stage, source, offered>> PROVE Goal
  BY <1>2 DEF Life!lifeVars, Hijacked
<1>3. ASSUME stage[t] \in InFlight, NEW s \in InFlight, stage' = [stage EXCEPT ![t] = s],
             UNCHANGED <<source, offered>> PROVE Goal
  BY <1>1, <1>3, WithinFlight
<1>4. ASSUME NEW r, Arrive(t, r) PROVE Goal
  BY <1>1, <1>4, EndsOfLife DEF Arrive
<1>5. ASSUME LogTurn(t) PROVE Goal
  <2>1. Life!End(t)
    BY <1>1, <1>5, EndsOfLife DEF LogTurn
  <2> QED BY <2>1 DEF Life!Fly
<1>6. ASSUME ReadBody(t) \/ Enrich(t) \/ RoundTripFails(t) PROVE Goal
  <2>1. /\ stage[t] \in InFlight /\ \E s \in InFlight : stage' = [stage EXCEPT ![t] = s]
        /\ UNCHANGED <<source, offered>>
    BY <1>6 DEF ReadBody, Enrich, RoundTripFails, InFlight
  <2> QED BY <1>3, <2>1
<1>7. ASSUME stage[t] = "relaying", CloseBody(t, {}) \/ CloseBody(t, {"proxyErrors"}),
             stage' = [stage EXCEPT ![t] = "closing"], UNCHANGED source
      PROVE  Goal
  <2>1. stage[t] \in InFlight /\ "closing" \in InFlight
    BY <1>7 DEF InFlight
  <2>2. CASE source[t] = "tee"
    <3>1. offered[t] = <<>>
      BY <1>7, <2>2 DEF TurnInv, ExchangeInv
    <3>2. offered' = [offered EXCEPT ![t] = <<heard[t]>>]
      BY <1>7, <2>2, <3>1 DEF CloseBody, Offer, OfferOnce
    <3>3. Life!HandOver(t)
      BY <1>1, <1>7, <2>1, <3>1, <3>2, HandOverStep
    <3> QED BY <3>3 DEF Life!Fly
  <2>3. CASE source[t] # "tee"
    BY <1>3, <1>7, <2>1, <2>3 DEF CloseBody
  <2> QED BY <2>2, <2>3
<1>8. ASSUME stage[t] = "relaying", CopyFails(t) PROVE Goal
  <2>1. stage' = [stage EXCEPT ![t] = "closing"] /\ UNCHANGED source
    BY <1>8 DEF CopyFails, Recover
  <2>2. "closing" \in InFlight /\ "relaying" \in InFlight
    BY DEF InFlight
  <2>3. CASE Hijacked(t)
    BY <1>3, <1>8, <2>1, <2>2, <2>3 DEF CopyFails
  <2>4. CASE ~Hijacked(t)
    BY <1>7, <1>8, <2>1, <2>4 DEF CopyFails
  <2> QED BY <2>3, <2>4
<1>9. ASSUME EndOfBody(t) PROVE Goal
  BY <1>7, <1>9 DEF EndOfBody
<1>10. ASSUME Panic(t) PROVE Goal
  <2>1. /\ stage[t] \in InFlight /\ "closing" \in InFlight /\ stage' = [stage EXCEPT ![t] = "closing"]
        /\ UNCHANGED <<source, offered>>
    BY <1>10 DEF Panic, Recover, InFlight
  <2> QED BY <1>3, <2>1
<1>11. ASSUME NEW r, Respond(t, r) PROVE Goal
  <2>1. stage[t] = "upstream" /\ source[t] = "none" /\ offered[t] = <<>>
    BY <1>11 DEF Respond, TurnInv, AnswerInv, ExchangeInv
  <2>2. stage[t] \in InFlight /\ "relaying" \in InFlight /\ "closing" \in InFlight
    BY <2>1 DEF InFlight
  <2>3. \/ /\ stage' = [stage EXCEPT ![t] = "relaying"] /\ source' = [source EXCEPT ![t] = "raw"]
           /\ UNCHANGED offered
        \/ /\ stage' = [stage EXCEPT ![t] = "relaying"]
           /\ \E x \in {"upstream", "tee"} : source' = [source EXCEPT ![t] = x]
           /\ UNCHANGED offered
        \/ /\ stage' = [stage EXCEPT ![t] = "relaying"] /\ source' = [source EXCEPT ![t] = "memory"]
           /\ offered' = [offered EXCEPT ![t] = OfferOnce(t, MaxEvents)]
        \/ stage' = [stage EXCEPT ![t] = "closing"] /\ UNCHANGED <<source, offered>>
    BY <1>11 DEF Respond, Capture, RelayFrom, Untouched, Offer
  <2>4. CASE /\ stage' = [stage EXCEPT ![t] = "relaying"] /\ source' = [source EXCEPT ![t] = "raw"]
             /\ UNCHANGED offered
    BY <1>1, <2>1, <2>2, <2>4, HijackStep DEF Life!Fly
  <2>5. CASE /\ stage' = [stage EXCEPT ![t] = "relaying"]
             /\ \E x \in {"upstream", "tee"} : source' = [source EXCEPT ![t] = x]
             /\ UNCHANGED offered
    BY <1>1, <2>1, <2>2, <2>5, WithinFlight
  <2>6. CASE /\ stage' = [stage EXCEPT ![t] = "relaying"] /\ source' = [source EXCEPT ![t] = "memory"]
             /\ offered' = [offered EXCEPT ![t] = OfferOnce(t, MaxEvents)]
    <3>1. offered' = [offered EXCEPT ![t] = <<MaxEvents>>]
      BY <2>1, <2>6, FirstOffer
    <3>2. source[t] # "raw"
      BY <2>1
    <3>3. Life!HandOver(t)
      BY <1>1, <2>1, <2>2, <2>6, <3>1, <3>2, HandOverStep
    <3> QED BY <3>3 DEF Life!Fly
  <2>7. CASE stage' = [stage EXCEPT ![t] = "closing"] /\ UNCHANGED <<source, offered>>
    BY <1>3, <2>2, <2>7
  <2> QED BY <2>3, <2>4, <2>5, <2>6, <2>7
<1>12. ASSUME Written(t) \/ CopyEvent(t) \/ (\E how : AgentTurns(t, how)) PROVE Goal
  BY <1>2, <1>12 DEF Written, CopyEvent, AgentTurns
<1>13. writing[t] => stage[t] = "relaying"
  BY DEF TurnInv, CopyOK, CopyInv
<1>14. CASE Handler(t)
  BY <1>5, <1>6, <1>8, <1>12, <1>13, <1>14 DEF Handler, AgentLost, DeadlineCuts
<1>15. CASE Upstream(t)
  BY <1>6, <1>8, <1>9, <1>11, <1>12, <1>15 DEF Upstream, ReadFails
<1>16. CASE Caller(t)
  BY <1>4, <1>12, <1>16 DEF Caller
<1> QED BY <1>10, <1>14, <1>15, <1>16

LEMMA LifeStarts == Init => Life!LifeInit
<1> SUFFICES ASSUME Init PROVE Life!LifeInit
  OBVIOUS
<1>1. \A t \in Turns : stage[t] = "idle" /\ source[t] = "none" /\ offered[t] = <<>>
  BY DEF Init
<1>2. {t \in Turns : source[t] = "raw"} = {}
  BY <1>1
<1> QED BY <1>1, <1>2 DEF Life!LifeInit, Hijacked

LEMMA LifeGoesOn ==
    ASSUME TurnInv, TurnStep
    PROVE  UNCHANGED Life!lifeVars \/ Life!LifeNext
<1>1. ASSUME Tick PROVE UNCHANGED Life!lifeVars
  BY <1>1 DEF Tick, Life!lifeVars, Hijacked
<1>2. ASSUME NEW t \in Turns, Handler(t) \/ Upstream(t) \/ Caller(t) \/ Panic(t)
      PROVE  UNCHANGED Life!lifeVars \/ Life!LifeNext
  BY <1>2, StepIsOfALife DEF Life!LifeNext
<1> QED BY <1>1, <1>2 DEF TurnStep

\* The pipeline of a captured or uncaptured turn, however it ends, is a turn as
\* Session assumes it: it begins, hands over at most one exchange while it is in
\* flight, and ends (ServeHTTP and captureResponse against shutdown's view).
THEOREM TurnsImplementTurnLife == Spec => ImplementsTurnLife
<1>1. TurnInv /\ [Next]_vars => [Life!LifeNext]_(Life!lifeVars)
  <2>1. UNCHANGED vars => UNCHANGED Life!lifeVars
    BY DEF vars, Life!lifeVars, Hijacked
  <2> QED BY <2>1, LifeGoesOn DEF Next
<1> QED BY <1>1, LifeStarts, TurnsSound, PTL DEF Spec, ImplementsTurnLife, Life!LifeSpec

-----------------------------------------------------------------------------
(***************************************************************************)
(* What is counted of the turns.                                           *)
(***************************************************************************)
Failed(t)  == panicked[t] # NoPanic \/ BadGateway(t)
Sampled(t) == offered[t] # <<>>

LEMMA CountOf ==
    ASSUME counters \in [Counters -> Nat], NEW names, Count(names), NEW c \in Counters
    PROVE  counters'[c] = IF c \in names THEN counters[c] + 1 ELSE counters[c]
BY DEF Count

\* Of each kind of event, a step of turn t counts what t newly becomes, and no
\* other turn becomes anything.
CountedOnce(was, is, before, after) ==
    \/ (is <=> was) /\ after = before
    \/ ~was /\ is /\ after = before + 1

LEMMA FailuresCounted ==
    ASSUME TurnInv, counters \in [Counters -> Nat],
           NEW t \in Turns, Handler(t) \/ Upstream(t) \/ Caller(t) \/ Panic(t)
    PROVE  /\ CountedOnce(Failed(t), Failed(t)', counters["proxyErrors"], counters'["proxyErrors"])
           /\ \A u \in Turns \ {t} : Failed(u)' <=> Failed(u)
<1> DEFINE Goal == /\ CountedOnce(Failed(t), Failed(t)', counters["proxyErrors"], counters'["proxyErrors"])
                   /\ \A u \in Turns \ {t} : Failed(u)' <=> Failed(u)
<1> USE DEF CountedOnce, Failed, BadGateway, NoPanic, NoStatus
<1>1. TurnsTyped /\ AnswersTyped /\ AnswerInv /\ CopyInv
  BY DEF TurnInv, CopyOK
<1>2. ASSUME UNCHANGED <<panicked, source, status>>, UNCHANGED counters \/ Count({"requests"}) PROVE Goal
  <2>1. counters'["proxyErrors"] = counters["proxyErrors"]
    BY <1>2, CountOf DEF Counters
  <2> QED BY <1>2, <2>1
<1>3. ASSUME NEW r, Arrive(t, r) PROVE Goal
  BY <1>2, <1>3 DEF Arrive
<1>4. ASSUME ReadBody(t) PROVE Goal
  <2>1. stage[t] = "reading" /\ UNCHANGED <<panicked, source, counters>>
    BY <1>4 DEF ReadBody
  <2>2. UNCHANGED status \/ \E n \in {500, 413} : status' = [status EXCEPT ![t] = n]
    BY <1>4 DEF ReadBody, WriteHeader, RefusedWith
  <2> QED BY <1>1, <2>1, <2>2 DEF TurnsTyped, AnswersTyped, AnswerInv
<1>5. ASSUME stage[t] = "upstream", UNCHANGED <<panicked, source>>,
             \/ UNCHANGED status /\ counters'["proxyErrors"] = counters["proxyErrors"]
             \/ /\ status' = [status EXCEPT ![t] = 502]
                /\ counters'["proxyErrors"] = counters["proxyErrors"] + 1
      PROVE  Goal
  BY <1>1, <1>5 DEF TurnsTyped, AnswersTyped, AnswerInv
<1>6. ASSUME RoundTripFails(t) PROVE Goal
  <2>1. /\ stage[t] = "upstream" /\ UNCHANGED <<panicked, source>>
        /\ \/ UNCHANGED <<status, counters>>
           \/ status' = [status EXCEPT ![t] = 502] /\ Count({"proxyErrors"})
    BY <1>6 DEF RoundTripFails, Canceled, Unreachable, WriteHeader
  <2> QED BY <1>5, <2>1, CountOf DEF Counters
<1>7. ASSUME NEW r, Respond(t, r) PROVE Goal
  <2>1. stage[t] = "upstream" /\ UNCHANGED panicked
    BY <1>7 DEF Respond
  <2>2. "proxyErrors" \notin UpstreamError(r) /\ "proxyErrors" \notin Missed(r)
    BY DEF UpstreamError, Missed
  <2>3. CASE stage' = [stage EXCEPT ![t] = "relaying"]
    <3>0. stage'[t] # "closing"
      BY <1>1, <2>3 DEF TurnsTyped
    <3>a. ~(stage' = [stage EXCEPT ![t] = "closing"])
      BY <1>1, <3>0 DEF TurnsTyped
    <3>1. \E s \in {"raw", "upstream", "tee", "memory"} : source' = [source EXCEPT ![t] = s]
      BY <1>7, <3>a DEF Respond, Capture, RelayFrom, Untouched
    <3>2. UNCHANGED status \/ status' = [status EXCEPT ![t] = r.status]
      BY <1>7, <3>a DEF Respond, Capture, RelayHeader, WriteHeader
    <3>3. \/ UNCHANGED counters \/ Count(UpstreamError(r)) \/ Count(Missed(r))
          \/ Count(UpstreamError(r) \cup {"latencies"})
      BY <1>7, <3>a DEF Respond, Capture, Offer
    <3>4. counters'["proxyErrors"] = counters["proxyErrors"]
      BY <2>2, <3>3, CountOf DEF Counters
    <3> QED BY <1>1, <2>1, <3>1, <3>2, <3>4 DEF TurnsTyped, AnswersTyped, AnswerInv
  <2>4. CASE stage' # [stage EXCEPT ![t] = "relaying"]
    <3>1. /\ UNCHANGED source
          /\ \/ UNCHANGED status /\ Count(UpstreamError(r))
             \/ status' = [status EXCEPT ![t] = 502] /\ Count(UpstreamError(r) \cup {"proxyErrors"})
      BY <1>7, <2>4 DEF Respond, Capture, RelayFrom, WriteHeader
    <3> QED BY <1>5, <2>1, <2>2, <3>1, CountOf DEF Counters
  <2> QED BY <2>3, <2>4
<1>8. ASSUME Written(t) \/ CopyEvent(t) \/ LogTurn(t) \/ Enrich(t) \/ (\E how : AgentTurns(t, how)) PROVE Goal
  BY <1>2, <1>8 DEF Written, CopyEvent, AgentTurns, LogTurn, Enrich
<1>9. ASSUME EndOfBody(t) PROVE Goal
  <2>1. UNCHANGED <<panicked, source, status>> /\ (Count({}) \/ Count({} \cup {"latencies"}))
    BY <1>9 DEF EndOfBody, CloseBody, Offer
  <2>2. counters'["proxyErrors"] = counters["proxyErrors"]
    BY <2>1, CountOf DEF Counters
  <2> QED BY <2>1, <2>2
<1>10. ASSUME stage[t] \in {"reading", "enriching", "upstream", "relaying"}, UNCHANGED <<source, status>>,
              \E why \in {"copy", "stage"} : panicked' = [panicked EXCEPT ![t] = why],
              NEW names, Count(names), "proxyErrors" \in names
       PROVE  Goal
  <2>1. counters'["proxyErrors"] = counters["proxyErrors"] + 1
    BY <1>10, CountOf DEF Counters
  <2>2. ~Failed(t)
    BY <1>1, <1>10 DEF AnswerInv
  <2> QED BY <1>1, <1>10, <2>1, <2>2 DEF TurnsTyped
<1>11. ASSUME stage[t] = "relaying", CopyFails(t) PROVE Goal
  <2>1. UNCHANGED <<source, status>>
    BY <1>11 DEF CopyFails
  <2>2. CASE Hijacked(t)
    BY <1>2, <1>11, <2>1, <2>2 DEF CopyFails
  <2>3. CASE ~Hijacked(t)
    <3>1. panicked' = [panicked EXCEPT ![t] = "copy"]
      BY <1>11, <2>3 DEF CopyFails, Recover
    <3>2. Count({"proxyErrors"}) \/ Count({"proxyErrors"} \cup {"latencies"})
      BY <1>11, <2>3 DEF CopyFails, CloseBody, Offer
    <3> QED BY <1>10, <1>11, <2>1, <3>1, <3>2
  <2> QED BY <2>2, <2>3
<1>12. ASSUME Panic(t) PROVE Goal
  BY <1>10, <1>12 DEF Panic, Recover
<1>13. writing[t] => stage[t] = "relaying"
  BY <1>1 DEF CopyInv
<1>14. CASE Handler(t)
  BY <1>4, <1>8, <1>11, <1>13, <1>14 DEF Handler, AgentLost, DeadlineCuts
<1>15. CASE Upstream(t)
  BY <1>6, <1>7, <1>8, <1>9, <1>11, <1>15 DEF Upstream, ReadFails
<1>16. CASE Caller(t)
  BY <1>3, <1>8, <1>16 DEF Caller
<1> QED BY <1>12, <1>14, <1>15, <1>16

LEMMA SamplesCounted ==
    ASSUME TurnInv, counters \in [Counters -> Nat],
           NEW t \in Turns, Handler(t) \/ Upstream(t) \/ Caller(t) \/ Panic(t)
    PROVE  /\ CountedOnce(Sampled(t), Sampled(t)', counters["latencies"], counters'["latencies"])
           /\ \A u \in Turns \ {t} : Sampled(u)' <=> Sampled(u)
<1> DEFINE Goal == /\ CountedOnce(Sampled(t), Sampled(t)', counters["latencies"], counters'["latencies"])
                   /\ \A u \in Turns \ {t} : Sampled(u)' <=> Sampled(u)
<1> USE DEF CountedOnce, Sampled
<1>1. offered \in [Turns -> Seq(0..MaxEvents)] /\ "latencies" \in Counters
  BY DEF TurnInv, Counters
<1>2. ASSUME UNCHANGED offered, UNCHANGED counters \/ \E names : Count(names) /\ "latencies" \notin names PROVE Goal
  <2>1. counters'["latencies"] = counters["latencies"]
    BY <1>1, <1>2, CountOf
  <2> QED BY <1>2, <2>1
<1>3. ASSUME NEW n, NEW names, Offer(t, n, names), offered[t] = <<>> PROVE Goal
  <2>1. counters'["latencies"] = counters["latencies"] + 1
    BY <1>1, <1>3, CountOf DEF Offer
  <2>2. offered' = [offered EXCEPT ![t] = <<n>>] /\ <<n>> # <<>>
    BY <1>3, FirstOffer DEF Offer
  <2> QED BY <1>1, <1>3, <2>1, <2>2
<1>4. ASSUME stage[t] = "relaying", NEW names, "latencies" \notin names, CloseBody(t, names) PROVE Goal
  <2>1. CASE source[t] = "tee"
    BY <1>3, <1>4, <2>1 DEF CloseBody, TurnInv, ExchangeInv
  <2>2. CASE source[t] # "tee"
    BY <1>2, <1>4, <2>2 DEF CloseBody
  <2> QED BY <2>1, <2>2
<1>5. ASSUME stage[t] = "relaying", CopyFails(t) PROVE Goal
  BY <1>2, <1>4, <1>5 DEF CopyFails
<1>6. ASSUME NEW r, Respond(t, r) PROVE Goal
  <2>1. offered[t] = <<>>
    BY <1>6 DEF Respond, TurnInv, AnswerInv, ExchangeInv
  <2>2. "latencies" \notin UpstreamError(r) /\ "latencies" \notin Missed(r)
    BY DEF UpstreamError, Missed
  <2>3. \/ UNCHANGED <<offered, counters>>
        \/ UNCHANGED offered /\ Count(UpstreamError(r))
        \/ UNCHANGED offered /\ Count(Missed(r))
        \/ UNCHANGED offered /\ Count(UpstreamError(r) \cup {"proxyErrors"})
        \/ Offer(t, MaxEvents, UpstreamError(r))
    BY <1>6 DEF Respond, Capture
  <2> QED BY <1>2, <1>3, <2>1, <2>2, <2>3
<1>7. ASSUME EndOfBody(t) PROVE Goal
  BY <1>4, <1>7 DEF EndOfBody
<1>8. ASSUME NEW r, Arrive(t, r) PROVE Goal
  BY <1>2, <1>8 DEF Arrive
<1>9. ASSUME Panic(t) PROVE Goal
  BY <1>2, <1>9 DEF Panic
<1>10. ASSUME RoundTripFails(t) PROVE Goal
  <2>1. UNCHANGED offered /\ (UNCHANGED counters \/ Count({"proxyErrors"}))
    BY <1>10 DEF RoundTripFails, Canceled, Unreachable
  <2> QED BY <1>2, <2>1
<1>11. ASSUME Written(t) \/ CopyEvent(t) \/ LogTurn(t) \/ Enrich(t) \/ ReadBody(t) \/ (\E how : AgentTurns(t, how))
       PROVE  Goal
  <2>1. UNCHANGED <<offered, counters>>
    BY <1>11 DEF Written, CopyEvent, AgentTurns, LogTurn, Enrich, ReadBody
  <2> QED BY <1>2, <2>1
<1>12. writing[t] => stage[t] = "relaying"
  BY DEF TurnInv, CopyOK, CopyInv
<1>13. CASE Handler(t)
  BY <1>5, <1>11, <1>12, <1>13 DEF Handler, AgentLost, DeadlineCuts
<1>14. CASE Upstream(t)
  BY <1>5, <1>6, <1>7, <1>10, <1>11, <1>14 DEF Upstream, ReadFails
<1>15. CASE Caller(t)
  BY <1>8, <1>11, <1>15 DEF Caller
<1> QED BY <1>9, <1>13, <1>14, <1>15

\* What was counted is the number of turns it was counted of.
LEMMA CountedExactly ==
    ASSUME NEW A \in SUBSET Turns, NEW B \in SUBSET Turns, NEW t \in Turns, NEW before, NEW after,
           before = Cardinality(A), \A u \in Turns \ {t} : u \in A <=> u \in B,
           CountedOnce(t \in A, t \in B, before, after)
    PROVE  after = Cardinality(B)
<1>1. IsFiniteSet(A)
  BY ConstantTypes, FS_Subset
<1>2. CASE t \in A <=> t \in B
  <2>1. A = B
    BY <1>2
  <2> QED BY <1>2, <2>1 DEF CountedOnce
<1>3. CASE t \notin A /\ t \in B
  <2>1. B = A \cup {t}
    BY <1>3
  <2>2. Cardinality(A \cup {t}) = Cardinality(A) + 1
    BY <1>1, <1>3, FS_AddElement
  <2> QED BY <1>3, <2>1, <2>2 DEF CountedOnce
<1> QED BY <1>2, <1>3 DEF CountedOnce

LineOf(t) == <<[status |-> StatusLogged(t), level |-> Level(t)]>>

OutcomeInv ==
    /\ counters \in [Counters -> Nat]
    /\ counters["proxyErrors"] = Cardinality({t \in Turns : Failed(t)})
    /\ counters["latencies"] = Cardinality({t \in Turns : Sampled(t)})
    /\ lines \in [Turns -> Seq([status : Nat, level : {"error", "info"}])]
    /\ \A t \in Turns : lines[t] = IF stage[t] = "ended" THEN LineOf(t) ELSE <<>>
    /\ \A t \in Turns :
          stage[t] \in {"relaying", "closing"} /\ source[t] \in {"raw", "upstream"} /\ ShouldCapture(req[t].words)
              => counters["uncapturable"] > 0

\* The line of a turn is its last act, and nothing after it changes its outcome.
LEMMA StepKeepsLines ==
    ASSUME TurnInv, OutcomeInv, NEW t \in Turns, Handler(t) \/ Upstream(t) \/ Caller(t) \/ Panic(t)
    PROVE  /\ lines' \in [Turns -> Seq([status : Nat, level : {"error", "info"}])]
           /\ \A u \in Turns : lines'[u] = IF stage'[u] = "ended" THEN LineOf(u)' ELSE <<>>
<1> DEFINE Goal == /\ lines' \in [Turns -> Seq([status : Nat, level : {"error", "info"}])]
                   /\ \A u \in Turns : lines'[u] = IF stage'[u] = "ended" THEN LineOf(u)' ELSE <<>>
<1> USE DEF InFlight
<1>1. /\ TurnsTyped /\ AnswersTyped
      /\ lines \in [Turns -> Seq([status : Nat, level : {"error", "info"}])]
      /\ \A u \in Turns : lines[u] = IF stage[u] = "ended" THEN LineOf(u) ELSE <<>>
  BY DEF TurnInv, CopyOK, OutcomeInv
<1>2. CASE LogTurn(t)
  <2>1. /\ stage[t] = "closing" /\ stage' = [stage EXCEPT ![t] = "ended"] /\ UNCHANGED <<status, panicked>>
        /\ lines' = [lines EXCEPT ![t] = Append(lines[t], [status |-> StatusLogged(t), level |-> Level(t)])]
    BY <1>2 DEF LogTurn
  <2>2. lines[t] = <<>>
    BY <1>1, <2>1
  <2>3. LineOf(t) = Append(<<>>, [status |-> StatusLogged(t), level |-> Level(t)])
    BY DEF LineOf
  <2>4. lines' = [lines EXCEPT ![t] = LineOf(t)]
    BY <2>1, <2>2, <2>3
  <2>5. StatusLogged(t) \in Nat /\ Level(t) \in {"error", "info"}
    BY <1>1 DEF StatusLogged, Level, AnswersTyped
  <2>6. LineOf(t) \in Seq([status : Nat, level : {"error", "info"}])
    BY <2>5 DEF LineOf
  <2>7. \A u \in Turns : LineOf(u)' = LineOf(u)
    BY <2>1 DEF LineOf, StatusLogged, Level
  <2>8. lines' \in [Turns -> Seq([status : Nat, level : {"error", "info"}])]
    BY <1>1, <2>4, <2>6
  <2> QED BY <1>1, <2>1, <2>4, <2>7, <2>8 DEF TurnsTyped
<1>3. CASE ~LogTurn(t)
  <2>1. /\ UNCHANGED lines
        /\ \/ UNCHANGED <<stage, status, panicked>>
           \/ /\ stage[t] # "ended"
              /\ \E s \in InFlight : stage' = [stage EXCEPT ![t] = s]
              /\ UNCHANGED status \/ \E n : status' = [status EXCEPT ![t] = n]
              /\ UNCHANGED panicked \/ \E y : panicked' = [panicked EXCEPT ![t] = y]
    <3>0. writing[t] => stage[t] = "relaying"
      BY DEF TurnInv, CopyOK, CopyInv
    <3>1. CASE Handler(t)
      BY <1>3, <3>0, <3>1 DEF Handler, ReadBody, Enrich, Written, AgentLost, DeadlineCuts, CopyFails, Recover, WriteHeader
    <3>2. ASSUME NEW r, Respond(t, r)
          PROVE  /\ stage[t] # "ended" /\ UNCHANGED <<lines, panicked>>
                 /\ \E s \in InFlight : stage' = [stage EXCEPT ![t] = s]
                 /\ UNCHANGED status \/ \E n : status' = [status EXCEPT ![t] = n]
      BY <3>2 DEF Respond, Capture, RelayFrom, RelayHeader, WriteHeader
    <3>3. CASE RoundTripFails(t) \/ CopyEvent(t) \/ EndOfBody(t) \/ ReadFails(t)
      BY <3>3 DEF RoundTripFails, Canceled, Unreachable, WriteHeader, CopyEvent, EndOfBody, ReadFails, CopyFails, Recover
    <3>4. CASE Caller(t)
      BY <3>4 DEF Caller, Arrive, AgentTurns
    <3>5. CASE Panic(t)
      BY <3>5 DEF Panic, Recover
    <3>6. CASE Upstream(t)
      BY <3>2, <3>3, <3>6 DEF Upstream
    <3> QED BY <3>1, <3>4, <3>5, <3>6
  <2>2. \A u \in Turns : /\ stage'[u] = "ended" <=> stage[u] = "ended"
                         /\ stage[u] = "ended" => status'[u] = status[u] /\ panicked'[u] = panicked[u]
    BY <1>1, <2>1 DEF TurnsTyped, AnswersTyped
  <2>3. \A u \in Turns : stage[u] = "ended" => LineOf(u)' = LineOf(u)
    BY <2>2 DEF LineOf, StatusLogged, Level
  <2> QED BY <1>1, <2>1, <2>2, <2>3
<1> QED BY <1>2, <1>3

MissedTurn(t) ==
    stage[t] \in {"relaying", "closing"} /\ source[t] \in {"raw", "upstream"} /\ ShouldCapture(req[t].words)

\* A counter only grows.
LEMMA CountersGrow ==
    ASSUME counters \in [Counters -> Nat], NEW c \in Counters, TurnStep
    PROVE  counters' \in [Counters -> Nat] /\ counters'[c] >= counters[c]
<1>1. UNCHANGED counters \/ \E names : Count(names)
  <2>1. CASE Tick
    BY <2>1 DEF Tick
  <2>2. ASSUME NEW t \in Turns, Handler(t) \/ Caller(t) \/ Panic(t)
        PROVE  UNCHANGED counters \/ \E names : Count(names)
    BY <2>2 DEF Handler, Caller, Panic, ReadBody, Enrich, Written, AgentLost, DeadlineCuts, LogTurn,
          Arrive, AgentTurns, CopyFails, CloseBody, Offer
  <2>3. ASSUME NEW t \in Turns, Upstream(t)
        PROVE  UNCHANGED counters \/ \E names : Count(names)
    BY <2>3 DEF Upstream, RoundTripFails, Canceled, Unreachable, CopyEvent, EndOfBody, ReadFails, Respond,
          Capture, CopyFails, CloseBody, Offer
  <2> QED BY <2>1, <2>2, <2>3 DEF TurnStep
<1>2. CASE UNCHANGED counters
  BY <1>2
<1>3. ASSUME NEW names, Count(names) PROVE counters' \in [Counters -> Nat] /\ counters'[c] >= counters[c]
  <2>1. counters'[c] = IF c \in names THEN counters[c] + 1 ELSE counters[c]
    BY <1>3, CountOf
  <2>2. counters[c] \in Nat
    OBVIOUS
  <2>3. counters' \in [Counters -> Nat]
    BY <1>3, CountKeepsType
  <2> QED BY <2>1, <2>2, <2>3
<1> QED BY <1>1, <1>2, <1>3

\* An answer that could not be recorded is relayed only after it was counted.
LEMMA MissesAreCounted ==
    ASSUME TurnInv, counters \in [Counters -> Nat],
           NEW t \in Turns, Handler(t) \/ Upstream(t) \/ Caller(t) \/ Panic(t)
    PROVE  \A u \in Turns : MissedTurn(u)' => MissedTurn(u) \/ counters'["uncapturable"] > 0
<1> DEFINE Goal == \A u \in Turns : MissedTurn(u)' => MissedTurn(u) \/ counters'["uncapturable"] > 0
<1>1. TurnsTyped
  BY DEF TurnInv, CopyOK
<1>2. ASSUME UNCHANGED <<source, req>>,
             \/ UNCHANGED stage
             \/ stage[t] = "relaying" /\ stage' = [stage EXCEPT ![t] = "closing"]
             \/ source[t] = "none" /\ \E s : stage' = [stage EXCEPT ![t] = s]
      PROVE  Goal
  BY <1>1, <1>2 DEF MissedTurn, TurnsTyped
<1>3. stage[t] \in {"idle", "reading", "enriching", "upstream"} => source[t] = "none"
  BY DEF TurnInv, AnswerInv
<1>4. ASSUME NEW r, Respond(t, r) PROVE Goal
  <2>1. UNCHANGED req /\ stage[t] = "upstream"
    BY <1>4 DEF Respond
  <2>2. CASE UNCHANGED source
    BY <1>2, <1>3, <1>4, <2>1, <2>2 DEF Respond, Capture, RelayFrom
  <2>3. CASE ~UNCHANGED source
    <3>1. /\ \E s \in {"raw", "upstream", "tee", "memory"} : source' = [source EXCEPT ![t] = s]
          /\ stage' = [stage EXCEPT ![t] = "relaying"]
      BY <1>4, <2>3 DEF Respond, Capture, RelayFrom, Untouched
    <3>2. ASSUME source'[t] \in {"raw", "upstream"}, ShouldCapture(req[t].words)
          PROVE  counters'["uncapturable"] > 0
      <4>1. source' # [source EXCEPT ![t] = "tee"] /\ source' # [source EXCEPT ![t] = "memory"]
        BY <1>1, <3>2 DEF TurnsTyped
      <4>2. Count(Missed(r))
        BY <1>4, <2>3, <3>2, <4>1 DEF Respond, Capture, RelayFrom
      <4>3. "uncapturable" \in Missed(r) /\ "uncapturable" \in Counters
        BY DEF Missed, Counters
      <4>4. counters'["uncapturable"] = counters["uncapturable"] + 1 /\ counters["uncapturable"] \in Nat
        BY <4>2, <4>3, CountOf
      <4> QED BY <4>4
    <3>3. \A u \in Turns \ {t} : MissedTurn(u)' => MissedTurn(u)
      BY <1>1, <2>1, <3>1 DEF MissedTurn, TurnsTyped
    <3>4. MissedTurn(t)' => counters'["uncapturable"] > 0
      BY <2>1, <3>2 DEF MissedTurn
    <3> QED BY <3>3, <3>4
  <2> QED BY <2>2, <2>3
<1>5. ASSUME NEW s, s \notin {"relaying", "closing"}, stage' = [stage EXCEPT ![t] = s], UNCHANGED source,
             \E x : req' = [req EXCEPT ![t] = x]
      PROVE  Goal
  <2>1. \A u \in Turns \ {t} : stage'[u] = stage[u] /\ req'[u] = req[u]
    BY <1>1, <1>5 DEF TurnsTyped
  <2>2. stage'[t] = s
    BY <1>1, <1>5 DEF TurnsTyped
  <2> QED BY <1>5, <2>1, <2>2 DEF MissedTurn
<1>6. ASSUME LogTurn(t) \/ (\E r : Arrive(t, r)) PROVE Goal
  BY <1>5, <1>6 DEF LogTurn, Release, Arrive
<1>7. writing[t] => stage[t] = "relaying"
  BY DEF TurnInv, CopyOK, CopyInv
<1>8. CASE Handler(t)
  <2>1. CASE LogTurn(t)
    BY <1>6, <2>1
  <2>2. CASE ~LogTurn(t)
    BY <1>2, <1>3, <1>7, <1>8, <2>2
    DEF Handler, ReadBody, Enrich, Written, AgentLost, DeadlineCuts, CopyFails, Recover
  <2> QED BY <2>1, <2>2
<1>9. CASE RoundTripFails(t) \/ CopyEvent(t) \/ EndOfBody(t) \/ ReadFails(t)
  BY <1>2, <1>3, <1>9 DEF RoundTripFails, CopyEvent, EndOfBody, ReadFails, CopyFails, Recover
<1>10. CASE Panic(t)
  BY <1>2, <1>3, <1>10 DEF Panic, Recover
<1>11. CASE Caller(t)
  BY <1>2, <1>6, <1>11 DEF Caller, AgentTurns
<1> QED BY <1>4, <1>8, <1>9, <1>10, <1>11 DEF Upstream

LEMMA StepKeepsOutcomes ==
    ASSUME TurnInv, OutcomeInv, TurnStep
    PROVE  OutcomeInv'
<1>1. counters \in [Counters -> Nat] /\ "proxyErrors" \in Counters
  BY DEF OutcomeInv, Counters
<1>2. counters' \in [Counters -> Nat]
  BY <1>1, CountersGrow
<1>3. CASE Tick
  <2>1. UNCHANGED <<counters, panicked, source, status, offered, lines, stage, req>>
    BY <1>3 DEF Tick
  <2> QED BY <2>1 DEF OutcomeInv, Failed, Sampled, BadGateway, LineOf, StatusLogged, Level
<1>4. ASSUME NEW t \in Turns, Handler(t) \/ Upstream(t) \/ Caller(t) \/ Panic(t) PROVE OutcomeInv'
  <2>1. counters'["proxyErrors"] = Cardinality({u \in Turns : Failed(u)'})
    <3> DEFINE A == {u \in Turns : Failed(u)}
               B == {u \in Turns : Failed(u)'}
    <3>1. /\ CountedOnce(Failed(t), Failed(t)', counters["proxyErrors"], counters'["proxyErrors"])
          /\ \A u \in Turns \ {t} : Failed(u)' <=> Failed(u)
      BY <1>1, <1>4, FailuresCounted
    <3>2. /\ counters["proxyErrors"] = Cardinality(A) /\ A \subseteq Turns /\ B \subseteq Turns
          /\ \A u \in Turns \ {t} : u \in A <=> u \in B
          /\ CountedOnce(t \in A, t \in B, counters["proxyErrors"], counters'["proxyErrors"])
      BY <3>1 DEF OutcomeInv, CountedOnce
    <3> HIDE DEF A, B
    <3>3. counters'["proxyErrors"] = Cardinality(B)
      BY <3>2, CountedExactly
    <3> QED BY <3>3 DEF B
  <2>2. counters'["latencies"] = Cardinality({u \in Turns : Sampled(u)'})
    <3> DEFINE A == {u \in Turns : Sampled(u)}
               B == {u \in Turns : Sampled(u)'}
    <3>1. /\ CountedOnce(Sampled(t), Sampled(t)', counters["latencies"], counters'["latencies"])
          /\ \A u \in Turns \ {t} : Sampled(u)' <=> Sampled(u)
      BY <1>1, <1>4, SamplesCounted
    <3>2. /\ counters["latencies"] = Cardinality(A) /\ A \subseteq Turns /\ B \subseteq Turns
          /\ \A u \in Turns \ {t} : u \in A <=> u \in B
          /\ CountedOnce(t \in A, t \in B, counters["latencies"], counters'["latencies"])
      BY <3>1 DEF OutcomeInv, CountedOnce
    <3> HIDE DEF A, B
    <3>3. counters'["latencies"] = Cardinality(B)
      BY <3>2, CountedExactly
    <3> QED BY <3>3 DEF B
  <2>3. /\ lines' \in [Turns -> Seq([status : Nat, level : {"error", "info"}])]
        /\ \A u \in Turns : lines'[u] = IF stage'[u] = "ended" THEN LineOf(u)' ELSE <<>>
    BY <1>4, StepKeepsLines
  <2>4. \A u \in Turns : MissedTurn(u)' => counters'["uncapturable"] > 0
    <3>1. \A u \in Turns : MissedTurn(u)' => MissedTurn(u) \/ counters'["uncapturable"] > 0
      BY <1>1, <1>4, MissesAreCounted
    <3>2. \A u \in Turns : MissedTurn(u) => counters["uncapturable"] > 0
      BY DEF OutcomeInv, MissedTurn
    <3>3. "uncapturable" \in Counters
      BY DEF Counters
    <3>4. counters'["uncapturable"] >= counters["uncapturable"]
      BY <1>1, <3>3, CountersGrow
    <3>5. counters["uncapturable"] \in Nat /\ counters'["uncapturable"] \in Nat
      BY <1>1, <1>2, <3>3
    <3> QED BY <3>1, <3>2, <3>4, <3>5
  <2> QED BY <1>2, <2>1, <2>2, <2>3, <2>4 DEF OutcomeInv, MissedTurn
<1>5. Tick \/ \E t \in Turns : Handler(t) \/ Upstream(t) \/ Caller(t) \/ Panic(t)
  BY DEF TurnStep
<1> QED BY <1>3, <1>4, <1>5

LEMMA OutcomesStartSound == Init => OutcomeInv
<1> SUFFICES ASSUME Init PROVE OutcomeInv
  OBVIOUS
<1>1. counters \in [Counters -> Nat] /\ counters["proxyErrors"] = 0 /\ counters["latencies"] = 0
  BY DEF Init, Counters
<1>2. \A t \in Turns : ~Failed(t) /\ ~Sampled(t)
  BY DEF Init, Failed, Sampled, BadGateway, NoStatus
<1>3. {t \in Turns : Failed(t)} = {} /\ {t \in Turns : Sampled(t)} = {}
  BY <1>2
<1>4. Cardinality({t \in Turns : Failed(t)}) = 0 /\ Cardinality({t \in Turns : Sampled(t)}) = 0
  BY <1>3, FS_EmptySet
<1>5. /\ lines \in [Turns -> Seq([status : Nat, level : {"error", "info"}])]
      /\ \A t \in Turns : lines[t] = <<>> /\ stage[t] = "idle"
  BY DEF Init
<1> QED BY <1>1, <1>4, <1>5 DEF OutcomeInv

LEMMA OutcomesSound == Spec => []OutcomeInv
<1>1. Init => OutcomeInv
  BY OutcomesStartSound
<1>2. TurnInv /\ OutcomeInv /\ [Next]_vars => OutcomeInv'
  <2>1. ASSUME OutcomeInv, UNCHANGED vars PROVE OutcomeInv'
    BY <2>1 DEF OutcomeInv, vars, Failed, Sampled, BadGateway, LineOf, StatusLogged, Level
  <2> QED BY <2>1, StepKeepsOutcomes DEF Next
<1> QED BY <1>1, <1>2, TurnsSound, PTL DEF Spec

\* Lines, answers and counters agree.
LEMMA InvAddsUp ==
    TurnInv /\ OutcomeInv => OutcomesAddUp
<1> SUFFICES ASSUME TurnInv, OutcomeInv PROVE OutcomesAddUp
  OBVIOUS
<1>1. ASSUME NEW t \in Turns
      PROVE  /\ Len(lines[t]) = (IF stage[t] = "ended" THEN 1 ELSE 0)
             /\ stage[t] = "closing" => answer[t] # NoStatus \/ agent[t] = "gone"
             /\ stage[t] = "ended" => (lines[t][1].level = "error") = (panicked[t] # NoPanic \/ status[t] >= 500)
  <2>1. lines[t] = IF stage[t] = "ended" THEN LineOf(t) ELSE <<>>
    BY DEF OutcomeInv
  <2>2. Len(lines[t]) = (IF stage[t] = "ended" THEN 1 ELSE 0)
    BY <2>1 DEF LineOf
  <2>3. stage[t] = "closing" => answer[t] # NoStatus \/ agent[t] = "gone"
    BY DEF TurnInv, AnswerInv
  <2>4. stage[t] = "ended" => lines[t][1].level = Level(t)
    BY <2>1 DEF LineOf
  <2>5. (Level(t) = "error") <=> (panicked[t] # NoPanic \/ StatusLogged(t) >= 500)
    BY DEF Level
  <2>6. (StatusLogged(t) >= 500) <=> (status[t] >= 500)
    BY DEF StatusLogged, NoStatus, TurnInv, AnswersTyped
  <2> QED BY <2>2, <2>3, <2>4, <2>5, <2>6
<1>2. /\ counters["proxyErrors"] = Cardinality({t \in Turns : panicked[t] # NoPanic \/ BadGateway(t)})
      /\ counters["latencies"] = Cardinality({t \in Turns : offered[t] # <<>>})
  BY DEF OutcomeInv, Failed, Sampled
<1> QED BY <1>1, <1>2 DEF OutcomesAddUp

\* Every turn that is not its agent's own departure is answered, has one line in
\* the end whose level says whether it failed, and the counters of the session
\* are the numbers of those turns (ServeHTTP's deferred recovery and turn line,
\* stats.Stats).
THEOREM SessionAddsUp == Spec => []OutcomesAddUp
BY InvAddsUp, TurnsSound, OutcomesSound, PTL

\* A failed turn, and an answer that was not recorded, show in the counters.
LEMMA InvIsHealthy ==
    TurnInv /\ OutcomeInv => HealthyMeansSaved
<1> SUFFICES ASSUME TurnInv, OutcomeInv, Degraded = {}, NEW t \in Turns
             PROVE  /\ panicked[t] = NoPanic /\ ~BadGateway(t)
                    /\ stage[t] = "closing" /\ source[t] # "none" /\ ShouldCapture(req[t].words) => offered[t] # <<>>
  BY DEF HealthyMeansSaved
<1>1. "proxyErrors" \notin Degraded /\ "uncapturable" \notin Degraded
  OBVIOUS
<1>2. ~(counters["proxyErrors"] > 0) /\ ~(counters["uncapturable"] > 0)
  BY <1>1 DEF Degraded
<1>3. ~Failed(t)
  <2>1. counters["proxyErrors"] = 0
    BY <1>2 DEF OutcomeInv, Counters
  <2>2. IsFiniteSet({u \in Turns : Failed(u)}) /\ Cardinality({u \in Turns : Failed(u)}) = 0
    BY <2>1, ConstantTypes, FS_Subset DEF OutcomeInv
  <2>3. {u \in Turns : Failed(u)} = {}
    BY <2>2, FS_EmptySet
  <2> QED BY <2>3
<1>4. stage[t] = "closing" /\ ShouldCapture(req[t].words) => source[t] \notin {"raw", "upstream"}
  BY <1>2 DEF OutcomeInv
<1>5. source[t] \in {"tee", "memory"} /\ stage[t] = "closing" => offered[t] # <<>> \/ panicked[t] = "stage"
  <2>1. <<MaxEvents>> # <<>>
    OBVIOUS
  <2> QED BY <2>1 DEF TurnInv, ExchangeInv
<1>6. source[t] \in {"none", "raw", "upstream", "tee", "memory"}
  BY DEF TurnInv, CopyOK, TurnsTyped
<1>7. panicked[t] = NoPanic /\ ~BadGateway(t)
  BY <1>3 DEF Failed
<1>8. panicked[t] # "stage"
  BY <1>7 DEF NoPanic
<1> QED BY <1>4, <1>5, <1>6, <1>7, <1>8

\* While the status answer gives no reason to worry, no turn has failed and every
\* captured answer was recorded (degradedReasons).
THEOREM HealthIsTrue == Spec => []HealthyMeansSaved
BY InvIsHealthy, TurnsSound, OutcomesSound, PTL

-----------------------------------------------------------------------------
Asked == req \in [Turns -> (UNION {Requests[t] : t \in Turns}) \cup {NoRequest}]

\* The state of the turns stays within its types.
THEOREM TypeCorrect == Spec => []TypeOK
<1>1. Init => Asked
  BY DEF Init, Asked
<1>2. Asked /\ [Next]_vars => Asked'
  <2>1. ASSUME Asked, UNCHANGED req PROVE Asked'
    BY <2>1 DEF Asked
  <2>2. ASSUME Asked, NEW t \in Turns, NEW r \in Requests[t], Arrive(t, r) PROVE Asked'
    <3>1. r \in UNION {Requests[u] : u \in Turns}
      OBVIOUS
    <3> QED BY <2>2, <3>1 DEF Asked, Arrive
  <2>3. ASSUME Asked, NEW t \in Turns, LogTurn(t) PROVE Asked'
    BY <2>3 DEF Asked, LogTurn, Release
  <2>4. ASSUME NEW t \in Turns, Upstream(t) \/ Panic(t) PROVE UNCHANGED req
    BY <2>4 DEF Upstream, Panic, RoundTripFails, CopyEvent, EndOfBody, ReadFails, CopyFails, Respond
  <2>5. ASSUME NEW t \in Turns, Handler(t), ~LogTurn(t) PROVE UNCHANGED req
    BY <2>5 DEF Handler, ReadBody, Enrich, Written, AgentLost, DeadlineCuts, CopyFails
  <2>6. ASSUME NEW t \in Turns, NEW how, AgentTurns(t, how) PROVE UNCHANGED req
    BY <2>6 DEF AgentTurns
  <2>7. Tick => UNCHANGED req
    BY DEF Tick
  <2>8. UNCHANGED vars => UNCHANGED req
    BY DEF vars
  <2> QED BY <2>1, <2>2, <2>3, <2>4, <2>5, <2>6, <2>7, <2>8 DEF Next, TurnStep, Caller
<1>3. TurnInv /\ OutcomeInv /\ Asked => TypeOK
  BY DEF TurnInv, CopyOK, AnswersTyped, OutcomeInv, Asked, TypeOK, OutcomesTyped
<1> QED BY <1>1, <1>2, <1>3, TurnsSound, OutcomesSound, PTL DEF Spec

-----------------------------------------------------------------------------
(***************************************************************************)
(* Tunnels                                                                 *)
(***************************************************************************)

Stages == {"none", "hijack", "dial", "confirm", "copying", "hello", "minting", "shaking", "serving",
           "splicing", "awaiting", "spliced", "served", "closing", "ended"}

LeafInv ==
    /\ tunnel \in [Conns -> Stages]
    /\ DOMAIN target = Conns
    /\ leaf \in [Conns -> [name : Nat, fresh : BOOLEAN]]
    /\ \A c \in Conns : tunnel[c] \in {"minting", "shaking", "serving"} =>
          leaf[c] = [name |-> Canon[target[c]], fresh |-> TRUE]

CacheInv ==
    /\ cache \in [DOMAIN cache -> BOOLEAN]
    /\ DOMAIN cache \subseteq Nat
    /\ IsFiniteSet(DOMAIN cache)
    /\ Cardinality(DOMAIN cache) <= MaxCache

LEMMA TunnelConstants ==
    /\ Canon \in [Hosts -> Nat]
    /\ MaxCache \in Nat /\ MaxCache > 0
BY TunnelAssumption

\* The victim of the cache is one of its names.
LEMMA MinIsMember ==
    ASSUME NEW S \in SUBSET Nat, S # {}
    PROVE  Min(S) \in S
<1>1. \E n \in S : \A m \in S : ~(<<m, n>> \in OpToRel(<, Nat))
  BY WFMin, NatLessThanWellFounded, Zenon
<1>2. \A m, n \in Nat : ~(<<m, n>> \in OpToRel(<, Nat)) => n <= m
  BY DEF OpToRel
<1>3. PICK n \in S : \A m \in S : n <= m
  BY <1>1, <1>2, Zenon
<1> QED BY <1>3 DEF Min

\* Inserting a leaf keeps the cache within its bound.
LEMMA InsertKeepsCache ==
    ASSUME CacheInv, LeafInv, NEW c \in Conns, Insert(c)
    PROVE  CacheInv'
<1> DEFINE n == leaf[c].name
           kept == IF Full(n) THEN DOMAIN cache \ {Min(DOMAIN cache)} ELSE DOMAIN cache
<1>1. n \in Nat
  BY DEF LeafInv
<1>2. cache' = [m \in kept \cup {n} |-> IF m = n THEN TRUE ELSE cache[m]]
  BY DEF Insert
<1>3. DOMAIN cache' = kept \cup {n} /\ kept \subseteq DOMAIN cache
  BY <1>2
<1>4. cache' \in [DOMAIN cache' -> BOOLEAN] /\ DOMAIN cache' \subseteq Nat
  <2>1. cache \in [DOMAIN cache -> BOOLEAN] /\ DOMAIN cache \subseteq Nat
    BY DEF CacheInv
  <2>2. \A m \in kept : cache[m] \in BOOLEAN
    BY <1>3, <2>1
  <2> HIDE DEF kept, n
  <2> QED BY <1>1, <1>2, <1>3, <2>1, <2>2
<1>5. IsFiniteSet(kept) /\ Cardinality(kept) \in Nat /\ IsFiniteSet(DOMAIN cache')
      /\ Cardinality(DOMAIN cache') = IF n \in kept THEN Cardinality(kept) ELSE Cardinality(kept) + 1
  <2>1. IsFiniteSet(kept)
    BY <1>3, FS_Subset DEF CacheInv
  <2> HIDE DEF kept, n
  <2> QED BY <1>3, <2>1, FS_CardinalityType, FS_AddElement
<1>6. Cardinality(DOMAIN cache) \in Nat /\ Cardinality(DOMAIN cache) <= MaxCache
  BY FS_CardinalityType DEF CacheInv
<1>7. CASE Full(n)
  <2>1. DOMAIN cache # {}
    BY <1>7, TunnelConstants, FS_EmptySet DEF Full
  <2>2. Min(DOMAIN cache) \in DOMAIN cache
    BY <2>1, MinIsMember DEF CacheInv
  <2>3. Cardinality(kept) = Cardinality(DOMAIN cache) - 1
    BY <1>7, <2>2, FS_RemoveElement DEF CacheInv
  <2> HIDE DEF kept, n
  <2> QED BY <1>4, <1>5, <1>6, <2>3, TunnelConstants DEF CacheInv
<1>8. CASE ~Full(n)
  <2>1. kept = DOMAIN cache
    BY <1>8
  <2>2. n \in DOMAIN cache \/ Cardinality(DOMAIN cache) < MaxCache
    BY <1>6, <1>8, TunnelConstants DEF Full
  <2> HIDE DEF kept, n
  <2> QED BY <1>4, <1>5, <1>6, <2>1, <2>2, TunnelConstants DEF CacheInv
<1> QED BY <1>7, <1>8

\* Only the handshake gives a tunnel its leaf, and only for its own host.
LEMMA HandleKeepsLeaf ==
    ASSUME LeafInv, CacheInv, NEW c \in Conns, Handle(c)
    PROVE  LeafInv' /\ CacheInv'
<1> USE DEF LeafInv, Stages, Goto
<1>1. ASSUME UNCHANGED <<target, leaf, cache>>, NEW s \in Stages \ {"minting", "shaking", "serving"},
             tunnel' = [tunnel EXCEPT ![c] = s]
      PROVE  LeafInv' /\ CacheInv'
  BY <1>1 DEF CacheInv
<1>2. CASE Hijack(c)
  BY <1>1, <1>2 DEF Hijack, Refuse
<1>3. CASE Dial(c)
  BY <1>1, <1>3 DEF Dial, Refuse
<1>4. CASE Confirm(c)
  BY <1>1, <1>4 DEF Confirm, Refuse
<1>5. CASE Insert(c)
  <2>1. LeafInv'
    BY <1>5 DEF Insert
  <2> QED BY <1>5, <2>1, InsertKeepsCache
<1>6. ASSUME NEW name \in Hosts, Hello(c, name) PROVE LeafInv' /\ CacheInv'
  <2>1. CASE ~SameHost(name, target[c])
    BY <1>1, <1>6, <2>1 DEF Hello, Refuse
  <2>2. CASE SameHost(name, target[c])
    <3>1. Canon[target[c]] \in Nat
      BY <2>2, TunnelConstants DEF SameHost
    <3>2. \E s \in {"shaking", "minting"} : tunnel' = [tunnel EXCEPT ![c] = s]
      BY <1>6, <2>2 DEF Hello
    <3>3. leaf' = [leaf EXCEPT ![c] = [name |-> Canon[target[c]], fresh |-> TRUE]]
      <4>1. CASE Cached(Canon[target[c]])
        <5>1. leaf' = [leaf EXCEPT ![c] = [name |-> Canon[target[c]], fresh |-> cache[Canon[target[c]]]]]
          BY <1>6, <2>2, <4>1 DEF Hello
        <5>2. cache[Canon[target[c]]] = TRUE
          BY <4>1 DEF Cached, CacheInv
        <5> QED BY <5>1, <5>2
      <4>2. CASE ~Cached(Canon[target[c]])
        BY <1>6, <2>2, <4>2 DEF Hello, Minted
      <4> QED BY <4>1, <4>2
    <3>4. UNCHANGED <<target, cache>>
      BY <1>6 DEF Hello
    <3> QED BY <3>1, <3>2, <3>3, <3>4 DEF CacheInv
  <2> QED BY <2>1, <2>2
<1>7. CASE Shake(c)
  BY <1>7 DEF Shake, CacheInv
<1>8. CASE HandshakeFails(c)
  BY <1>1, <1>8 DEF HandshakeFails, Refuse
<1>9. CASE \E d \in Directions : IdleEnds(c, d)
  BY <1>9 DEF IdleEnds, EndOfCopy, CacheInv
<1>10. CASE IdleTick(c)
  BY <1>10 DEF IdleTick, CacheInv
<1>11. CASE SpliceFails(c) \/ ForwardUpgrade(c) \/ Unanswered(c) \/ CloseServed(c) \/ ServeReturns(c)
  BY <1>1, <1>11 DEF SpliceFails, ForwardUpgrade, Unanswered, UpgradeOver, CloseServed, ServeReturns, Closed
<1>12. CASE LogTunnel(c)
  <2>1. /\ tunnel' = [tunnel EXCEPT ![c] = "ended"] /\ UNCHANGED cache
        /\ target' = [target EXCEPT ![c] = NoTarget] /\ leaf' = [leaf EXCEPT ![c] = [name |-> 0, fresh |-> TRUE]]
    BY <1>12 DEF LogTunnel, Forget, NoLeaf
  <2> QED BY <2>1 DEF CacheInv
<1> QED
  BY <1>2, <1>3, <1>4, <1>5, <1>6, <1>7, <1>8, <1>9, <1>10, <1>11, <1>12 DEF Handle

LEMMA StepKeepsLeaf ==
    ASSUME LeafInv, CacheInv, TunnelNext
    PROVE  LeafInv' /\ CacheInv'
<1>1. ASSUME NEW c \in Conns, TunnelClient(c) PROVE LeafInv' /\ CacheInv'
  <2> USE DEF LeafInv, CacheInv, Stages, Goto
  <2>1. ASSUME NEW h \in Hosts, Connect(c, h) PROVE LeafInv' /\ CacheInv'
    BY <2>1 DEF Connect
  <2>2. CASE Upgrade(c) \/ Splice(c) \/ SpliceEnds(c)
    <3>1. /\ UNCHANGED <<target, leaf, cache>>
          /\ \E s \in {"splicing", "spliced", "served"} : tunnel' = [tunnel EXCEPT ![c] = s]
      BY <2>2 DEF Upgrade, Splice, SpliceEnds, UpgradeOver, Closed
    <3> QED BY <3>1
  <2>3. CASE ClientLeaves(c)
    BY <2>3 DEF ClientLeaves
  <2>4. ASSUME NEW d, Chunk(c, d) \/ CopyEnds(c, d) PROVE LeafInv' /\ CacheInv'
    BY <2>4 DEF Chunk, CopyEnds, EndOfCopy
  <2>5. ASSUME NEW t \in Turns, NEW r, Request(c, t, r) PROVE LeafInv' /\ CacheInv'
    BY <2>5 DEF Request
  <2> QED BY <1>1, <2>1, <2>2, <2>3, <2>4, <2>5 DEF TunnelClient
<1>2. ASSUME NEW n \in DOMAIN cache, LeafExpires(n) PROVE LeafInv' /\ CacheInv'
  <2>1. /\ cache' = [cache EXCEPT ![n] = FALSE] /\ UNCHANGED <<tunnel, target, leaf>>
    BY <1>2 DEF LeafExpires
  <2>2. DOMAIN cache' = DOMAIN cache /\ cache' \in [DOMAIN cache -> BOOLEAN]
    BY <2>1 DEF CacheInv
  <2> QED BY <2>1, <2>2 DEF LeafInv, CacheInv
<1>3. CASE UNCHANGED tunnelVars
  BY <1>3 DEF tunnelVars, LeafInv, CacheInv
<1> QED BY <1>1, <1>2, <1>3, HandleKeepsLeaf DEF TunnelNext, PlainRequest

LEMMA TunnelsSound == TunnelSpec => [](LeafInv /\ CacheInv)
<1>1. TunnelInit => LeafInv /\ CacheInv
  <2> SUFFICES ASSUME TunnelInit PROVE LeafInv /\ CacheInv
    OBVIOUS
  <2>1. LeafInv
    BY DEF TunnelInit, LeafInv, Stages, NoLeaf
  <2>2. cache = <<>> /\ DOMAIN cache = {}
    BY DEF TunnelInit
  <2>3. IsFiniteSet({}) /\ Cardinality({}) = 0
    BY FS_EmptySet
  <2>4. cache \in [DOMAIN cache -> BOOLEAN]
    BY <2>2
  <2> QED BY <2>1, <2>2, <2>3, <2>4, TunnelConstants DEF CacheInv
<1>2. LeafInv /\ CacheInv /\ [TunnelNext]_allVars => LeafInv' /\ CacheInv'
  <2>1. ASSUME LeafInv, CacheInv, UNCHANGED allVars PROVE LeafInv' /\ CacheInv'
    BY <2>1 DEF allVars, tunnelVars, LeafInv, CacheInv
  <2> QED BY <2>1, StepKeepsLeaf
<1> QED BY <1>1, <1>2, PTL DEF TunnelSpec

\* A client is served with an unexpired leaf for the host it asked the tunnel for,
\* and the cache stays within its bound, whatever tunnels fill it at once
\* (LeafFor, handleConnect).
THEOREM LeavesAreRight == TunnelSpec => []LeafIsRight
<1>1. LeafInv /\ CacheInv => LeafIsRight
  BY DEF LeafInv, CacheInv, LeafIsRight
<1> QED BY <1>1, TunnelsSound, PTL

-----------------------------------------------------------------------------
(***************************************************************************)
(* The turns of tunnels are those of ProxyTurn: what a tunnel does between *)
(* their steps only counts a request or loses an agent.                    *)
(***************************************************************************)
OnlyCounts(names) ==
    /\ Count(names)
    /\ UNCHANGED <<stage, req, source, status, answer, heard, relayed, writing, budget, blocked,
                   agent, panicked, offered, lines>>

AgentsLeave ==
    /\ \E gone \in SUBSET Turns : agent' = [t \in Turns |-> IF t \in gone THEN "gone" ELSE agent[t]]
    /\ UNCHANGED <<stage, req, source, status, answer, heard, relayed, writing, budget, blocked,
                   panicked, offered, lines, counters>>

LEMMA WhatTunnelsDoToTurns ==
    ASSUME TunnelNext
    PROVE  TurnStep \/ UNCHANGED vars \/ OnlyCounts({"requests"}) \/ OnlyCounts({"upgraded"}) \/ AgentsLeave
<1> DEFINE Goal == TurnStep \/ UNCHANGED vars \/ OnlyCounts({"requests"}) \/ OnlyCounts({"upgraded"}) \/ AgentsLeave
<1>1. ASSUME NEW c \in Conns, Handle(c) PROVE Goal
  <2>1. CASE ForwardUpgrade(c)
    BY <2>1 DEF ForwardUpgrade, OnlyCounts
  <2>2. CASE ~ForwardUpgrade(c)
    <3>1. KeepTurns
      BY <1>1, <2>2 DEF Handle, Hijack, Dial, Confirm, Insert, Hello, Shake, HandshakeFails, IdleEnds, EndOfCopy,
            IdleTick, SpliceFails, Unanswered, UpgradeOver, CloseServed, ServeReturns, LogTunnel
    <3> QED BY <3>1 DEF KeepTurns
  <2> QED BY <2>1, <2>2
<1>2. ASSUME NEW t \in Turns, NEW r \in Requests[t], Arrive(t, r) PROVE Goal
  BY <1>2 DEF TurnStep, Caller
<1>3. ASSUME NEW c \in Conns, TunnelClient(c) PROVE Goal
  <2>1. CASE ClientLeaves(c)
    <3>1. Carried(c) \in SUBSET Turns
      BY DEF Carried
    <3> QED BY <2>1, <3>1 DEF ClientLeaves, AgentsLeave
  <2>2. CASE Upgrade(c) \/ \E h \in Hosts : Connect(c, h)
    BY <2>2 DEF Upgrade, Connect, OnlyCounts
  <2>3. CASE Splice(c) \/ SpliceEnds(c) \/ \E d \in Directions : Chunk(c, d) \/ CopyEnds(c, d)
    BY <2>3 DEF Splice, SpliceEnds, UpgradeOver, Chunk, CopyEnds, EndOfCopy, KeepTurns
  <2>4. CASE \E t \in Turns : \E r \in Requests[t] : Request(c, t, r)
    BY <1>2, <2>4 DEF Request
  <2> QED BY <1>3, <2>1, <2>2, <2>3, <2>4 DEF TunnelClient
<1>4. ASSUME NEW n, LeafExpires(n) PROVE Goal
  BY <1>4 DEF LeafExpires, KeepTurns
<1>5. ASSUME NEW t \in Turns, NEW r \in Requests[t], PlainRequest(t, r) PROVE Goal
  BY <1>2, <1>5 DEF PlainRequest
<1>6. ASSUME NEW t \in Turns, Proceed(t) PROVE Goal
  BY <1>6 DEF Proceed, TurnStep, Caller
<1>7. ASSUME Tick PROVE Goal
  BY <1>7 DEF TurnStep
<1> QED BY <1>1, <1>3, <1>4, <1>5, <1>6, <1>7 DEF TunnelNext

LEMMA CountingKeepsTurns ==
    ASSUME TurnInv, OutcomeInv, NEW names, "proxyErrors" \notin names, "latencies" \notin names, OnlyCounts(names)
    PROVE  TurnInv' /\ OutcomeInv'
<1>1. TurnInv'
  BY DEF OnlyCounts, TurnInv, CopyOK, TurnsTyped, CopiesTyped, CopyInv, AnswersTyped, AnswerInv, ExchangeInv
<1>2. /\ counters \in [Counters -> Nat] /\ Count(names)
      /\ {"proxyErrors", "latencies", "uncapturable"} \subseteq Counters
  BY DEF OutcomeInv, OnlyCounts, Counters
<1>3. counters' \in [Counters -> Nat]
  BY <1>2, CountKeepsType
<1>4. counters'["proxyErrors"] = counters["proxyErrors"] /\ counters'["latencies"] = counters["latencies"]
  BY <1>2, CountOf
<1>5. counters["uncapturable"] > 0 => counters'["uncapturable"] > 0
  <2>1. counters'["uncapturable"] \in {counters["uncapturable"], counters["uncapturable"] + 1}
    BY <1>2, CountOf
  <2>2. counters["uncapturable"] \in Nat
    BY <1>2
  <2> QED BY <2>1, <2>2
<1>6. UNCHANGED <<stage, req, source, status, panicked, offered, lines>>
  BY DEF OnlyCounts
<1> QED BY <1>1, <1>3, <1>4, <1>5, <1>6 DEF OutcomeInv, Failed, Sampled, BadGateway, LineOf, StatusLogged, Level

LEMMA LeavingKeepsTurns ==
    ASSUME TurnInv, OutcomeInv, AgentsLeave
    PROVE  TurnInv' /\ OutcomeInv'
<1>1. /\ UNCHANGED <<stage, req, source, status, answer, heard, relayed, writing, budget, blocked,
                     panicked, offered, lines, counters>>
      /\ \A t \in Turns : agent'[t] = agent[t] \/ agent'[t] = "gone"
  <2>1. PICK gone \in SUBSET Turns : agent' = [t \in Turns |-> IF t \in gone THEN "gone" ELSE agent[t]]
    BY DEF AgentsLeave
  <2> QED BY <2>1 DEF AgentsLeave
<1>a. agent' \in [Turns -> {"reading", "stalled", "gone"}]
  BY DEF AgentsLeave, TurnInv, CopyOK, TurnsTyped
<1>2. TurnsTyped' /\ CopiesTyped' /\ CopyInv'
  BY <1>1, <1>a DEF TurnInv, CopyOK, TurnsTyped, CopiesTyped, CopyInv
<1>3. AnswersTyped' /\ AnswerInv' /\ ExchangeInv' /\ offered' \in [Turns -> Seq(0..MaxEvents)]
  BY <1>1 DEF TurnInv, AnswersTyped, AnswerInv, ExchangeInv
<1>4. OutcomeInv'
  BY <1>1 DEF OutcomeInv, Failed, Sampled, BadGateway, LineOf, StatusLogged, Level
<1> QED BY <1>2, <1>3, <1>4 DEF TurnInv, CopyOK

LEMMA TunnelsKeepTurns ==
    ASSUME TurnInv, OutcomeInv, [TunnelNext]_allVars
    PROVE  TurnInv' /\ OutcomeInv'
<1>1. CASE UNCHANGED vars
  BY <1>1 DEF vars, TurnInv, CopyOK, TurnsTyped, CopiesTyped, CopyInv, AnswersTyped, AnswerInv, ExchangeInv,
         OutcomeInv, Failed, Sampled, BadGateway, LineOf, StatusLogged, Level
<1>2. CASE TurnStep
  <2>1. TurnsTyped' /\ CopiesTyped' /\ CopyInv'
    BY <1>2, StepKeepsTurns, StepKeepsCopies DEF TurnInv, CopyOK
  <2>2. AnswersTyped' /\ AnswerInv'
    BY <1>2, StepKeepsAnswers DEF TurnInv, CopyOK
  <2>3. ExchangeInv' /\ offered' \in [Turns -> Seq(0..MaxEvents)]
    BY <1>2, <2>1, StepKeepsExchanges DEF TurnInv
  <2>4. OutcomeInv'
    BY <1>2, StepKeepsOutcomes
  <2> QED BY <2>1, <2>2, <2>3, <2>4 DEF TurnInv, CopyOK
<1>3. CASE OnlyCounts({"requests"}) \/ OnlyCounts({"upgraded"})
  BY <1>3, CountingKeepsTurns
<1>4. CASE AgentsLeave
  BY <1>4, LeavingKeepsTurns
<1>5. UNCHANGED allVars => UNCHANGED vars
  BY DEF allVars
<1> QED BY <1>1, <1>2, <1>3, <1>4, <1>5, WhatTunnelsDoToTurns

LEMMA TurnsOfTunnelsSound == TunnelSpec => [](TurnInv /\ OutcomeInv)
<1>1. TunnelInit => TurnInv /\ OutcomeInv
  BY TurnsStartSound, OutcomesStartSound DEF TunnelInit
<1>2. TurnInv /\ OutcomeInv /\ [TunnelNext]_allVars => TurnInv' /\ OutcomeInv'
  BY TunnelsKeepTurns
<1> QED BY <1>1, <1>2, PTL DEF TunnelSpec

\* Through a tunnel as outside, a captured answer becomes one exchange, with every
\* event its agent received (finalize, captureResponse).
THEOREM TunnelledOneExchange == TunnelSpec => []OneExchange
BY TurnsOfTunnelsSound, InvIsOneExchange, PTL

\* While the status answer gives no reason to worry, no turn of any tunnel has
\* failed, and every captured answer was recorded (degradedReasons).
THEOREM TunnelledHealthIsTrue == TunnelSpec => []HealthyMeansSaved
BY TurnsOfTunnelsSound, InvIsHealthy, PTL

\* Of the turns of any tunnels, the lines, the answers and the counters agree: the
\* part of TurnsAndTunnelsAddUp that is about turns (ServeHTTP, stats.Stats).
THEOREM TunnelledTurnsAddUp == TunnelSpec => []OutcomesAddUp
BY TurnsOfTunnelsSound, InvAddsUp, PTL

\* The deadline that cuts a turn is its own agent's, whatever tunnels do meanwhile
\* (deadline.go).
THEOREM TunnelledDeadline == TunnelSpec => CutOnlyWhenAgentStalls
<1>1. TurnInv /\ [TunnelNext]_allVars =>
        [\A t \in Turns : writing[t] /\ stage'[t] = "closing" =>
            agent[t] = "gone" \/ blocked[t] = Idle \/ Hijacked(t)]_vars
  <2> SUFFICES ASSUME TurnInv, [TunnelNext]_allVars, ~UNCHANGED vars,
                      NEW u \in Turns, writing[u], stage'[u] = "closing"
               PROVE  agent[u] = "gone" \/ blocked[u] = Idle \/ Hijacked(u)
    OBVIOUS
  <2>1. CopyOK
    BY DEF TurnInv
  <2>2. stage[u] = "relaying"
    BY <2>1 DEF CopyOK, CopyInv
  <2>3. TurnStep \/ OnlyCounts({"requests"}) \/ OnlyCounts({"upgraded"}) \/ AgentsLeave
    BY WhatTunnelsDoToTurns DEF allVars
  <2>4. TurnStep
    BY <2>2, <2>3 DEF OnlyCounts, AgentsLeave
  <2> QED BY <2>1, <2>4, CutByItsAgent
<1> QED BY <1>1, TurnsOfTunnelsSound, PTL DEF TunnelSpec, CutOnlyWhenAgentStalls

\* The turns of tunnels are turns as Session assumes them.
THEOREM TunnelledTurnLife == TunnelSpec => ImplementsTurnLife
<1>1. TurnInv /\ [TunnelNext]_allVars => [Life!LifeNext]_(Life!lifeVars)
  <2>1. UNCHANGED vars => UNCHANGED Life!lifeVars
    BY DEF vars, Life!lifeVars, Hijacked
  <2>2. OnlyCounts({"requests"}) \/ OnlyCounts({"upgraded"}) \/ AgentsLeave => UNCHANGED Life!lifeVars
    BY DEF OnlyCounts, AgentsLeave, Life!lifeVars, Hijacked
  <2>3. UNCHANGED allVars => UNCHANGED vars
    BY DEF allVars
  <2> QED BY <2>1, <2>2, <2>3, LifeGoesOn, WhatTunnelsDoToTurns
<1>2. TunnelInit => Life!LifeInit
  BY LifeStarts DEF TunnelInit
<1> QED BY <1>1, <1>2, TurnsOfTunnelsSound, PTL DEF TunnelSpec, ImplementsTurnLife, Life!LifeSpec
-----------------------------------------------------------------------------
(***************************************************************************)
(* The books of a session with tunnels: what was logged and counted of its *)
(* tunnels and upgrades.                                                   *)
(***************************************************************************)
TunnelLine == [kind : {"connect", "upgrade"}, refused : BOOLEAN]

Begun     == {c \in Conns : tunnel[c] # "none"}
Opening   == {c \in Conns : tunnel[c] = "splicing"}
Forwarded == {c \in Conns : tunnel[c] \in {"awaiting", "spliced"}}
Places(all, line) == UNION {{<<c, i>> : i \in {j \in 1..Len(all[c]) : all[c][j] = line}} : c \in Conns}
Spoiled   == Places(tunnelLines, UpgradeLine(TRUE))
Accounted == Places(tunnelLines, UpgradeLine(FALSE))
Arrived   == {t \in Turns : stage[t] # "idle"}
Connects(c) == {i \in DOMAIN tunnelLines[c] : tunnelLines[c][i].kind = "connect"}

BooksTyped ==
    /\ tunnelLines \in [Conns -> Seq(TunnelLine)]
    /\ refused \in [Conns -> BOOLEAN] /\ established \in [Conns -> BOOLEAN]
    /\ copies \in [Conns -> SUBSET Directions]
    /\ upgrades \in Nat
    /\ IsFiniteSet(Begun) /\ IsFiniteSet(Spoiled) /\ IsFiniteSet(Accounted)

\* A tunnel is usable from the moment its bytes may flow, refused if it never
\* gets there, and both are settled when it closes.
ReasonInv ==
    \A c \in Conns :
        /\ tunnel[c] \in {"none", "hijack", "dial", "confirm", "hello", "minting", "shaking"} =>
              ~refused[c] /\ ~established[c]
        /\ tunnel[c] \in {"copying", "serving", "splicing", "awaiting", "spliced", "served"} =>
              ~refused[c] /\ established[c]
        /\ tunnel[c] = "closing" => refused[c] = ~established[c]
        /\ copies[c] # {} => tunnel[c] = "copying"

\* A tunnel's own line is its last.
LinesInv ==
    \A c \in Conns : Connects(c) = IF tunnel[c] = "ended" THEN {Len(tunnelLines[c])} ELSE {}

CountsInv ==
    /\ counters["upgraded"] = Cardinality(Accounted) + Cardinality(Forwarded)
    /\ upgrades = counters["upgraded"] + Cardinality(Spoiled) + Cardinality(Opening)
    /\ counters["requests"] = upgrades + Cardinality(Begun) + Cardinality(Arrived)

BooksInv == BooksTyped /\ ReasonInv /\ LinesInv /\ CountsInv
\* A turn is counted among the requests when it arrives, and never again, and among
\* the spliced upgrades never.
LEMMA ArrivalsCounted ==
    ASSUME TurnInv, counters \in [Counters -> Nat], TurnStep
    PROVE  /\ counters'["upgraded"] = counters["upgraded"]
           /\ \/ Arrived' = Arrived /\ counters'["requests"] = counters["requests"]
              \/ \E t \in Turns \ Arrived : /\ Arrived' = Arrived \cup {t}
                                            /\ counters'["requests"] = counters["requests"] + 1
<1> DEFINE Goal == /\ counters'["upgraded"] = counters["upgraded"]
                   /\ \/ Arrived' = Arrived /\ counters'["requests"] = counters["requests"]
                      \/ \E t \in Turns \ Arrived : /\ Arrived' = Arrived \cup {t}
                                                    /\ counters'["requests"] = counters["requests"] + 1
           Elsewhere(names) == "requests" \notin names /\ "upgraded" \notin names
<1>1. DOMAIN stage = Turns /\ {"requests", "upgraded"} \subseteq Counters
  BY DEF TurnInv, CopyOK, TurnsTyped, Counters
<1>2. ASSUME UNCHANGED counters \/ \E names : Count(names) /\ Elsewhere(names),
             UNCHANGED stage \/ \E t \in Turns, s \in {"enriching", "upstream", "relaying", "closing", "ended"} :
                                   stage[t] # "idle" /\ stage' = [stage EXCEPT ![t] = s]
      PROVE  Goal
  <2>1. counters'["requests"] = counters["requests"] /\ counters'["upgraded"] = counters["upgraded"]
    BY <1>1, <1>2, CountOf
  <2>2. \A t \in Turns : stage'[t] = "idle" <=> stage[t] = "idle"
    BY <1>1, <1>2
  <2>3. Arrived' = Arrived
    BY <2>2 DEF Arrived
  <2> QED BY <2>1, <2>3
<1>3. CASE Tick
  BY <1>2, <1>3 DEF Tick
<1>4. ASSUME NEW t \in Turns, NEW r, Arrive(t, r) PROVE Goal
  <2>1. stage[t] = "idle" /\ stage' = [stage EXCEPT ![t] = "reading"] /\ Count({"requests"})
    BY <1>4 DEF Arrive
  <2>2. Arrived' = Arrived \cup {t} /\ t \notin Arrived
    BY <1>1, <2>1 DEF Arrived
  <2>3. counters'["requests"] = counters["requests"] + 1 /\ counters'["upgraded"] = counters["upgraded"]
    BY <1>1, <2>1, CountOf
  <2> QED BY <2>2, <2>3
<1>5. ASSUME NEW t \in Turns, Handler(t) \/ Upstream(t) \/ Panic(t) \/ \E how : AgentTurns(t, how) PROVE Goal
  <2>1. writing[t] => stage[t] = "relaying"
    BY DEF TurnInv, CopyOK, CopyInv
  <2>2. UNCHANGED stage \/ \E s \in {"enriching", "upstream", "relaying", "closing", "ended"} :
                               stage[t] # "idle" /\ stage' = [stage EXCEPT ![t] = s]
    <3>1. CASE Handler(t)
      BY <2>1, <3>1 DEF Handler, ReadBody, Enrich, Written, AgentLost, DeadlineCuts, CopyFails, Recover, LogTurn
    <3>2. CASE Upstream(t)
      BY <2>1, <3>2 DEF Upstream, RoundTripFails, CopyEvent, EndOfBody, ReadFails, CopyFails, Recover, Respond, Capture, RelayFrom
    <3>3. CASE Panic(t) \/ \E how : AgentTurns(t, how)
      BY <3>3 DEF Panic, Recover, AgentTurns
    <3> QED BY <1>5, <3>1, <3>2, <3>3
  <2>3. UNCHANGED counters \/ \E names : Count(names) /\ Elsewhere(names)
    <3>1. ASSUME NEW names, Elsewhere(names), CloseBody(t, names)
          PROVE  \E all : Count(all) /\ Elsewhere(all)
      BY <3>1 DEF CloseBody, Offer
    <3>2. ASSUME CopyFails(t) PROVE UNCHANGED counters \/ \E names : Count(names) /\ Elsewhere(names)
      BY <3>1, <3>2 DEF CopyFails
    <3>3. ASSUME NEW r, Respond(t, r) PROVE UNCHANGED counters \/ \E names : Count(names) /\ Elsewhere(names)
      <4>1. Elsewhere(UpstreamError(r)) /\ Elsewhere(Missed(r))
        BY DEF UpstreamError, Missed
      <4>2. \/ UNCHANGED counters
            \/ Count(UpstreamError(r)) \/ Count(Missed(r)) \/ Count(UpstreamError(r) \cup {"proxyErrors"})
            \/ Count(UpstreamError(r) \cup {"latencies"})
        BY <3>3 DEF Respond, Capture, Offer
      <4> QED BY <4>1, <4>2
    <3>4. ASSUME RoundTripFails(t) PROVE UNCHANGED counters \/ \E names : Count(names) /\ Elsewhere(names)
      <4>1. UNCHANGED counters \/ Count({"proxyErrors"})
        BY <3>4 DEF RoundTripFails, Canceled, Unreachable
      <4> QED BY <4>1
    <3>5. ASSUME EndOfBody(t) PROVE \E names : Count(names) /\ Elsewhere(names)
      BY <3>1, <3>5 DEF EndOfBody
    <3>6. CASE Handler(t)
      BY <3>2, <3>6 DEF Handler, ReadBody, Enrich, Written, AgentLost, DeadlineCuts, LogTurn
    <3>7. CASE Upstream(t)
      BY <3>2, <3>3, <3>4, <3>5, <3>7 DEF Upstream, CopyEvent, ReadFails
    <3>8. CASE Panic(t) \/ \E how : AgentTurns(t, how)
      BY <3>8 DEF Panic, AgentTurns
    <3> QED BY <1>5, <3>6, <3>7, <3>8
  <2> QED BY <1>2, <2>2, <2>3
<1> QED BY <1>3, <1>4, <1>5 DEF TurnStep, Caller

\* What a step does to the places of the tunnels and to their lines.
Opens(c) ==
    /\ tunnel[c] = "none" /\ Goto(c, "hijack")
    /\ UNCHANGED <<tunnelLines, upgrades>> /\ OnlyCounts({"requests"})

Upgrading == {"splicing", "awaiting", "spliced"}

Moves(c) ==
    /\ tunnel[c] \notin {"none", "ended"} \cup Upgrading
    /\ \E s \in Stages \ ({"none", "ended"} \cup Upgrading) : Goto(c, s)
    /\ UNCHANGED <<tunnelLines, upgrades>> /\ UNCHANGED vars

\* An upgrade ends with a reason if its request was not forwarded.
Ends(c) ==
    /\ tunnel[c] \in Upgrading /\ Goto(c, "served")
    /\ LogUpgrade(c, tunnel[c] = "splicing")
    /\ UNCHANGED upgrades /\ UNCHANGED vars

OfTunnel(c) ==
    Opens(c) \/ Moves(c) \/ Upgrade(c) \/ ForwardUpgrade(c) \/ Splice(c) \/ Ends(c) \/ LogTunnel(c)

LEMMA WhatBecomesOfTunnels ==
    ASSUME LeafInv, ReasonInv, copies \in [Conns -> SUBSET Directions], TunnelNext
    PROVE  \/ UNCHANGED <<tunnel, tunnelLines, upgrades>> /\ (TurnStep \/ UNCHANGED vars \/ AgentsLeave)
           \/ \E c \in Conns : OfTunnel(c)
<1> DEFINE Goal == \/ UNCHANGED <<tunnel, tunnelLines, upgrades>> /\ (TurnStep \/ UNCHANGED vars \/ AgentsLeave)
                   \/ \E c \in Conns : OfTunnel(c)
<1>1. ASSUME NEW c \in Conns, NEW d, d \in copies[c], EndOfCopy(c, d) PROVE Goal
  <2>1. tunnel[c] = "copying" /\ DOMAIN tunnel = Conns
    BY <1>1 DEF ReasonInv, LeafInv
  <2>2. \E s \in {"copying", "closing"} : Goto(c, s)
    BY <1>1, <2>1 DEF EndOfCopy, Goto
  <2>3. UNCHANGED <<tunnelLines, upgrades>> /\ UNCHANGED vars
    BY <1>1 DEF EndOfCopy, KeepTurns
  <2>4. Moves(c)
    BY <2>1, <2>2, <2>3 DEF Moves, Stages, Upgrading
  <2> QED BY <2>4 DEF OfTunnel
<1>2. ASSUME NEW c \in Conns, Handle(c) PROVE Goal
  <2>1. CASE Hijack(c) \/ Dial(c) \/ Confirm(c) \/ Insert(c) \/ (\E h \in Hosts : Hello(c, h)) \/ Shake(c)
             \/ HandshakeFails(c) \/ CloseServed(c) \/ ServeReturns(c)
    <3>1. UNCHANGED <<tunnelLines, upgrades>> /\ UNCHANGED vars
      BY <2>1 DEF Hijack, Dial, Confirm, Insert, Hello, Shake, HandshakeFails, CloseServed, ServeReturns, KeepTurns
    <3>2. /\ tunnel[c] \notin {"none", "ended"} \cup Upgrading
          /\ \E s \in {"confirm", "dial", "hello", "copying", "shaking", "minting", "serving", "served", "closing"} : Goto(c, s)
      BY <2>1 DEF Hijack, Dial, Confirm, Insert, Hello, Shake, HandshakeFails, CloseServed, ServeReturns, Refuse, Closed,
            Upgrading
    <3>3. Moves(c)
      BY <3>1, <3>2 DEF Moves, Stages, Upgrading
    <3> QED BY <3>3 DEF OfTunnel
  <2>2. CASE \E d \in Directions : IdleEnds(c, d)
    BY <1>1, <2>2 DEF IdleEnds
  <2>3. CASE IdleTick(c)
    BY <2>3 DEF IdleTick, KeepTurns
  <2>4. CASE SpliceFails(c) \/ Unanswered(c)
    BY <2>4 DEF SpliceFails, Unanswered, UpgradeOver, Closed, KeepTurns, Ends, Upgrading, OfTunnel
  <2>5. CASE ForwardUpgrade(c) \/ LogTunnel(c)
    BY <2>5 DEF OfTunnel
  <2> QED BY <1>2, <2>1, <2>2, <2>3, <2>4, <2>5 DEF Handle
<1>3. ASSUME NEW t \in Turns, NEW r \in Requests[t], Arrive(t, r) PROVE TurnStep
  BY <1>3 DEF TurnStep, Caller
<1>4. ASSUME NEW c \in Conns, TunnelClient(c) PROVE Goal
  <2>1. CASE \E h \in Hosts : Connect(c, h)
    BY <2>1 DEF Connect, Opens, OnlyCounts, OfTunnel
  <2>2. CASE Upgrade(c) \/ Splice(c)
    BY <2>2 DEF OfTunnel
  <2>3. CASE ClientLeaves(c)
    <3>1. Carried(c) \in SUBSET Turns
      BY DEF Carried
    <3> QED BY <2>3, <3>1 DEF ClientLeaves, AgentsLeave
  <2>4. CASE SpliceEnds(c)
    BY <2>4 DEF SpliceEnds, UpgradeOver, Closed, KeepTurns, Ends, Upgrading, OfTunnel
  <2>5. CASE \E d \in Directions : Chunk(c, d)
    BY <2>5 DEF Chunk, KeepTurns
  <2>6. CASE \E d \in Directions : CopyEnds(c, d)
    BY <1>1, <2>6 DEF CopyEnds
  <2>7. CASE \E t \in Turns : \E r \in Requests[t] : Request(c, t, r)
    BY <1>3, <2>7 DEF Request
  <2> QED BY <1>4, <2>1, <2>2, <2>3, <2>4, <2>5, <2>6, <2>7 DEF TunnelClient
<1>5. ASSUME NEW n, LeafExpires(n) PROVE Goal
  BY <1>5 DEF LeafExpires, KeepTurns
<1>6. ASSUME NEW t \in Turns, NEW r \in Requests[t], PlainRequest(t, r) PROVE Goal
  BY <1>3, <1>6 DEF PlainRequest, tunnelVars
<1>7. ASSUME NEW t \in Turns, Proceed(t), UNCHANGED tunnelVars PROVE Goal
  BY <1>7 DEF Proceed, TurnStep, Caller, tunnelVars
<1>8. ASSUME Tick, UNCHANGED tunnelVars PROVE Goal
  BY <1>8 DEF TurnStep, tunnelVars
<1> QED BY <1>2, <1>4, <1>5, <1>6, <1>7, <1>8 DEF TunnelNext
\* A tunnel closes with a reason exactly if its client could not use it.
LEMMA StepKeepsReasons ==
    ASSUME LeafInv, BooksTyped, ReasonInv, TunnelNext
    PROVE  /\ ReasonInv'
           /\ refused' \in [Conns -> BOOLEAN] /\ established' \in [Conns -> BOOLEAN]
           /\ copies' \in [Conns -> SUBSET Directions]
<1> DEFINE Goal == /\ ReasonInv'
                   /\ refused' \in [Conns -> BOOLEAN] /\ established' \in [Conns -> BOOLEAN]
                   /\ copies' \in [Conns -> SUBSET Directions]
<1>0. /\ tunnel \in [Conns -> Stages] /\ refused \in [Conns -> BOOLEAN] /\ established \in [Conns -> BOOLEAN]
      /\ copies \in [Conns -> SUBSET Directions]
  BY DEF LeafInv, BooksTyped
<1> USE DEF ReasonInv, Goto, Refuse
<1>1. ASSUME NEW c \in Conns, UNCHANGED <<refused, established, copies>>, NEW s, tunnel' = [tunnel EXCEPT ![c] = s],
             \/ tunnel[c] \in {"none", "hijack", "dial", "confirm", "hello", "minting", "shaking"}
                /\ s \in {"hijack", "dial", "confirm", "hello", "minting", "shaking"} /\ copies[c] = {}
             \/ tunnel[c] \in {"serving", "splicing", "awaiting", "spliced", "served"}
                /\ s \in {"serving", "splicing", "awaiting", "spliced", "served", "closing"} /\ copies[c] = {}
      PROVE  Goal
  BY <1>0, <1>1
<1>2. ASSUME NEW c \in Conns, UNCHANGED <<established, copies>>, Refuse(c), tunnel[c] \in {"hijack", "dial", "confirm", "hello", "shaking"}
      PROVE  Goal
  BY <1>0, <1>2
<1>3. ASSUME UNCHANGED <<tunnel, refused, established, copies>> PROVE Goal
  BY <1>0, <1>3
<1>4. ASSUME NEW c \in Conns, Hijack(c) PROVE Goal
  <2>1. tunnel[c] = "hijack" /\ copies[c] = {} /\ UNCHANGED <<established, copies>>
    BY <1>4 DEF Hijack, KeepCopy
  <2>2. Refuse(c) \/ (UNCHANGED refused /\ \E s \in {"confirm", "dial"} : tunnel' = [tunnel EXCEPT ![c] = s])
    BY <1>4 DEF Hijack
  <2> QED BY <1>1, <1>2, <2>1, <2>2
<1>5. ASSUME NEW c \in Conns, Dial(c) PROVE Goal
  <2>1. tunnel[c] = "dial" /\ copies[c] = {} /\ UNCHANGED <<established, copies>>
    BY <1>5 DEF Dial, KeepCopy
  <2>2. Refuse(c) \/ (UNCHANGED refused /\ tunnel' = [tunnel EXCEPT ![c] = "confirm"])
    BY <1>5 DEF Dial
  <2> QED BY <1>1, <1>2, <2>1, <2>2
<1>6. ASSUME NEW c \in Conns, Confirm(c) PROVE Goal
  <2>1. tunnel[c] = "confirm" /\ copies[c] = {}
    BY <1>6 DEF Confirm
  <2>2. CASE UNCHANGED <<refused, established, copies>> /\ tunnel' = [tunnel EXCEPT ![c] = "hello"]
    BY <1>1, <2>1, <2>2
  <2>3. CASE UNCHANGED <<established, copies>> /\ Refuse(c)
    BY <1>2, <2>1, <2>3
  <2>4. CASE /\ tunnel' = [tunnel EXCEPT ![c] = "copying"] /\ copies' = [copies EXCEPT ![c] = Directions]
             /\ established' = [established EXCEPT ![c] = TRUE] /\ UNCHANGED refused
    BY <1>0, <2>1, <2>4
  <2> QED BY <1>6, <2>2, <2>3, <2>4 DEF Confirm
<1>7. ASSUME NEW c \in Conns, NEW d, d \in copies[c], EndOfCopy(c, d) PROVE Goal
  <2>1. /\ tunnel[c] = "copying" /\ UNCHANGED <<refused, established>>
        /\ copies' = [copies EXCEPT ![c] = copies[c] \ {d}]
    BY <1>7 DEF EndOfCopy
  <2>2. CASE copies[c] = {d}
    <3>1. tunnel' = [tunnel EXCEPT ![c] = "closing"] /\ copies' = [copies EXCEPT ![c] = {}]
      BY <1>7, <2>1, <2>2 DEF EndOfCopy
    <3> QED BY <1>0, <2>1, <3>1
  <2>3. CASE copies[c] # {d}
    <3>1. UNCHANGED tunnel
      BY <1>0, <1>7, <2>3 DEF EndOfCopy
    <3>2. copies' \in [Conns -> SUBSET Directions] /\ \A b \in Conns : copies'[b] # {} => copies[b] # {}
      BY <1>0, <2>1
    <3> QED BY <1>0, <2>1, <3>1, <3>2
  <2> QED BY <2>2, <2>3
<1>8. ASSUME NEW c \in Conns, NEW h, Hello(c, h) PROVE Goal
  <2>1. tunnel[c] = "hello" /\ copies[c] = {} /\ UNCHANGED <<established, copies>>
    BY <1>8 DEF Hello, KeepCopy
  <2>2. Refuse(c) \/ (UNCHANGED refused /\ \E s \in {"shaking", "minting"} : tunnel' = [tunnel EXCEPT ![c] = s])
    BY <1>8 DEF Hello
  <2> QED BY <1>1, <1>2, <2>1, <2>2
<1>9. ASSUME NEW c \in Conns, Insert(c) PROVE Goal
  BY <1>1, <1>9 DEF Insert, KeepCopy
<1>10. ASSUME NEW c \in Conns, Shake(c) PROVE Goal
  <2>1. /\ tunnel[c] = "shaking" /\ tunnel' = [tunnel EXCEPT ![c] = "serving"]
        /\ established' = [established EXCEPT ![c] = TRUE] /\ UNCHANGED <<refused, copies>>
    BY <1>10 DEF Shake, KeepCopy
  <2> QED BY <1>0, <2>1
<1>11. ASSUME NEW c \in Conns, HandshakeFails(c) PROVE Goal
  BY <1>2, <1>11 DEF HandshakeFails, KeepCopy
<1>12. ASSUME NEW c \in Conns,
              \/ SpliceFails(c) \/ ForwardUpgrade(c) \/ Unanswered(c) \/ Splice(c) \/ SpliceEnds(c)
              \/ CloseServed(c) \/ ServeReturns(c) \/ Upgrade(c)
       PROVE  Goal
  <2>1. /\ UNCHANGED <<refused, established, copies>>
        /\ tunnel[c] \in {"serving", "splicing", "awaiting", "spliced", "served"}
        /\ \E s \in {"splicing", "awaiting", "spliced", "served", "closing"} : tunnel' = [tunnel EXCEPT ![c] = s]
    BY <1>12 DEF SpliceFails, ForwardUpgrade, Unanswered, Splice, SpliceEnds, UpgradeOver, CloseServed, ServeReturns,
          Upgrade, Closed, KeepCopy
  <2>2. copies[c] = {}
    BY <2>1
  <2> QED BY <1>1, <2>1, <2>2
<1>13. ASSUME NEW c \in Conns, LogTunnel(c) PROVE Goal
  <2>1. /\ tunnel[c] = "closing" /\ tunnel' = [tunnel EXCEPT ![c] = "ended"]
        /\ refused' = [refused EXCEPT ![c] = FALSE] /\ established' = [established EXCEPT ![c] = FALSE]
        /\ UNCHANGED copies
    BY <1>13 DEF LogTunnel, Forget
  <2> QED BY <1>0, <2>1
<1>14. ASSUME NEW c \in Conns, NEW h, Connect(c, h) PROVE Goal
  <2>1. /\ tunnel[c] = "none" /\ tunnel' = [tunnel EXCEPT ![c] = "hijack"]
        /\ UNCHANGED <<refused, established, copies>> /\ copies[c] = {}
    BY <1>14 DEF Connect, KeepCopy
  <2> QED BY <1>1, <2>1
<1>15. ASSUME NEW c \in Conns, IdleTick(c) \/ ClientLeaves(c) \/ \E d : Chunk(c, d) PROVE Goal
  BY <1>3, <1>15 DEF IdleTick, ClientLeaves, Chunk, KeepCopy
<1>16. ASSUME NEW c \in Conns, NEW t \in Turns, NEW r, Request(c, t, r) PROVE Goal
  BY <1>3, <1>16 DEF Request, KeepCopy
<1>17. ASSUME NEW n, LeafExpires(n) PROVE Goal
  BY <1>3, <1>17 DEF LeafExpires, KeepCopy
<1>18. ASSUME UNCHANGED tunnelVars PROVE Goal
  BY <1>3, <1>18 DEF tunnelVars
<1>19. ASSUME NEW c \in Conns, Handle(c) PROVE Goal
  BY <1>4, <1>5, <1>6, <1>7, <1>8, <1>9, <1>10, <1>11, <1>12, <1>13, <1>15, <1>19 DEF Handle, IdleEnds
<1>20. ASSUME NEW c \in Conns, TunnelClient(c) PROVE Goal
  BY <1>7, <1>12, <1>14, <1>15, <1>16, <1>20 DEF TunnelClient, CopyEnds
<1> QED BY <1>17, <1>18, <1>19, <1>20 DEF TunnelNext, PlainRequest
\* A line more is one line more of its kind.
LEMMA OneLineMore ==
    ASSUME tunnelLines \in [Conns -> Seq(TunnelLine)], NEW c \in Conns, NEW line \in TunnelLine,
           tunnelLines' = [tunnelLines EXCEPT ![c] = Append(@, line)]
    PROVE  /\ tunnelLines' \in [Conns -> Seq(TunnelLine)]
           /\ Connects(c)' = Connects(c) \cup (IF line.kind = "connect" THEN {Len(tunnelLines[c]) + 1} ELSE {})
           /\ Len(tunnelLines'[c]) = Len(tunnelLines[c]) + 1
           /\ \A d \in Conns \ {c} : tunnelLines'[d] = tunnelLines[d] /\ Connects(d)' = Connects(d)
           /\ \A other \in TunnelLine :
                 /\ line = other => Places(tunnelLines', other) = Places(tunnelLines, other) \cup {<<c, Len(tunnelLines[c]) + 1>>}
                 /\ line # other => Places(tunnelLines', other) = Places(tunnelLines, other)
                 /\ <<c, Len(tunnelLines[c]) + 1>> \notin Places(tunnelLines, other)
<1> DEFINE n == Len(tunnelLines[c]) + 1
<1>1. tunnelLines[c] \in Seq(TunnelLine) /\ Len(tunnelLines[c]) \in Nat
  BY LenProperties
<1>2. /\ Append(tunnelLines[c], line) \in Seq(TunnelLine)
      /\ Len(Append(tunnelLines[c], line)) = n
      /\ \A i \in 1..Len(tunnelLines[c]) : Append(tunnelLines[c], line)[i] = tunnelLines[c][i]
      /\ Append(tunnelLines[c], line)[n] = line
  BY <1>1, AppendProperties
<1>3. tunnelLines'[c] = Append(tunnelLines[c], line)
  OBVIOUS
<1>4. tunnelLines' \in [Conns -> Seq(TunnelLine)] /\ \A d \in Conns \ {c} : tunnelLines'[d] = tunnelLines[d]
  BY <1>2
<1>5. \A d \in Conns \ {c} : Connects(d)' = Connects(d)
  BY <1>4 DEF Connects
<1>6. DOMAIN tunnelLines[c] = 1..Len(tunnelLines[c]) /\ DOMAIN tunnelLines'[c] = 1..n
  BY <1>1, <1>2, <1>3, LenProperties
<1>7. 1..n = (1..Len(tunnelLines[c])) \cup {n} /\ n \notin 1..Len(tunnelLines[c])
  BY <1>1
<1>8. /\ \A i \in 1..Len(tunnelLines[c]) : tunnelLines'[c][i] = tunnelLines[c][i]
      /\ tunnelLines'[c][n] = line
  BY <1>2, <1>3
<1>9. Connects(c)' = Connects(c) \cup (IF line.kind = "connect" THEN {n} ELSE {})
  <2> HIDE DEF n
  <2> QED BY <1>6, <1>7, <1>8 DEF Connects
<1>10. Len(tunnelLines'[c]) = n
  BY <1>2, <1>3
<1>11. ASSUME NEW other \in TunnelLine
       PROVE  /\ line = other => Places(tunnelLines', other) = Places(tunnelLines, other) \cup {<<c, n>>}
              /\ line # other => Places(tunnelLines', other) = Places(tunnelLines, other)
              /\ <<c, n>> \notin Places(tunnelLines, other)
  <2> DEFINE Old(d) == {i \in 1..Len(tunnelLines[d]) : tunnelLines[d][i] = other}
             New(d) == {i \in 1..Len(tunnelLines'[d]) : tunnelLines'[d][i] = other}
  <2>1. \A d \in Conns \ {c} : New(d) = Old(d)
    BY <1>4
  <2>2. New(c) = Old(c) \cup (IF line = other THEN {n} ELSE {}) /\ n \notin Old(c)
    <3> HIDE DEF n
    <3> QED BY <1>7, <1>8, <1>10
  <2>4. ASSUME NEW x PROVE x \in Places(tunnelLines, other) <=> \E d \in Conns : \E i \in Old(d) : x = <<d, i>>
    BY DEF Places
  <2>5. ASSUME NEW x PROVE x \in Places(tunnelLines', other) <=> \E d \in Conns : \E i \in New(d) : x = <<d, i>>
    BY DEF Places
  <2> HIDE DEF Old, New, n
  <2>6. <<c, n>> \notin Places(tunnelLines, other)
    <3>1. SUFFICES ASSUME <<c, n>> \in Places(tunnelLines, other) PROVE FALSE
      OBVIOUS
    <3>2. PICK d, i : d \in Conns /\ i \in Old(d) /\ <<c, n>> = <<d, i>>
      BY <2>4, <3>1, Zenon
    <3>3. d = c /\ i = n
      BY <3>2
    <3> QED BY <2>2, <3>2, <3>3
  <2>7. CASE line = other
    <3>1. Old(c) \subseteq New(c) /\ n \in New(c) /\ \A i \in New(c) : i = n \/ i \in Old(c)
      BY <2>2, <2>7
    <3>2. ASSUME NEW x \in Places(tunnelLines, other) PROVE x \in Places(tunnelLines', other)
      BY <2>1, <2>4, <2>5, <3>1, <3>2
    <3>3. <<c, n>> \in Places(tunnelLines', other)
      BY <2>5, <3>1
    <3>4. ASSUME NEW x \in Places(tunnelLines', other) PROVE x \in Places(tunnelLines, other) \/ x = <<c, n>>
      <4>1. PICK d, i : d \in Conns /\ i \in New(d) /\ x = <<d, i>>
        BY <2>5, <3>4, Zenon
      <4>2. CASE d = c /\ i = n
        BY <4>1, <4>2
      <4>3. CASE ~(d = c /\ i = n)
        <5>1. i \in Old(d)
          BY <2>1, <3>1, <4>1, <4>3
        <5> QED BY <2>4, <4>1, <5>1
      <4> QED BY <4>2, <4>3
    <3> QED BY <2>6, <2>7, <3>2, <3>3, <3>4
  <2>8. CASE line # other
    <3>1. ASSUME NEW x PROVE x \in Places(tunnelLines', other) <=> x \in Places(tunnelLines, other)
      BY <2>1, <2>2, <2>4, <2>5, <2>8
    <3> QED BY <2>6, <2>8, <3>1
  <2> QED BY <2>7, <2>8
<1> QED BY <1>4, <1>5, <1>9, <1>10, <1>11

\* A set with one member more.
LEMMA OneMore ==
    ASSUME NEW S, IsFiniteSet(S), NEW x, x \notin S
    PROVE  IsFiniteSet(S \cup {x}) /\ Cardinality(S \cup {x}) = Cardinality(S) + 1
BY FS_AddElement

LEMMA UpgradesAreBegun ==
    ASSUME IsFiniteSet(Begun)
    PROVE  /\ IsFiniteSet(Opening) /\ Cardinality(Opening) \in Nat
           /\ IsFiniteSet(Forwarded) /\ Cardinality(Forwarded) \in Nat
<1>1. Opening \subseteq Begun /\ Forwarded \subseteq Begun
  BY DEF Opening, Forwarded, Begun
<1> QED BY <1>1, FS_Subset, FS_CardinalityType

LEMMA UpgradeLinesDiffer ==
    /\ UpgradeLine(TRUE) \in TunnelLine /\ UpgradeLine(FALSE) \in TunnelLine
    /\ UpgradeLine(TRUE) # UpgradeLine(FALSE)
    /\ \A failed \in BOOLEAN : UpgradeLine(failed).kind = "upgrade"
    /\ \A failed, reason \in BOOLEAN : [kind |-> "connect", refused |-> reason] # UpgradeLine(failed)
<1>1. /\ UpgradeLine(TRUE) \in TunnelLine /\ UpgradeLine(FALSE) \in TunnelLine
      /\ \A failed \in BOOLEAN : UpgradeLine(failed).kind = "upgrade"
  BY DEF UpgradeLine, TunnelLine
<1>2. UpgradeLine(TRUE) # UpgradeLine(FALSE)
  <2>1. UpgradeLine(TRUE).refused = TRUE /\ UpgradeLine(FALSE).refused = FALSE
    BY DEF UpgradeLine
  <2> QED BY <2>1
<1>3. ASSUME NEW failed \in BOOLEAN, NEW reason \in BOOLEAN PROVE [kind |-> "connect", refused |-> reason] # UpgradeLine(failed)
  <2>1. [kind |-> "connect", refused |-> reason].kind = "connect" /\ UpgradeLine(failed).kind = "upgrade"
    BY DEF UpgradeLine
  <2> QED BY <2>1
<1> QED BY <1>1, <1>2, <1>3

\* Each kind of step keeps the lines, the sets they are counted in and the counts.
LEMMA TunnelStepKeepsBooks ==
    ASSUME LeafInv, BooksTyped, ReasonInv, LinesInv, CountsInv, counters \in [Counters -> Nat],
           NEW c \in Conns, OfTunnel(c)
    PROVE  /\ tunnelLines' \in [Conns -> Seq(TunnelLine)] /\ upgrades' \in Nat
           /\ IsFiniteSet(Begun') /\ IsFiniteSet(Spoiled') /\ IsFiniteSet(Accounted')
           /\ LinesInv' /\ CountsInv'
<1> DEFINE Goal == /\ tunnelLines' \in [Conns -> Seq(TunnelLine)] /\ upgrades' \in Nat
                   /\ IsFiniteSet(Begun') /\ IsFiniteSet(Spoiled') /\ IsFiniteSet(Accounted')
                   /\ LinesInv' /\ CountsInv'
<1>1. /\ tunnel \in [Conns -> Stages] /\ tunnelLines \in [Conns -> Seq(TunnelLine)]
      /\ IsFiniteSet(Begun) /\ IsFiniteSet(Spoiled) /\ IsFiniteSet(Accounted)
  BY DEF LeafInv, BooksTyped
<1>2. /\ IsFiniteSet(Opening) /\ Cardinality(Opening) \in Nat
      /\ IsFiniteSet(Forwarded) /\ Cardinality(Forwarded) \in Nat
  BY <1>1, UpgradesAreBegun
<1>3. /\ Cardinality(Begun) \in Nat /\ Cardinality(Spoiled) \in Nat /\ Cardinality(Accounted) \in Nat
      /\ Cardinality(Arrived) \in Nat /\ upgrades \in Nat
      /\ counters["requests"] \in Nat /\ counters["upgraded"] \in Nat
  <2>1. IsFiniteSet(Arrived)
    BY ConstantTypes, FS_Subset DEF Arrived
  <2>2. {"requests", "upgraded"} \subseteq Counters
    BY DEF Counters
  <2> QED BY <1>1, <2>1, <2>2, FS_CardinalityType DEF BooksTyped
<1>4. /\ counters["upgraded"] = Cardinality(Accounted) + Cardinality(Forwarded)
      /\ upgrades = counters["upgraded"] + Cardinality(Spoiled) + Cardinality(Opening)
      /\ counters["requests"] = upgrades + Cardinality(Begun) + Cardinality(Arrived)
  BY DEF CountsInv
<1>5. ASSUME UNCHANGED tunnelLines, NEW s \in Stages \ {"ended"}, tunnel' = [tunnel EXCEPT ![c] = s], tunnel[c] # "ended"
      PROVE  /\ LinesInv' /\ Spoiled' = Spoiled /\ Accounted' = Accounted
             /\ tunnelLines' \in [Conns -> Seq(TunnelLine)]
  BY <1>1, <1>5 DEF LinesInv, Connects, Spoiled, Accounted
<1>6. UNCHANGED stage => Arrived' = Arrived
  BY DEF Arrived
<1>7. CASE Opens(c)
  <2>1. tunnel[c] = "none" /\ tunnel' = [tunnel EXCEPT ![c] = "hijack"] /\ UNCHANGED <<tunnelLines, upgrades, stage>>
    BY <1>7 DEF Opens, Goto, OnlyCounts
  <2>2. c \notin Begun /\ Begun' = Begun \cup {c} /\ Opening' = Opening /\ Forwarded' = Forwarded
    BY <1>1, <2>1 DEF Begun, Opening, Forwarded
  <2>3. IsFiniteSet(Begun') /\ Cardinality(Begun') = Cardinality(Begun) + 1
    BY <1>1, <2>2, OneMore
  <2>4. counters'["requests"] = counters["requests"] + 1 /\ counters'["upgraded"] = counters["upgraded"]
    BY <1>7, CountOf DEF Opens, OnlyCounts, Counters
  <2>5. LinesInv' /\ Spoiled' = Spoiled /\ Accounted' = Accounted /\ tunnelLines' \in [Conns -> Seq(TunnelLine)]
    BY <1>5, <2>1 DEF Stages
  <2>6. counters'["requests"] = upgrades' + Cardinality(Begun') + Cardinality(Arrived')
    BY <1>3, <1>4, <1>6, <2>1, <2>3, <2>4
  <2> QED BY <1>1, <1>3, <1>4, <2>1, <2>2, <2>3, <2>4, <2>5, <2>6 DEF CountsInv
<1>8. CASE Moves(c) \/ Splice(c)
  <2>1. PICK s \in Stages \ {"ended"} : tunnel' = [tunnel EXCEPT ![c] = s]
    BY <1>8 DEF Moves, Splice, Goto, Stages
  <2>2. /\ tunnel[c] # "ended"
        /\ UNCHANGED <<tunnelLines, upgrades, stage, counters>>
    BY <1>8 DEF Moves, Splice, KeepTurns, vars
  <2>3. Begun' = Begun /\ Opening' = Opening /\ Forwarded' = Forwarded
    <3>1. CASE Moves(c)
      BY <1>1, <3>1 DEF Moves, Goto, Upgrading, Begun, Opening, Forwarded
    <3>2. CASE Splice(c)
      BY <1>1, <3>2 DEF Splice, Goto, Begun, Opening, Forwarded
    <3> QED BY <1>8, <3>1, <3>2
  <2>4. LinesInv' /\ Spoiled' = Spoiled /\ Accounted' = Accounted /\ tunnelLines' \in [Conns -> Seq(TunnelLine)]
    BY <1>5, <2>1, <2>2
  <2> QED BY <1>1, <1>3, <1>4, <1>6, <2>2, <2>3, <2>4 DEF CountsInv
<1>9. CASE Upgrade(c)
  <2>1. /\ tunnel[c] = "serving" /\ tunnel' = [tunnel EXCEPT ![c] = "splicing"]
        /\ UNCHANGED <<tunnelLines, stage>> /\ upgrades' = upgrades + 1 /\ Count({"requests"})
    BY <1>9 DEF Upgrade, Goto
  <2>2. Begun' = Begun /\ Opening' = Opening \cup {c} /\ c \notin Opening /\ Forwarded' = Forwarded
    BY <1>1, <2>1 DEF Begun, Opening, Forwarded
  <2>3. Cardinality(Opening') = Cardinality(Opening) + 1
    BY <1>2, <2>2, OneMore
  <2>4. counters'["requests"] = counters["requests"] + 1 /\ counters'["upgraded"] = counters["upgraded"]
    BY <2>1, CountOf DEF Counters
  <2>5. LinesInv' /\ Spoiled' = Spoiled /\ Accounted' = Accounted /\ tunnelLines' \in [Conns -> Seq(TunnelLine)]
    BY <1>5, <2>1 DEF Stages
  <2>6. /\ Cardinality(Spoiled') = Cardinality(Spoiled) /\ Cardinality(Accounted') = Cardinality(Accounted)
        /\ Cardinality(Begun') = Cardinality(Begun) /\ Cardinality(Arrived') = Cardinality(Arrived)
        /\ Cardinality(Forwarded') = Cardinality(Forwarded)
    BY <1>6, <2>1, <2>2, <2>5
  <2>7. upgrades' = counters'["upgraded"] + Cardinality(Spoiled') + Cardinality(Opening') /\ upgrades' \in Nat
    BY <1>2, <1>3, <1>4, <2>1, <2>3, <2>4, <2>6
  <2>8. counters'["requests"] = upgrades' + Cardinality(Begun') + Cardinality(Arrived')
    BY <1>3, <1>4, <2>1, <2>4, <2>6
  <2> QED BY <1>1, <1>4, <2>2, <2>4, <2>5, <2>6, <2>7, <2>8 DEF CountsInv
<1>10. CASE ForwardUpgrade(c)
  <2>1. /\ tunnel[c] = "splicing" /\ tunnel' = [tunnel EXCEPT ![c] = "awaiting"]
        /\ UNCHANGED <<tunnelLines, upgrades, stage>> /\ Count({"upgraded"})
    BY <1>10 DEF ForwardUpgrade, Goto
  <2>2. /\ Begun' = Begun
        /\ Opening' = Opening \ {c} /\ c \in Opening
        /\ Forwarded' = Forwarded \cup {c} /\ c \notin Forwarded
    BY <1>1, <2>1 DEF Begun, Opening, Forwarded
  <2>3. Cardinality(Opening') = Cardinality(Opening) - 1 /\ Cardinality(Forwarded') = Cardinality(Forwarded) + 1
    BY <1>2, <2>2, OneMore, FS_RemoveElement
  <2>4. counters'["requests"] = counters["requests"] /\ counters'["upgraded"] = counters["upgraded"] + 1
    BY <2>1, CountOf DEF Counters
  <2>5. LinesInv' /\ Spoiled' = Spoiled /\ Accounted' = Accounted /\ tunnelLines' \in [Conns -> Seq(TunnelLine)]
    BY <1>5, <2>1 DEF Stages
  <2>6. /\ Cardinality(Spoiled') = Cardinality(Spoiled) /\ Cardinality(Accounted') = Cardinality(Accounted)
        /\ Cardinality(Begun') = Cardinality(Begun) /\ Cardinality(Arrived') = Cardinality(Arrived)
    BY <1>6, <2>1, <2>2, <2>5
  <2>7. /\ upgrades' = counters'["upgraded"] + Cardinality(Spoiled') + Cardinality(Opening')
        /\ counters'["upgraded"] = Cardinality(Accounted') + Cardinality(Forwarded')
    BY <1>2, <1>3, <1>4, <2>1, <2>3, <2>4, <2>6
  <2> QED BY <1>1, <1>3, <1>4, <2>1, <2>2, <2>4, <2>5, <2>6, <2>7 DEF CountsInv
<1>11. CASE Ends(c)
  <2> DEFINE n == Len(tunnelLines[c]) + 1
  <2>0. PICK failed \in BOOLEAN : failed = (tunnel[c] = "splicing")
    OBVIOUS
  <2>1. /\ tunnel[c] \in Upgrading /\ tunnel' = [tunnel EXCEPT ![c] = "served"]
        /\ UNCHANGED <<upgrades, stage, counters>>
        /\ tunnelLines' = [tunnelLines EXCEPT ![c] = Append(@, UpgradeLine(failed))]
    BY <1>11, <2>0 DEF Ends, LogUpgrade, Goto, vars
  <2>2. UpgradeLine(failed) \in TunnelLine /\ UpgradeLine(failed).kind = "upgrade"
    BY UpgradeLinesDiffer
  <2>3. /\ tunnelLines' \in [Conns -> Seq(TunnelLine)]
        /\ \A d \in Conns : Connects(d)' = Connects(d)
        /\ \A d \in Conns \ {c} : tunnelLines'[d] = tunnelLines[d]
    <3>1. /\ tunnelLines' \in [Conns -> Seq(TunnelLine)]
          /\ Connects(c)' = Connects(c) \cup (IF UpgradeLine(failed).kind = "connect" THEN {n} ELSE {})
          /\ \A d \in Conns \ {c} : tunnelLines'[d] = tunnelLines[d] /\ Connects(d)' = Connects(d)
      BY <1>1, <2>1, <2>2, OneLineMore
    <3> QED BY <2>2, <3>1
  <2>4. LinesInv'
    BY <1>1, <2>1, <2>3 DEF LinesInv, Upgrading
  <2>5. Begun' = Begun
    BY <1>1, <2>1 DEF Begun, Upgrading
  <2>6. \A other \in TunnelLine :
           /\ UpgradeLine(failed) = other => Places(tunnelLines', other) = Places(tunnelLines, other) \cup {<<c, n>>}
           /\ UpgradeLine(failed) # other => Places(tunnelLines', other) = Places(tunnelLines, other)
           /\ <<c, n>> \notin Places(tunnelLines, other)
    BY <1>1, <2>1, <2>2, OneLineMore
  <2>7. CASE failed
    <3>1. Opening' = Opening \ {c} /\ c \in Opening /\ Forwarded' = Forwarded
      BY <1>1, <2>0, <2>1, <2>7 DEF Opening, Forwarded
    <3>2. Accounted' = Accounted /\ Spoiled' = Spoiled \cup {<<c, n>>} /\ <<c, n>> \notin Spoiled
      BY <2>6, <2>7, UpgradeLinesDiffer DEF Accounted, Spoiled
    <3>3. IsFiniteSet(Spoiled') /\ Cardinality(Spoiled') = Cardinality(Spoiled) + 1
      BY <1>1, <3>2, OneMore
    <3>4. Cardinality(Opening') = Cardinality(Opening) - 1
      BY <1>2, <3>1, FS_RemoveElement
    <3>5. /\ Cardinality(Accounted') = Cardinality(Accounted) /\ Cardinality(Forwarded') = Cardinality(Forwarded)
          /\ Cardinality(Begun') = Cardinality(Begun) /\ Cardinality(Arrived') = Cardinality(Arrived)
      BY <1>6, <2>1, <2>5, <3>1, <3>2
    <3>6. CountsInv'
      BY <1>2, <1>3, <1>4, <2>1, <3>3, <3>4, <3>5 DEF CountsInv
    <3> QED BY <1>1, <1>3, <2>1, <2>3, <2>4, <2>5, <3>2, <3>3, <3>6
  <2>8. CASE ~failed
    <3>1. Opening' = Opening /\ Forwarded' = Forwarded \ {c} /\ c \in Forwarded
      BY <1>1, <2>0, <2>1, <2>8 DEF Opening, Forwarded, Upgrading
    <3>2. Spoiled' = Spoiled /\ Accounted' = Accounted \cup {<<c, n>>} /\ <<c, n>> \notin Accounted
      BY <2>6, <2>8, UpgradeLinesDiffer DEF Accounted, Spoiled
    <3>3. IsFiniteSet(Accounted') /\ Cardinality(Accounted') = Cardinality(Accounted) + 1
      BY <1>1, <3>2, OneMore
    <3>4. Cardinality(Forwarded') = Cardinality(Forwarded) - 1
      BY <1>2, <3>1, FS_RemoveElement
    <3>5. /\ Cardinality(Spoiled') = Cardinality(Spoiled) /\ Cardinality(Opening') = Cardinality(Opening)
          /\ Cardinality(Begun') = Cardinality(Begun) /\ Cardinality(Arrived') = Cardinality(Arrived)
      BY <1>6, <2>1, <2>5, <3>1, <3>2
    <3>6. counters'["upgraded"] = Cardinality(Accounted') + Cardinality(Forwarded')
      BY <1>2, <1>3, <1>4, <2>1, <3>3, <3>4
    <3>7. CountsInv'
      BY <1>4, <2>1, <3>5, <3>6 DEF CountsInv
    <3> QED BY <1>1, <1>3, <2>1, <2>3, <2>4, <2>5, <3>2, <3>3, <3>7
  <2> QED BY <2>7, <2>8
<1>12. CASE LogTunnel(c)
  <2>0. PICK line \in TunnelLine : line = [kind |-> "connect", refused |-> refused[c]]
    BY DEF TunnelLine, BooksTyped
  <2>1. /\ tunnel[c] = "closing" /\ tunnel' = [tunnel EXCEPT ![c] = "ended"]
        /\ tunnelLines' = [tunnelLines EXCEPT ![c] = Append(@, line)]
        /\ UNCHANGED <<upgrades, stage, counters>>
    BY <1>12, <2>0 DEF LogTunnel, Goto, KeepTurns, vars
  <2>2. Begun' = Begun /\ Opening' = Opening /\ Forwarded' = Forwarded
    BY <1>1, <2>1 DEF Begun, Opening, Forwarded
  <2>3. refused[c] \in BOOLEAN /\ line.kind = "connect"
    BY <2>0 DEF BooksTyped
  <2>4. /\ tunnelLines' \in [Conns -> Seq(TunnelLine)]
        /\ Connects(c)' = Connects(c) \cup {Len(tunnelLines[c]) + 1}
        /\ Len(tunnelLines'[c]) = Len(tunnelLines[c]) + 1
        /\ \A d \in Conns \ {c} : tunnelLines'[d] = tunnelLines[d] /\ Connects(d)' = Connects(d)
    BY <1>1, <2>1, <2>3, OneLineMore
  <2>5. \A other \in TunnelLine :
           /\ line = other => Places(tunnelLines', other) = Places(tunnelLines, other) \cup {<<c, Len(tunnelLines[c]) + 1>>}
           /\ line # other => Places(tunnelLines', other) = Places(tunnelLines, other)
           /\ <<c, Len(tunnelLines[c]) + 1>> \notin Places(tunnelLines, other)
    BY <1>1, <2>1, OneLineMore
  <2>6. Spoiled' = Spoiled /\ Accounted' = Accounted
    <3>1. line # UpgradeLine(TRUE) /\ line # UpgradeLine(FALSE)
      BY <2>0, <2>3, UpgradeLinesDiffer
    <3> QED BY <2>5, <3>1, UpgradeLinesDiffer DEF Spoiled, Accounted
  <2>7. Connects(c) = {}
    BY <2>1 DEF LinesInv
  <2>8. LinesInv'
    BY <1>1, <2>1, <2>4, <2>7 DEF LinesInv
  <2> QED BY <1>1, <1>3, <1>4, <1>6, <2>1, <2>2, <2>4, <2>6, <2>8 DEF CountsInv
<1> QED BY <1>7, <1>8, <1>9, <1>10, <1>11, <1>12 DEF OfTunnel

LEMMA StepKeepsBooks ==
    ASSUME LeafInv, TurnInv, counters \in [Counters -> Nat], BooksInv, TunnelNext
    PROVE  BooksInv'
<1> USE DEF BooksInv
<1>1. ReasonInv' /\ refused' \in [Conns -> BOOLEAN] /\ established' \in [Conns -> BOOLEAN]
      /\ copies' \in [Conns -> SUBSET Directions]
  BY StepKeepsReasons
<1>2. ASSUME NEW c \in Conns, OfTunnel(c) PROVE BooksInv'
  BY <1>1, <1>2, TunnelStepKeepsBooks DEF BooksTyped
<1>3. ASSUME UNCHANGED <<tunnel, tunnelLines, upgrades>>, TurnStep \/ UNCHANGED vars \/ AgentsLeave PROVE BooksInv'
  <2>1. /\ Begun' = Begun /\ Opening' = Opening /\ Forwarded' = Forwarded
        /\ Spoiled' = Spoiled /\ Accounted' = Accounted /\ LinesInv'
    BY <1>3 DEF Begun, Opening, Forwarded, Spoiled, Accounted, Places, LinesInv, Connects
  <2>2. /\ counters'["upgraded"] = counters["upgraded"]
        /\ counters'["requests"] = upgrades + Cardinality(Begun) + Cardinality(Arrived')
    <3>1. /\ counters["requests"] = upgrades + Cardinality(Begun) + Cardinality(Arrived)
          /\ upgrades \in Nat /\ IsFiniteSet(Begun)
      BY DEF CountsInv, BooksTyped
    <3>2. CASE UNCHANGED <<stage, counters>>
      BY <3>1, <3>2 DEF Arrived
    <3>3. CASE TurnStep
      <4>1. IsFiniteSet(Arrived)
        BY ConstantTypes, FS_Subset DEF Arrived
      <4>2. Cardinality(Arrived) \in Nat /\ Cardinality(Begun) \in Nat
        BY <3>1, <4>1, FS_CardinalityType
      <4>3. counters'["upgraded"] = counters["upgraded"]
        BY <3>3, ArrivalsCounted
      <4>4. CASE Arrived' = Arrived /\ counters'["requests"] = counters["requests"]
        BY <3>1, <4>3, <4>4
      <4>5. ASSUME NEW t \in Turns \ Arrived, Arrived' = Arrived \cup {t}, counters'["requests"] = counters["requests"] + 1
            PROVE  counters'["requests"] = upgrades + Cardinality(Begun) + Cardinality(Arrived')
        <5>1. Cardinality(Arrived') = Cardinality(Arrived) + 1
          BY <4>1, <4>5, OneMore
        <5> QED BY <3>1, <4>2, <4>5, <5>1
      <4> QED BY <3>3, <4>3, <4>4, <4>5, ArrivalsCounted
    <3> QED BY <1>3, <3>2, <3>3 DEF vars, AgentsLeave
  <2> QED BY <1>1, <1>3, <2>1, <2>2 DEF BooksTyped, CountsInv
<1> QED BY <1>2, <1>3, WhatBecomesOfTunnels DEF BooksTyped

LEMMA BooksStartSound == TunnelInit => BooksInv
<1> SUFFICES ASSUME TunnelInit PROVE BooksInv
  OBVIOUS
<1>1. /\ tunnel = [c \in Conns |-> "none"] /\ tunnelLines = [c \in Conns |-> <<>>] /\ upgrades = 0
      /\ refused = [c \in Conns |-> FALSE] /\ established = [c \in Conns |-> FALSE] /\ copies = [c \in Conns |-> {}]
      /\ stage = [t \in Turns |-> "idle"] /\ counters["requests"] = 0
      /\ counters["upgraded"] = 0
  BY DEF TunnelInit, Init, Counters
<1>2. Begun = {} /\ Opening = {} /\ Forwarded = {} /\ Arrived = {}
  BY <1>1 DEF Begun, Opening, Forwarded, Arrived
<1>3. <<>> \in Seq(TunnelLine) /\ Len(<<>>) = 0 /\ DOMAIN <<>> = {} /\ 1..0 = {}
  BY EmptySeq
<1>4. Spoiled = {} /\ Accounted = {} /\ \A c \in Conns : Connects(c) = {}
  BY <1>1, <1>3 DEF Spoiled, Accounted, Places, Connects
<1>5. IsFiniteSet({}) /\ Cardinality({}) = 0
  BY FS_EmptySet
<1>6. LinesInv
  BY <1>1, <1>4 DEF LinesInv
<1>7. ReasonInv
  BY <1>1 DEF ReasonInv
<1>8. BooksTyped
  BY <1>1, <1>2, <1>3, <1>4, <1>5 DEF BooksTyped, Directions
<1>9. CountsInv
  <2>1. /\ Cardinality(Spoiled) = 0 /\ Cardinality(Accounted) = 0 /\ Cardinality(Opening) = 0
        /\ Cardinality(Forwarded) = 0 /\ Cardinality(Begun) = 0 /\ Cardinality(Arrived) = 0
    BY <1>2, <1>4, <1>5
  <2> QED BY <1>1, <2>1 DEF CountsInv
<1> QED BY <1>6, <1>7, <1>8, <1>9 DEF BooksInv

LEMMA BooksAddUp ==
    BooksInv /\ LeafInv /\ OutcomesAddUp => TurnsAndTunnelsAddUp
<1> SUFFICES ASSUME BooksInv, LeafInv, OutcomesAddUp PROVE TurnsAndTunnelsAddUp
  OBVIOUS
<1>1. \A c \in Conns : tunnel[c] = "closing" => refused[c] = ~established[c]
  BY DEF BooksInv, ReasonInv
<1>2. ASSUME NEW c \in Conns
      PROVE  Cardinality({i \in DOMAIN tunnelLines[c] : tunnelLines[c][i].kind = "connect"})
                = (IF tunnel[c] = "ended" THEN 1 ELSE 0)
  <2>1. Connects(c) = IF tunnel[c] = "ended" THEN {Len(tunnelLines[c])} ELSE {}
    BY DEF BooksInv, LinesInv
  <2>2. Cardinality({}) = 0 /\ Cardinality({Len(tunnelLines[c])}) = 1
    BY FS_EmptySet, FS_Singleton
  <2> QED BY <2>1, <2>2 DEF Connects
<1> QED BY <1>1, <1>2 DEF BooksInv, CountsInv, TurnsAndTunnelsAddUp, Begun, Opening, Forwarded, Spoiled,
        Accounted, Places, Logged, Arrived

\* Every turn, tunnel and upgrade ends in one line of its own: a tunnel's has a reason
\* exactly if its client could not use it, an upgrade's exactly if its request did not
\* reach the backend, and the others are those that were counted as upgraded.  Every
\* request is counted once: the CONNECT, the upgrade, the turn (handleConnect,
\* spliceUpgrade, logTunnel, ServeHTTP).
THEOREM SessionWithTunnelsAddsUp == TunnelSpec => []TurnsAndTunnelsAddUp
<1>1. TunnelInit => BooksInv /\ LeafInv
  <2>1. TunnelInit => LeafInv
    BY DEF TunnelInit, LeafInv, Stages, NoLeaf
  <2> QED BY <2>1, BooksStartSound
<1>2. BooksInv /\ LeafInv /\ CacheInv /\ TurnInv /\ OutcomeInv /\ [TunnelNext]_allVars => BooksInv'
  <2>1. ASSUME BooksInv, UNCHANGED allVars PROVE BooksInv'
    BY <2>1 DEF allVars, vars, tunnelVars, BooksInv, BooksTyped, ReasonInv, LinesInv, CountsInv, Connects, Places,
           Begun, Opening, Forwarded, Spoiled, Accounted, Arrived
  <2> QED BY <2>1, StepKeepsBooks DEF OutcomeInv
<1>3. BooksInv /\ LeafInv /\ TurnInv /\ OutcomeInv => TurnsAndTunnelsAddUp
  BY BooksAddUp, InvAddsUp
<1> QED BY <1>1, <1>2, <1>3, TurnsOfTunnelsSound, TunnelsSound, PTL DEF TunnelSpec
=============================================================================
