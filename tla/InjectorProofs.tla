--------------------------- MODULE InjectorProofs ---------------------------
(***************************************************************************)
(* Theorems about Injector, for any number of turns, intents and memories, *)
(* any scores and any settings of the clocks.                              *)
(***************************************************************************)
EXTENDS Injector, FiniteSetTheorems, TLAPS

\* The assumption on the constants, by parts.
LEMMA ConstantTypes ==
    /\ NoTurn \notin Turns /\ NoQuery \notin Queries
    /\ DefaultGate \in Nat /\ RetryInterval \in Nat /\ MaxAttempts \in Nat
    /\ IntentTTL \in Nat /\ NegativeTTL \in Nat /\ JudgeTicks \in Nat
    /\ \A q \in Queries, m \in Memories : Cosine[q][m] \in Nat
BY InjectorAssumption

Labels == {"new", "session", "fetching", "consult", "reuse", "skip", "recall", "reusing",
           "recalling", "recalled", "gating", "judging", "vetted", "enriched", "done"}

-----------------------------------------------------------------------------
(***************************************************************************)
(* Types                                                                   *)
(***************************************************************************)

\* A step of a turn keeps the locals of every Enrich call typed, and a turn
\* searches only with a query.
LEMMA StepKeepsTurns ==
    ASSUME TurnsTyped, NEW t \in Turns, Step(t)
    PROVE  TurnsTyped'
<1> USE DEF TurnsTyped, At, Goto
<1>1. CASE EnterSession(t)
  BY <1>1 DEF EnterSession, AfterSession
<1>2. ASSUME NEW found \in BOOLEAN, FetchReturns(t, found) PROVE TurnsTyped'
  BY <1>2 DEF FetchReturns, AfterSession
<1>3. CASE Consult(t)
  BY <1>3 DEF Consult
<1>4. CASE ReadGate(t)
  BY <1>4 DEF ReadGate
<1>5. CASE Reuse(t)
  BY <1>5 DEF Reuse
<1>6. ASSUME NEW R \in SUBSET Memories, RecallReturns(t, R) PROVE TurnsTyped'
  BY <1>6 DEF RecallReturns
<1>7. CASE RecallFails(t)
  BY <1>7 DEF RecallFails, Return
<1>8. CASE Merge(t)
  BY <1>8 DEF Merge
<1>9. CASE Gate(t)
  BY <1>9 DEF Gate
<1>10. ASSUME NEW rejected, Ground(t, rejected) PROVE TurnsTyped'
  BY <1>10 DEF Ground
<1>11. CASE Remember(t)
  BY <1>11 DEF Remember
<1>12. CASE Inject(t)
  BY <1>12 DEF Inject, Return
<1> QED BY <1>1, <1>2, <1>3, <1>4, <1>5, <1>6, <1>7, <1>8, <1>9, <1>10, <1>11, <1>12 DEF Step

\* Restricting the window, as the judge's rejections do, keeps it typed.
LEMMA RestrictedWindow ==
    ASSUME NEW rejected
    PROVE  /\ DOMAIN WindowWithout(rejected) \subseteq DOMAIN window
           /\ \A m \in DOMAIN WindowWithout(rejected) : WindowWithout(rejected)[m] = window[m]
BY DEF WindowWithout, Restrict

\* A step of a turn keeps the window, the gate and the cache typed.
LEMMA StepKeepsCache ==
    ASSUME TurnsTyped, CacheTyped, now \in Nat, NEW t \in Turns, Step(t)
    PROVE  CacheTyped'
<1> USE DEF CacheTyped, windowVars, gateVars, cacheVars
<1>1. CASE EnterSession(t)
  BY <1>1 DEF EnterSession
<1>2. ASSUME NEW found \in BOOLEAN, FetchReturns(t, found) PROVE CacheTyped'
  BY <1>2 DEF FetchReturns
<1>3. CASE Consult(t)
  BY <1>3 DEF Consult
<1>4. CASE ReadGate(t)
  BY <1>4 DEF ReadGate
<1>5. CASE Reuse(t)
  BY <1>5 DEF Reuse
<1>6. ASSUME NEW R \in SUBSET Memories, RecallReturns(t, R) PROVE CacheTyped'
  <2>1. minScore' \in Gates \/ minScore' = minScore
    BY <1>6 DEF RecallReturns, Observe
  <2>2. UNCHANGED <<windowVars, cacheVars, now>>
    BY <1>6 DEF RecallReturns
  <2> QED BY <2>1, <2>2
<1>7. CASE RecallFails(t)
  BY <1>7 DEF RecallFails
<1>8. CASE Merge(t)
  <2>1. /\ turn' = turn + 1 /\ turn' \in Nat /\ turn' \in 1 .. turn'
        /\ window' = Merged(window, asks[t], recalled[t], turn')
        /\ UNCHANGED <<gateVars, cacheVars, now>>
    BY <1>8 DEF Merge
  <2>2. asks[t] \in Queries /\ recalled[t] \subseteq Memories
    BY <1>8 DEF Merge, At, TurnsTyped
  <2>3. DOMAIN window' \subseteq recalled[t] \cup DOMAIN window
    BY <2>1 DEF Merged
  <2>4. ASSUME NEW m \in DOMAIN window' PROVE window'[m] \in [score : Nat, seen : 1 .. turn']
    <3>1. CASE m \in recalled[t]
      <4>1. window'[m] = [score |-> Cosine[asks[t]][m], seen |-> turn']
        BY <2>1, <3>1, <2>4 DEF Merged
      <4> QED BY <4>1, <3>1, <2>1, <2>2, ConstantTypes
    <3>2. CASE m \notin recalled[t]
      <4>1. window'[m] = window[m] /\ m \in DOMAIN window
        BY <2>1, <3>2, <2>4 DEF Merged
      <4> QED BY <4>1, <2>1
    <3> QED BY <3>1, <3>2
  <2> QED BY <2>1, <2>2, <2>3, <2>4
<1>9. CASE Gate(t)
  BY <1>9 DEF Gate
<1>10. ASSUME NEW rejected, Ground(t, rejected) PROVE CacheTyped'
  <2>1. window' = WindowWithout(rejected) /\ UNCHANGED <<turn, gateVars, cacheVars, now>>
    BY <1>10 DEF Ground
  <2> QED BY <2>1, RestrictedWindow
<1>11. CASE Remember(t)
  <2>1. asks[t] \in Queries
    BY <1>11 DEF Remember, At, TurnsTyped
  <2>2. /\ lastQuery' = asks[t] /\ lastQueryAt' = now
        /\ lastWasEmpty' = (DOMAIN window = {})
        /\ lastEmptyAt' \in {now, lastEmptyAt}
        /\ UNCHANGED <<windowVars, gateVars, now>>
    BY <1>11 DEF Remember
  <2> QED BY <2>1, <2>2
<1>12. CASE Inject(t)
  BY <1>12 DEF Inject
<1> QED BY <1>1, <1>2, <1>3, <1>4, <1>5, <1>6, <1>7, <1>8, <1>9, <1>10, <1>11, <1>12 DEF Step

-----------------------------------------------------------------------------
(***************************************************************************)
(* The session start                                                       *)
(*                                                                         *)
(* sessionMu is held exactly by the turn that fetches, which stays due as  *)
(* long as it fetches; the context goes to at most one turn because until  *)
(* it is settled there is none, and taking it clears it.                   *)
(***************************************************************************)

LockInv ==
    /\ sessionMu \in Turns \cup {NoTurn}
    /\ \A t \in Turns : At(t, "fetching") <=> sessionMu = t

DueInv ==
    /\ now \in Nat /\ attempts \in Nat /\ fetchedAt \in Int
    /\ attempts <= MaxAttempts
    /\ retryAfter = fetchedAt + RetryInterval /\ retryAfter \in Nat
    /\ sessionMu # NoTurn => ~settled /\ attempts < MaxAttempts /\ now >= retryAfter

ContextInv ==
    /\ settled \in BOOLEAN /\ sessionCtx \in BOOLEAN
    /\ contextTo \subseteq Turns
    /\ ~settled => ~sessionCtx /\ contextTo = {}
    /\ sessionCtx => contextTo = {}
    /\ settled /\ ~sessionCtx => \E t \in Turns : contextTo = {t}

SessionInv == LockInv /\ DueInv /\ ContextInv

\* The steps that have no part in the session start leave all of it alone.
LEMMA OtherStepsKeepSession ==
    ASSUME TurnsTyped, SessionInv, NEW t \in Turns,
           UNCHANGED <<sessionVars, now, fetchedAt, contextTo>>,
           ~At(t, "fetching"),
           NEW l \in Labels \ {"fetching"}, pc' = [pc EXCEPT ![t] = l]
    PROVE  SessionInv'
<1>1. \A s \in Turns : At(s, "fetching")' <=> At(s, "fetching")
  BY DEF TurnsTyped, At
<1>2. LockInv'
  BY <1>1 DEF SessionInv, LockInv, sessionVars
<1>3. DueInv'
  BY DEF SessionInv, DueInv, sessionVars
<1>4. ContextInv'
  BY DEF SessionInv, ContextInv, sessionVars
<1> QED BY <1>2, <1>3, <1>4 DEF SessionInv

\* After the session start the turn is done or goes on to the cache.
LEMMA AfterSessionGoesOn ==
    ASSUME NEW t \in Turns, AfterSession(t)
    PROVE  \E l \in Labels \ {"fetching"} : pc' = [pc EXCEPT ![t] = l]
<1>1. CASE asks[t] = NoQuery
  <2>1. pc' = [pc EXCEPT ![t] = "done"]
    BY <1>1 DEF AfterSession, Goto
  <2> QED BY <2>1 DEF Labels
<1>2. CASE asks[t] # NoQuery
  <2>1. pc' = [pc EXCEPT ![t] = "consult"]
    BY <1>2 DEF AfterSession, Goto
  <2> QED BY <2>1 DEF Labels
<1> QED BY <1>1, <1>2

\* The lock is taken when it is free, and kept only for a fetch that is due.
LEMMA EnterKeepsSession ==
    ASSUME TurnsTyped, SessionInv, NEW t \in Turns, EnterSession(t)
    PROVE  SessionInv'
<1>1. /\ At(t, "session") /\ sessionMu = NoTurn
      /\ UNCHANGED <<attempts, retryAfter, settled, sessionCtx, now, fetchedAt, contextTo>>
  BY DEF EnterSession, SessionLockFree, history
<1>2. CASE FetchDue /\ Goto(t, "fetching") /\ sessionMu' = t
  <2>1. \A s \in Turns : At(s, "fetching")' <=> s = t
    BY <1>1, <1>2, ConstantTypes DEF TurnsTyped, At, Goto, SessionInv, LockInv
  <2>2. LockInv'
    BY <1>2, <2>1 DEF LockInv
  <2>3. DueInv'
    BY <1>1, <1>2 DEF FetchDue, SessionInv, DueInv
  <2>4. ContextInv'
    BY <1>1 DEF SessionInv, ContextInv
  <2> QED BY <2>2, <2>3, <2>4 DEF SessionInv
<1>3. CASE AfterSession(t) /\ UNCHANGED sessionMu
  <2>1. \E l \in Labels \ {"fetching"} : pc' = [pc EXCEPT ![t] = l]
    BY <1>3, AfterSessionGoesOn
  <2>2. ~At(t, "fetching") /\ UNCHANGED <<sessionVars, now, fetchedAt, contextTo>>
    BY <1>1, <1>3 DEF At, sessionVars
  <2> QED BY <2>1, <2>2, OtherStepsKeepSession
<1> QED BY <1>2, <1>3 DEF EnterSession

\* A fetch that returns frees the lock, and settles the context if it found one.
LEMMA FetchKeepsSession ==
    ASSUME TurnsTyped, SessionInv, NEW t \in Turns, NEW found \in BOOLEAN, FetchReturns(t, found)
    PROVE  SessionInv'
<1>1. /\ sessionMu = t /\ sessionMu # NoTurn /\ ~settled /\ ~sessionCtx /\ contextTo = {}
      /\ \A s \in Turns : At(s, "fetching") => s = t
  BY ConstantTypes DEF FetchReturns, SessionInv, LockInv, DueInv, ContextInv
<1>2. \E l \in Labels \ {"fetching"} : pc' = [pc EXCEPT ![t] = l]
  BY AfterSessionGoesOn DEF FetchReturns
<1>3. \A s \in Turns : ~At(s, "fetching")'
  BY <1>1, <1>2 DEF TurnsTyped, At
<1>4. sessionMu' = NoTurn
  BY DEF FetchReturns
<1>5. LockInv'
  BY <1>3, <1>4, ConstantTypes DEF LockInv
<1>6. DueInv'
  <2>1. /\ attempts' = attempts + 1 /\ retryAfter' = now + RetryInterval
        /\ fetchedAt' = now /\ now' = now
    BY DEF FetchReturns
  <2> QED BY <1>1, <1>4, <2>1, ConstantTypes DEF SessionInv, DueInv
<1>7. ContextInv'
  <2>1. settled' = found /\ sessionCtx' = found /\ contextTo' = contextTo
    BY <1>1 DEF FetchReturns, SessionInv, ContextInv
  <2> QED BY <1>1, <2>1 DEF ContextInv
<1> QED BY <1>5, <1>6, <1>7 DEF SessionInv

\* The turn that finds the context takes it, and no other has.
LEMMA InjectKeepsSession ==
    ASSUME TurnsTyped, SessionInv, NEW t \in Turns, Inject(t)
    PROVE  SessionInv'
<1>1. /\ At(t, "enriched") /\ sessionCtx' = FALSE
      /\ contextTo' = IF sessionCtx THEN contextTo \cup {t} ELSE contextTo
      /\ UNCHANGED <<sessionMu, attempts, retryAfter, settled, now, fetchedAt>>
      /\ pc' = [pc EXCEPT ![t] = "done"]
  BY DEF Inject, ContextTaken, Return, Goto
<1>2. \A s \in Turns : At(s, "fetching")' <=> At(s, "fetching")
  BY <1>1 DEF TurnsTyped, At
<1>3. LockInv'
  BY <1>1, <1>2 DEF SessionInv, LockInv
<1>4. DueInv'
  BY <1>1 DEF SessionInv, DueInv
<1>5. ContextInv'
  <2>1. CASE sessionCtx
    <3>1. contextTo' = {t} /\ settled
      BY <1>1, <2>1 DEF SessionInv, ContextInv
    <3> QED BY <1>1, <3>1 DEF SessionInv, ContextInv
  <2>2. CASE ~sessionCtx
    BY <1>1, <2>2 DEF SessionInv, ContextInv
  <2> QED BY <2>1, <2>2
<1> QED BY <1>3, <1>4, <1>5 DEF SessionInv

\* Every step of a turn keeps the session start in order.
LEMMA StepKeepsSession ==
    ASSUME TurnsTyped, SessionInv, NEW t \in Turns, Step(t)
    PROVE  SessionInv'
<1> USE DEF At, Goto, Labels, history
<1>1. CASE EnterSession(t)
  BY <1>1, EnterKeepsSession
<1>2. ASSUME NEW found \in BOOLEAN, FetchReturns(t, found) PROVE SessionInv'
  BY <1>2, FetchKeepsSession
<1>3. CASE Consult(t)
  BY <1>3, OtherStepsKeepSession DEF Consult
<1>4. CASE ReadGate(t)
  BY <1>4, OtherStepsKeepSession DEF ReadGate
<1>5. CASE Reuse(t)
  BY <1>5, OtherStepsKeepSession DEF Reuse
<1>6. ASSUME NEW R \in SUBSET Memories, RecallReturns(t, R) PROVE SessionInv'
  BY <1>6, OtherStepsKeepSession DEF RecallReturns
<1>7. CASE RecallFails(t)
  BY <1>7, OtherStepsKeepSession DEF RecallFails, Return
<1>8. CASE Merge(t)
  BY <1>8, OtherStepsKeepSession DEF Merge
<1>9. CASE Gate(t)
  BY <1>9, OtherStepsKeepSession DEF Gate
<1>10. ASSUME NEW rejected, Ground(t, rejected) PROVE SessionInv'
  BY <1>10, OtherStepsKeepSession DEF Ground
<1>11. CASE Remember(t)
  BY <1>11, OtherStepsKeepSession DEF Remember
<1>12. CASE Inject(t)
  BY <1>12, InjectKeepsSession
<1> QED BY <1>1, <1>2, <1>3, <1>4, <1>5, <1>6, <1>7, <1>8, <1>9, <1>10, <1>11, <1>12 DEF Step
-----------------------------------------------------------------------------
(***************************************************************************)
(* The window and the last-query cache                                     *)
(***************************************************************************)

\* A merge leaves what was just recalled and what has not faded.
LEMMA StepKeepsWindowLive ==
    ASSUME TurnsTyped, CacheTyped, WindowIsLive, NEW t \in Turns, Step(t)
    PROVE  WindowIsLive'
<1> USE DEF WindowIsLive, windowVars
<1>1. CASE EnterSession(t)
  BY <1>1 DEF EnterSession
<1>2. ASSUME NEW found \in BOOLEAN, FetchReturns(t, found) PROVE WindowIsLive'
  BY <1>2 DEF FetchReturns
<1>3. CASE Consult(t)
  BY <1>3 DEF Consult
<1>4. CASE ReadGate(t)
  BY <1>4 DEF ReadGate
<1>5. CASE Reuse(t)
  BY <1>5 DEF Reuse
<1>6. ASSUME NEW R \in SUBSET Memories, RecallReturns(t, R) PROVE WindowIsLive'
  BY <1>6 DEF RecallReturns
<1>7. CASE RecallFails(t)
  BY <1>7 DEF RecallFails
<1>8. CASE Merge(t)
  <2>1. window' = Merged(window, asks[t], recalled[t], turn')
    BY <1>8 DEF Merge
  <2>2. ASSUME NEW m \in DOMAIN window'
        PROVE  \/ window'[m].seen = turn'
               \/ Clears(window'[m].score, turn' - window'[m].seen, DecayFloor)
    <3>1. CASE m \in recalled[t]
      BY <2>1, <2>2, <3>1 DEF Merged
    <3>2. CASE m \notin recalled[t]
      <4>1. m \in DOMAIN window /\ Unfaded(window, m, turn') /\ window'[m] = window[m]
        BY <2>1, <2>2, <3>2 DEF Merged
      <4> QED BY <4>1 DEF Unfaded
    <3> QED BY <3>1, <3>2
  <2> QED BY <2>2
<1>9. CASE Gate(t)
  BY <1>9 DEF Gate
<1>10. ASSUME NEW rejected, Ground(t, rejected) PROVE WindowIsLive'
  <2>1. window' = WindowWithout(rejected) /\ turn' = turn
    BY <1>10 DEF Ground
  <2> QED BY <2>1, RestrictedWindow
<1>11. CASE Remember(t)
  BY <1>11 DEF Remember
<1>12. CASE Inject(t)
  BY <1>12 DEF Inject
<1> QED BY <1>1, <1>2, <1>3, <1>4, <1>5, <1>6, <1>7, <1>8, <1>9, <1>10, <1>11, <1>12 DEF Step

\* A turn enters its intent in the cache at most a judge's timeout after its
\* recall was answered, so the age of the cache bounds the age of the answer.
FreshInv ==
    /\ DOMAIN repliedAt = Turns /\ DOMAIN lastRecall = Queries
    /\ \A t \in Turns : Recalling(t) => repliedAt[t] \in 0 .. now /\ now - repliedAt[t] <= JudgeTicks
    /\ lastQuery # NoQuery => /\ lastRecall[lastQuery].at \in Int
                              /\ lastQueryAt - lastRecall[lastQuery].at <= JudgeTicks

\* The steps that neither answer a recall nor enter it in the cache.
LEMMA OtherStepsKeepFresh ==
    ASSUME TurnsTyped, FreshInv, NEW t \in Turns,
           UNCHANGED <<repliedAt, lastRecall, lastQuery, lastQueryAt, now>>,
           NEW l \in Labels, pc' = [pc EXCEPT ![t] = l],
           Recalling(t)' => Recalling(t)
    PROVE  FreshInv'
<1>1. \A s \in Turns : Recalling(s)' => Recalling(s)
  BY DEF TurnsTyped, Recalling
<1> QED BY <1>1 DEF FreshInv

\* Every step of a turn keeps the answers as young as their entries say.
LEMMA StepKeepsFresh ==
    ASSUME TurnsTyped, CacheTyped, now \in Nat, FreshInv, NEW t \in Turns, Step(t)
    PROVE  FreshInv'
<1> USE DEF At, Goto, Labels, history, cacheVars
<1>1. CASE EnterSession(t)
  <2>1. \E l \in {"fetching", "done", "consult"} : pc' = [pc EXCEPT ![t] = l]
    BY <1>1 DEF EnterSession, AfterSession
  <2>2. ~Recalling(t)'
    BY <2>1 DEF Recalling, TurnsTyped
  <2> QED BY <1>1, <2>1, <2>2, OtherStepsKeepFresh DEF EnterSession
<1>2. ASSUME NEW found \in BOOLEAN, FetchReturns(t, found) PROVE FreshInv'
  <2>1. \E l \in {"done", "consult"} : pc' = [pc EXCEPT ![t] = l]
    BY <1>2 DEF FetchReturns, AfterSession
  <2>2. ~Recalling(t)'
    BY <2>1 DEF Recalling, TurnsTyped
  <2> QED BY <1>2, <2>1, <2>2, OtherStepsKeepFresh DEF FetchReturns
<1>3. CASE Consult(t)
  BY <1>3, OtherStepsKeepFresh DEF Consult, Recalling, TurnsTyped
<1>4. CASE ReadGate(t)
  BY <1>4, OtherStepsKeepFresh DEF ReadGate, Recalling, TurnsTyped
<1>5. CASE Reuse(t)
  BY <1>5, OtherStepsKeepFresh DEF Reuse, Recalling, TurnsTyped
<1>6. ASSUME NEW R \in SUBSET Memories, RecallReturns(t, R) PROVE FreshInv'
  <2>1. /\ repliedAt' = [repliedAt EXCEPT ![t] = now]
        /\ pc' = [pc EXCEPT ![t] = "recalled"]
        /\ UNCHANGED <<lastRecall, lastQuery, lastQueryAt, now>>
    BY <1>6 DEF RecallReturns
  <2>2. \A s \in Turns \ {t} : (Recalling(s)' <=> Recalling(s)) /\ repliedAt'[s] = repliedAt[s]
    BY <2>1 DEF Recalling, TurnsTyped, FreshInv
  <2>3. repliedAt'[t] = now /\ DOMAIN repliedAt' = Turns
    BY <2>1 DEF FreshInv
  <2>4. now - now <= JudgeTicks /\ now \in 0 .. now
    BY ConstantTypes
  <2>5. \A s \in Turns : Recalling(s)' =>
           repliedAt'[s] \in 0 .. now /\ now - repliedAt'[s] <= JudgeTicks
    BY <2>2, <2>3, <2>4 DEF FreshInv
  <2> QED BY <2>1, <2>3, <2>5 DEF FreshInv
<1>7. CASE RecallFails(t)
  BY <1>7, OtherStepsKeepFresh DEF RecallFails, Return, Recalling, TurnsTyped
<1>8. CASE Merge(t)
  BY <1>8, OtherStepsKeepFresh DEF Merge, Recalling, TurnsTyped
<1>9. CASE Gate(t)
  <2>1. Recalling(t)
    BY <1>9 DEF Gate, Recalling
  <2>2. \E l \in {"judging", "vetted"} : pc' = [pc EXCEPT ![t] = l]
    BY <1>9 DEF Gate
  <2> QED BY <1>9, <2>1, <2>2, OtherStepsKeepFresh DEF Gate
<1>10. ASSUME NEW rejected, Ground(t, rejected) PROVE FreshInv'
  BY <1>10, OtherStepsKeepFresh DEF Ground, Recalling, TurnsTyped
<1>11. CASE Remember(t)
  <2>1. /\ repliedAt' = [repliedAt EXCEPT ![t] = 0]
        /\ pc' = [pc EXCEPT ![t] = "enriched"]
        /\ lastQuery' = asks[t] /\ lastQueryAt' = now /\ now' = now
        /\ lastRecall' = [lastRecall EXCEPT ![asks[t]] =
                             [found |-> DOMAIN merged[t], at |-> repliedAt[t]]]
    BY <1>11 DEF Remember
  <2>2. asks[t] \in Queries /\ Recalling(t)
    BY <1>11 DEF Remember, TurnsTyped, Recalling
  <2>3. \A s \in Turns : Recalling(s)' => Recalling(s) /\ repliedAt'[s] = repliedAt[s]
    BY <2>1 DEF Recalling, TurnsTyped, FreshInv
  <2>4. lastRecall'[lastQuery'].at = repliedAt[t] /\ DOMAIN lastRecall' = Queries
    BY <2>1, <2>2 DEF FreshInv
  <2>5. DOMAIN repliedAt' = Turns
    BY <2>1 DEF FreshInv
  <2>6. lastRecall'[lastQuery'].at \in Int /\ lastQueryAt' - lastRecall'[lastQuery'].at <= JudgeTicks
    BY <2>1, <2>2, <2>4 DEF FreshInv
  <2>7. \A s \in Turns : Recalling(s)' =>
           repliedAt'[s] \in 0 .. now' /\ now' - repliedAt'[s] <= JudgeTicks
    BY <2>1, <2>3 DEF FreshInv
  <2> QED BY <2>4, <2>5, <2>6, <2>7 DEF FreshInv
<1>12. CASE Inject(t)
  BY <1>12, OtherStepsKeepFresh DEF Inject, Return, Recalling, TurnsTyped
<1> QED BY <1>1, <1>2, <1>3, <1>4, <1>5, <1>6, <1>7, <1>8, <1>9, <1>10, <1>11, <1>12 DEF Step
-----------------------------------------------------------------------------
(***************************************************************************)
(* Enrich calls that come one at a time                                    *)
(*                                                                         *)
(* A call that runs alone finds the window as it left it: what it merged   *)
(* is still there, less what the judge rejected.  So the window holds      *)
(* nothing that was rejected for the intent that is in the cache, and an   *)
(* empty window means an empty recall.                                     *)
(***************************************************************************)
Merging(t) == pc[t] \in {"gating", "judging", "vetted"}

AloneInv ==
    /\ \A s, t \in InFlight : s = t
    /\ lastQuery # NoQuery /\ lastWasEmpty => lastRecall[lastQuery].found = {}
    /\ lastQuery # NoQuery /\ (\A t \in Turns : ~Merging(t)) =>
          DOMAIN window \cap RejectedFor(lastQuery) = {}
    /\ \A t \in Turns : At(t, "recalled") => RejectedFor(asks[t]) = {}
    /\ \A t \in Turns : Merging(t) => /\ DOMAIN window \cap RejectedFor(asks[t]) = {}
                                      /\ DOMAIN merged[t] \subseteq DOMAIN window
    /\ \A t \in Turns : pc[t] \in {"reuse", "reusing"} =>
          lastQuery # NoQuery /\ SameIntent(asks[t], lastQuery)

VettedInv ==
    /\ DOMAIN merged = Turns
    /\ lastQuery # NoQuery /\ lastWasEmpty => lastEmptyAt = lastQueryAt
    /\ ~overlapped => AloneInv

\* While calls come one at a time, the others have not begun or are over.
LEMMA OthersIdle ==
    ASSUME AloneInv, NEW t \in Turns, pc[t] \notin {"new", "done"}
    PROVE  \A s \in Turns : s # t => pc[s] \in {"new", "done"}
BY DEF AloneInv, InFlight

\* The steps that touch neither the window nor the cache.
LEMMA OtherStepsKeepAlone ==
    ASSUME TurnsTyped, AloneInv, NEW t \in Turns, pc[t] \notin {"new", "done"}, ~Merging(t),
           UNCHANGED <<asks, window, lastQuery, lastWasEmpty, lastRecall, rejectedFor>>,
           NEW l \in Labels, pc' = [pc EXCEPT ![t] = l],
           l \notin {"recalled", "gating", "judging", "vetted"},
           l \in {"reuse", "reusing"} => lastQuery # NoQuery /\ SameIntent(asks[t], lastQuery)
    PROVE  AloneInv'
<1>1. \A s \in Turns : s # t => pc[s] \in {"new", "done"}
  BY OthersIdle
<1>2. pc'[t] = l /\ \A s \in Turns : s # t => pc'[s] \in {"new", "done"}
  BY <1>1 DEF TurnsTyped
<1>3. \A s \in Turns : ~Merging(s) /\ ~Merging(s)' /\ ~At(s, "recalled")'
  BY <1>1, <1>2 DEF Merging, At
<1>4. (\A r, s \in InFlight : r = s)'
  BY <1>2 DEF InFlight
<1>5. lastQuery # NoQuery => DOMAIN window \cap RejectedFor(lastQuery) = {}
  BY <1>3 DEF AloneInv
<1>6. RejectedFor(lastQuery)' = RejectedFor(lastQuery)
  BY DEF RejectedFor
<1>7. \A s \in Turns : pc'[s] \in {"reuse", "reusing"} =>
         lastQuery # NoQuery /\ SameIntent(asks[s], lastQuery)
  BY <1>2
<1>8. lastQuery # NoQuery /\ lastWasEmpty => lastRecall[lastQuery].found = {}
  BY DEF AloneInv
<1> QED BY <1>3, <1>4, <1>5, <1>6, <1>7, <1>8 DEF AloneInv, SameIntent

\* Returning frees the locals of a call and touches nothing shared.
LEMMA ReturnKeepsAlone ==
    ASSUME TurnsTyped, AloneInv, NEW t \in Turns, pc[t] \notin {"new", "done"}, ~Merging(t),
           UNCHANGED <<window, lastQuery, lastWasEmpty, lastRecall, rejectedFor>>,
           pc' = [pc EXCEPT ![t] = "done"]
    PROVE  AloneInv'
<1>1. \A s \in Turns : s # t => pc[s] \in {"new", "done"}
  BY OthersIdle
<1>2. \A s \in Turns : pc'[s] \in {"new", "done"}
  BY <1>1 DEF TurnsTyped
<1>3. \A s \in Turns : ~Merging(s) /\ ~Merging(s)' /\ ~At(s, "recalled")'
  BY <1>1, <1>2 DEF Merging, At
<1>4. (\A r, s \in InFlight : r = s)'
  BY <1>2 DEF InFlight
<1>5. lastQuery # NoQuery => DOMAIN window \cap RejectedFor(lastQuery) = {}
  BY <1>3 DEF AloneInv
<1>6. RejectedFor(lastQuery)' = RejectedFor(lastQuery)
  BY DEF RejectedFor
<1>7. lastQuery # NoQuery /\ lastWasEmpty => lastRecall[lastQuery].found = {}
  BY DEF AloneInv
<1> QED BY <1>2, <1>3, <1>4, <1>5, <1>6, <1>7 DEF AloneInv

\* A step of the only call in flight, at the places where the window is judged.
LEMMA MergingKeepsAlone ==
    ASSUME TurnsTyped, AloneInv, NEW t \in Turns, pc[t] \notin {"new", "done"},
           UNCHANGED <<asks, lastQuery, lastWasEmpty, lastRecall>>,
           NEW l \in {"gating", "judging", "vetted"}, pc' = [pc EXCEPT ![t] = l],
           DOMAIN window' \cap RejectedFor(asks[t])' = {},
           DOMAIN merged'[t] \subseteq DOMAIN window'
    PROVE  AloneInv'
<1>1. \A s \in Turns : s # t => pc[s] \in {"new", "done"}
  BY OthersIdle
<1>2. pc'[t] = l /\ \A s \in Turns : s # t => pc'[s] \in {"new", "done"}
  BY <1>1 DEF TurnsTyped
<1>3. Merging(t)' /\ \A s \in Turns : s # t => ~Merging(s)'
  BY <1>2 DEF Merging
<1>4. \A s \in Turns : ~At(s, "recalled")' /\ pc'[s] \notin {"reuse", "reusing"}
  BY <1>2 DEF At
<1>5. (\A r, s \in InFlight : r = s)'
  BY <1>2 DEF InFlight
<1>6. lastQuery # NoQuery /\ lastWasEmpty => lastRecall[lastQuery].found = {}
  BY DEF AloneInv
<1>7. \A s \in Turns : Merging(s)' => /\ DOMAIN window' \cap RejectedFor(asks[s])' = {}
                                      /\ DOMAIN merged'[s] \subseteq DOMAIN window'
  BY <1>3
<1> QED BY <1>3, <1>4, <1>5, <1>6, <1>7 DEF AloneInv

\* A step of a turn keeps the window vetted, as long as calls come one at a
\* time.
LEMMA StepKeepsVetted ==
    ASSUME TurnsTyped, CacheTyped, FreshInv, VettedInv, NEW t \in Turns, Step(t)
    PROVE  VettedInv'
<1> USE DEF At, Goto
<1>1. ASSUME UNCHANGED <<lastQuery, lastWasEmpty, lastEmptyAt, lastQueryAt, overlapped>>,
             DOMAIN merged' = Turns, AloneInv => AloneInv'
      PROVE  VettedInv'
  BY <1>1 DEF VettedInv
<1>2. CASE EnterSession(t)
  <2>1. /\ pc[t] = "session"
        /\ UNCHANGED <<asks, merged, window, lastQuery, lastWasEmpty, lastEmptyAt, lastQueryAt,
                       lastRecall, rejectedFor, overlapped>>
    BY <1>2 DEF EnterSession, windowVars, cacheVars, history
  <2>2. \E l \in {"fetching", "done", "consult"} : pc' = [pc EXCEPT ![t] = l]
    BY <1>2 DEF EnterSession, AfterSession
  <2>3. AloneInv => AloneInv'
    BY <2>1, <2>2, OtherStepsKeepAlone DEF Merging, Labels
  <2> QED BY <1>1, <2>1, <2>3 DEF VettedInv
<1>3. ASSUME NEW found \in BOOLEAN, FetchReturns(t, found) PROVE VettedInv'
  <2>1. /\ pc[t] = "fetching"
        /\ UNCHANGED <<asks, merged, window, lastQuery, lastWasEmpty, lastEmptyAt, lastQueryAt,
                       lastRecall, rejectedFor, overlapped>>
    BY <1>3 DEF FetchReturns, windowVars, cacheVars
  <2>2. \E l \in {"done", "consult"} : pc' = [pc EXCEPT ![t] = l]
    BY <1>3 DEF FetchReturns, AfterSession
  <2>3. AloneInv => AloneInv'
    BY <2>1, <2>2, OtherStepsKeepAlone DEF Merging, Labels
  <2> QED BY <1>1, <2>1, <2>3 DEF VettedInv
<1>4. CASE Consult(t)
  <2>1. /\ pc[t] = "consult"
        /\ UNCHANGED <<asks, merged, window, lastQuery, lastWasEmpty, lastEmptyAt, lastQueryAt,
                       lastRecall, rejectedFor, overlapped>>
    BY <1>4 DEF Consult, windowVars, cacheVars, history
  <2>2. \E l \in {"reuse", "skip", "recall"} :
           /\ pc' = [pc EXCEPT ![t] = l]
           /\ l = "reuse" => lastQuery # NoQuery /\ SameIntent(asks[t], lastQuery)
    BY <1>4 DEF Consult, ReuseWindow, CachedIntent
  <2>3. AloneInv => AloneInv'
    BY <2>1, <2>2, OtherStepsKeepAlone DEF Merging, Labels
  <2> QED BY <1>1, <2>1, <2>3 DEF VettedInv
<1>5. CASE ReadGate(t)
  <2>1. /\ pc[t] \in {"reuse", "skip", "recall"}
        /\ UNCHANGED <<asks, merged, window, lastQuery, lastWasEmpty, lastEmptyAt, lastQueryAt,
                       lastRecall, rejectedFor, overlapped>>
    BY <1>5 DEF ReadGate, windowVars, cacheVars, history
  <2>2. \E l \in {"reusing", "enriched", "recalling"} :
           pc' = [pc EXCEPT ![t] = l] /\ (l = "reusing" => pc[t] = "reuse")
    BY <1>5 DEF ReadGate
  <2>3. AloneInv => AloneInv'
    <3>1. AloneInv /\ pc[t] = "reuse" => lastQuery # NoQuery /\ SameIntent(asks[t], lastQuery)
      BY DEF AloneInv
    <3> QED BY <2>1, <2>2, <3>1, OtherStepsKeepAlone DEF Merging, Labels
  <2> QED BY <1>1, <2>1, <2>3 DEF VettedInv
<1>6. CASE Reuse(t)
  <2>1. /\ pc[t] = "reusing" /\ pc' = [pc EXCEPT ![t] = "enriched"]
        /\ DOMAIN merged' = DOMAIN merged
        /\ UNCHANGED <<asks, window, lastQuery, lastWasEmpty, lastEmptyAt, lastQueryAt,
                       lastRecall, rejectedFor, overlapped>>
    BY <1>6 DEF Reuse, windowVars, cacheVars, history
  <2>2. AloneInv => AloneInv'
    BY <2>1, OtherStepsKeepAlone DEF Merging, Labels
  <2> QED BY <1>1, <2>1, <2>2 DEF VettedInv
<1>7. ASSUME NEW R \in SUBSET Memories, RecallReturns(t, R) PROVE VettedInv'
  <2>1. /\ pc[t] = "recalling" /\ pc' = [pc EXCEPT ![t] = "recalled"]
        /\ rejectedFor' = rejectedFor \ (Memories \X {asks[t]})
        /\ UNCHANGED <<asks, merged, window, lastQuery, lastWasEmpty, lastEmptyAt, lastQueryAt,
                       lastRecall, overlapped>>
    BY <1>7 DEF RecallReturns, windowVars, cacheVars
  <2>2. ASSUME AloneInv PROVE AloneInv'
    <3>1. \A s \in Turns : s # t => pc[s] \in {"new", "done"}
      BY <2>1, <2>2, OthersIdle
    <3>2. pc'[t] = "recalled" /\ \A s \in Turns : s # t => pc'[s] \in {"new", "done"}
      BY <2>1, <3>1 DEF TurnsTyped
    <3>3. \A s \in Turns : ~Merging(s) /\ ~Merging(s)' /\ pc'[s] \notin {"reuse", "reusing"}
      BY <2>1, <3>1, <3>2 DEF Merging
    <3>4. (\A r, s \in InFlight : r = s)'
      BY <3>2 DEF InFlight
    <3>5. lastQuery # NoQuery => DOMAIN window \cap RejectedFor(lastQuery) = {}
      BY <2>2, <3>3 DEF AloneInv
    <3>6. RejectedFor(lastQuery)' \subseteq RejectedFor(lastQuery)
      BY <2>1 DEF RejectedFor
    <3>7. RejectedFor(asks[t])' = {}
      BY <2>1 DEF RejectedFor
    <3>8. \A s \in Turns : (pc'[s] = "recalled" => RejectedFor(asks[s])' = {})
      BY <3>2, <3>7
    <3>9. lastQuery # NoQuery /\ lastWasEmpty => lastRecall[lastQuery].found = {}
      BY <2>2 DEF AloneInv
    <3> QED BY <2>1, <3>3, <3>4, <3>5, <3>6, <3>8, <3>9 DEF AloneInv
  <2> QED BY <1>1, <2>1, <2>2 DEF VettedInv
<1>8. CASE RecallFails(t)
  <2>1. /\ pc[t] = "recalling" /\ pc' = [pc EXCEPT ![t] = "done"]
        /\ DOMAIN merged' = DOMAIN merged
        /\ UNCHANGED <<window, lastQuery, lastWasEmpty, lastEmptyAt, lastQueryAt,
                       lastRecall, rejectedFor, overlapped>>
    BY <1>8 DEF RecallFails, Return, windowVars, cacheVars, history
  <2>2. AloneInv => AloneInv'
    BY <2>1, ReturnKeepsAlone DEF Merging
  <2> QED BY <1>1, <2>1, <2>2 DEF VettedInv
<1>9. CASE Merge(t)
  <2>1. /\ pc[t] = "recalled" /\ pc' = [pc EXCEPT ![t] = "gating"]
        /\ merged' = [merged EXCEPT ![t] = Decayed(window', turn')]
        /\ UNCHANGED <<asks, lastQuery, lastWasEmpty, lastEmptyAt, lastQueryAt,
                       lastRecall, rejectedFor, overlapped>>
    BY <1>9 DEF Merge, cacheVars, history
  <2>2. DOMAIN merged'[t] = DOMAIN window' /\ DOMAIN merged' = Turns
    BY <2>1 DEF VettedInv, Decayed
  <2>3. ASSUME AloneInv PROVE AloneInv'
    <3>1. RejectedFor(asks[t]) = {}
      BY <2>1, <2>3 DEF AloneInv
    <3>2. RejectedFor(asks[t])' = {}
      BY <2>1, <3>1 DEF RejectedFor
    <3> QED BY <2>1, <2>2, <2>3, <3>2, MergingKeepsAlone
  <2> QED BY <1>1, <2>1, <2>2, <2>3
<1>10. CASE Gate(t)
  <2>1. /\ pc[t] = "gating"
        /\ merged' = [merged EXCEPT ![t] = Selected(@, GateAfter(t))]
        /\ UNCHANGED <<asks, window, lastQuery, lastWasEmpty, lastEmptyAt, lastQueryAt,
                       lastRecall, rejectedFor, overlapped>>
    BY <1>10 DEF Gate, windowVars, cacheVars, history
  <2>2. \E l \in {"judging", "vetted"} : pc' = [pc EXCEPT ![t] = l]
    BY <1>10 DEF Gate
  <2>3. DOMAIN merged'[t] \subseteq DOMAIN merged[t] /\ DOMAIN merged' = Turns
    BY <2>1 DEF VettedInv, Selected, Restrict
  <2>4. ASSUME AloneInv PROVE AloneInv'
    <3>1. DOMAIN window \cap RejectedFor(asks[t]) = {} /\ DOMAIN merged[t] \subseteq DOMAIN window
      BY <2>1, <2>4 DEF AloneInv, Merging
    <3>2. RejectedFor(asks[t])' = RejectedFor(asks[t])
      BY <2>1 DEF RejectedFor
    <3>3. /\ DOMAIN window' \cap RejectedFor(asks[t])' = {}
          /\ DOMAIN merged'[t] \subseteq DOMAIN window'
      BY <2>1, <2>3, <3>1, <3>2
    <3>4. pc[t] \notin {"new", "done"}
      BY <2>1
    <3> QED BY <2>1, <2>2, <2>4, <3>3, <3>4, MergingKeepsAlone
  <2> QED BY <1>1, <2>1, <2>3, <2>4
<1>11. ASSUME NEW rejected \in SUBSET Memories, Ground(t, rejected) PROVE VettedInv'
  <2>1. /\ pc[t] = "judging" /\ pc' = [pc EXCEPT ![t] = "vetted"]
        /\ merged' = [merged EXCEPT ![t] = Restrict(@, DOMAIN @ \ rejected)]
        /\ window' = Restrict(window, DOMAIN window \ rejected)
        /\ rejectedFor' = rejectedFor \cup (rejected \X {asks[t]})
        /\ UNCHANGED <<asks, lastQuery, lastWasEmpty, lastEmptyAt, lastQueryAt,
                       lastRecall, overlapped>>
    BY <1>11 DEF Ground, WindowWithout, cacheVars
  <2>2. /\ DOMAIN merged' = Turns
        /\ DOMAIN merged'[t] = DOMAIN merged[t] \ rejected
        /\ DOMAIN window' = DOMAIN window \ rejected
    BY <2>1 DEF VettedInv, Restrict
  <2>3. ASSUME AloneInv PROVE AloneInv'
    <3>1. DOMAIN window \cap RejectedFor(asks[t]) = {} /\ DOMAIN merged[t] \subseteq DOMAIN window
      BY <2>1, <2>3 DEF AloneInv, Merging
    <3>2. RejectedFor(asks[t])' \subseteq RejectedFor(asks[t]) \cup rejected
      BY <2>1 DEF RejectedFor
    <3>3. /\ DOMAIN window' \cap RejectedFor(asks[t])' = {}
          /\ DOMAIN merged'[t] \subseteq DOMAIN window'
      BY <2>2, <3>1, <3>2
    <3> QED BY <2>1, <2>3, <3>3, MergingKeepsAlone
  <2> QED BY <1>1, <2>1, <2>2, <2>3
<1>12. CASE Remember(t)
  <2>1. /\ pc[t] = "vetted" /\ pc' = [pc EXCEPT ![t] = "enriched"]
        /\ lastQuery' = asks[t] /\ lastQueryAt' = now
        /\ lastWasEmpty' = (DOMAIN window = {})
        /\ lastEmptyAt' = IF lastWasEmpty' THEN now ELSE lastEmptyAt
        /\ lastRecall' = [lastRecall EXCEPT ![asks[t]] =
                             [found |-> DOMAIN merged[t], at |-> repliedAt[t]]]
        /\ UNCHANGED <<asks, merged, window, rejectedFor, overlapped>>
    BY <1>12 DEF Remember, windowVars
  <2>2. asks[t] \in Queries /\ lastRecall'[asks[t]].found = DOMAIN merged[t]
    BY <1>12, <2>1 DEF TurnsTyped, FreshInv
  <2>3. ASSUME AloneInv PROVE AloneInv'
    <3>1. DOMAIN window \cap RejectedFor(asks[t]) = {} /\ DOMAIN merged[t] \subseteq DOMAIN window
      BY <2>1, <2>3 DEF AloneInv, Merging
    <3>2. \A s \in Turns : s # t => pc[s] \in {"new", "done"}
      BY <2>1, <2>3, OthersIdle
    <3>3. pc'[t] = "enriched" /\ \A s \in Turns : s # t => pc'[s] \in {"new", "done"}
      BY <2>1, <3>2 DEF TurnsTyped
    <3>4. \A s \in Turns : /\ ~Merging(s)' /\ pc'[s] # "recalled"
                           /\ pc'[s] \notin {"reuse", "reusing"}
      BY <3>3 DEF Merging
    <3>5. (\A r, s \in InFlight : r = s)'
      BY <3>3 DEF InFlight
    <3>6. RejectedFor(lastQuery)' = RejectedFor(asks[t])
      BY <2>1 DEF RejectedFor
    <3>7. lastWasEmpty' => lastRecall'[lastQuery'].found = {}
      BY <2>1, <2>2, <3>1
    <3> QED BY <2>1, <3>1, <3>4, <3>5, <3>6, <3>7 DEF AloneInv
  <2>4. lastWasEmpty' => lastEmptyAt' = lastQueryAt'
    BY <2>1
  <2> QED BY <2>1, <2>3, <2>4 DEF VettedInv
<1>13. CASE Inject(t)
  <2>1. /\ pc[t] = "enriched" /\ pc' = [pc EXCEPT ![t] = "done"]
        /\ DOMAIN merged' = DOMAIN merged
        /\ UNCHANGED <<window, lastQuery, lastWasEmpty, lastEmptyAt, lastQueryAt,
                       lastRecall, rejectedFor, overlapped>>
    BY <1>13 DEF Inject, Return, windowVars, cacheVars
  <2>2. AloneInv => AloneInv'
    BY <2>1, ReturnKeepsAlone DEF Merging
  <2> QED BY <1>1, <2>1, <2>2 DEF VettedInv
<1> QED BY <1>2, <1>3, <1>4, <1>5, <1>6, <1>7, <1>8, <1>9, <1>10, <1>11, <1>12, <1>13 DEF Step

\* A request that arrives alone finds no other in flight.
LEMMA EnrichKeepsVetted ==
    ASSUME TurnsTyped, VettedInv, NEW t \in Turns, NEW q, Enrich(t, q)
    PROVE  VettedInv'
<1>1. /\ pc[t] = "new" /\ pc' = [pc EXCEPT ![t] = "session"]
      /\ overlapped' = (overlapped \/ InFlight # {})
      /\ UNCHANGED <<merged, window, lastQuery, lastWasEmpty, lastEmptyAt, lastQueryAt,
                     lastRecall, rejectedFor>>
  BY DEF Enrich, At, Goto, windowVars, cacheVars
<1>2. ASSUME ~overlapped' PROVE AloneInv'
  <2>1. AloneInv /\ InFlight = {}
    BY <1>1, <1>2 DEF VettedInv
  <2>2. \A s \in Turns : pc[s] \in {"new", "done"}
    BY <2>1 DEF InFlight
  <2>3. \A s \in Turns : pc'[s] = IF s = t THEN "session" ELSE pc[s]
    BY <1>1 DEF TurnsTyped
  <2>4. \A s \in Turns : /\ ~Merging(s) /\ ~Merging(s)' /\ pc'[s] # "recalled"
                         /\ pc'[s] \notin {"reuse", "reusing"}
    BY <2>2, <2>3 DEF Merging
  <2>5. (\A r, s \in InFlight : r = s)'
    BY <2>2, <2>3 DEF InFlight
  <2>6. lastQuery # NoQuery => DOMAIN window \cap RejectedFor(lastQuery) = {}
    BY <2>1, <2>4 DEF AloneInv
  <2>7. RejectedFor(lastQuery)' = RejectedFor(lastQuery)
    BY <1>1 DEF RejectedFor
  <2>8. lastQuery # NoQuery /\ lastWasEmpty => lastRecall[lastQuery].found = {}
    BY <2>1 DEF AloneInv
  <2> QED BY <1>1, <2>4, <2>5, <2>6, <2>7, <2>8 DEF AloneInv, At
<1> QED BY <1>1, <1>2 DEF VettedInv

\* A step of one call moves no other.
LEMMA StepMovesOne ==
    ASSUME TurnsTyped, NEW s \in Turns, Step(s), NEW t \in Turns, t # s
    PROVE  pc'[t] = pc[t]
<1> USE DEF TurnsTyped, At, Goto
<1>1. ASSUME NEW l, pc' = [pc EXCEPT ![s] = l] PROVE pc'[t] = pc[t]
  BY <1>1
<1>2. CASE EnterSession(s)
  BY <1>1, <1>2 DEF EnterSession, AfterSession
<1>3. ASSUME NEW found \in BOOLEAN, FetchReturns(s, found) PROVE pc'[t] = pc[t]
  BY <1>1, <1>3 DEF FetchReturns, AfterSession
<1>4. CASE Consult(s) \/ ReadGate(s) \/ Reuse(s) \/ RecallFails(s)
  BY <1>1, <1>4 DEF Consult, ReadGate, Reuse, RecallFails, Return
<1>5. ASSUME NEW R \in SUBSET Memories, RecallReturns(s, R) PROVE pc'[t] = pc[t]
  BY <1>1, <1>5 DEF RecallReturns
<1>6. CASE Merge(s) \/ Gate(s) \/ Remember(s) \/ Inject(s)
  BY <1>1, <1>6 DEF Merge, Gate, Remember, Inject, Return
<1>7. ASSUME NEW rejected, Ground(s, rejected) PROVE pc'[t] = pc[t]
  BY <1>1, <1>7 DEF Ground
<1> QED BY <1>2, <1>3, <1>4, <1>5, <1>6, <1>7 DEF Step

\* A call that has begun moves by a step of its own.
LEMMA MovesItself ==
    ASSUME TurnsTyped, Next, NEW t \in Turns, ~At(t, "new"), pc'[t] # pc[t]
    PROVE  Step(t)
<1>1. ASSUME NEW s \in Turns, NEW q, Enrich(s, q) PROVE FALSE
  BY <1>1 DEF Enrich, At, Goto, TurnsTyped
<1>2. CASE Tick \/ Quiet
  BY <1>2 DEF Tick, Quiet, turnVars, vars
<1>3. ASSUME NEW s \in Turns, Step(s) PROVE Step(t)
  BY <1>3, StepMovesOne
<1> QED BY <1>1, <1>2, <1>3 DEF Next

\* From the cache a turn goes where the cache's verdict sends it.
LEMMA OnlyConsultDecides ==
    ASSUME TurnsTyped, Next, NEW t \in Turns, At(t, "consult"), pc'[t] # "consult"
    PROVE  Consult(t)
<1>1. Step(t)
  BY MovesItself DEF At
<1> QED BY <1>1 DEF Step, At, EnterSession, FetchReturns, ReadGate, Reuse, RecallReturns,
           RecallFails, Merge, Gate, Ground, Remember, Inject

\* A turn that continues an intent takes what the window holds.
LEMMA OnlyReuseContinues ==
    ASSUME TurnsTyped, Next, NEW t \in Turns, At(t, "reusing"), pc'[t] # "reusing"
    PROVE  Reuse(t)
<1>1. Step(t)
  BY MovesItself DEF At
<1> QED BY <1>1 DEF Step, At, EnterSession, FetchReturns, ReadGate, Consult, RecallReturns,
           RecallFails, Merge, Gate, Ground, Remember, Inject
-----------------------------------------------------------------------------
(***************************************************************************)
(* The theorems                                                            *)
(***************************************************************************)

IInv == TurnsTyped /\ CacheTyped /\ SessionInv /\ WindowIsLive /\ FreshInv

\* The state Init describes is one of those.
LEMMA InitOk == Init => IInv
<1> SUFFICES ASSUME Init PROVE IInv
  OBVIOUS
<1> USE DEF Init
<1>1. TurnsTyped
  BY DEF TurnsTyped
<1>2. CacheTyped
  <2>1. DOMAIN window = {}
    OBVIOUS
  <2>2. turn \in Nat /\ lastQueryAt \in 0 .. now /\ lastEmptyAt \in 0 .. now
    OBVIOUS
  <2> QED BY <2>1, <2>2 DEF CacheTyped
<1>3. LockInv
  BY ConstantTypes DEF LockInv, At
<1>4. DueInv
  BY ConstantTypes DEF DueInv
<1>5. ContextInv
  BY DEF ContextInv
<1>6. WindowIsLive
  BY DEF WindowIsLive
<1>7. FreshInv
  BY DEF FreshInv, Recalling
<1> QED BY <1>1, <1>2, <1>3, <1>4, <1>5, <1>6, <1>7 DEF IInv, SessionInv

\* A request that arrives disturbs only its own locals.
LEMMA EnrichKeeps ==
    ASSUME IInv, NEW t \in Turns, NEW q \in Queries \cup {NoQuery}, Enrich(t, q)
    PROVE  IInv'
<1>1. /\ At(t, "new") /\ pc' = [pc EXCEPT ![t] = "session"]
      /\ asks' = [asks EXCEPT ![t] = q]
      /\ UNCHANGED <<recalled, windowVars, gateVars, cacheVars, sessionVars, now, contextTo,
                     fetchedAt, repliedAt, lastRecall>>
  BY DEF Enrich, Goto
<1>2. TurnsTyped'
  BY <1>1 DEF IInv, TurnsTyped
<1>3. CacheTyped'
  BY <1>1 DEF IInv, CacheTyped, windowVars, gateVars, cacheVars
<1>4. SessionInv'
  BY <1>1, OtherStepsKeepSession DEF IInv, At, Labels, history
<1>5. WindowIsLive'
  BY <1>1 DEF IInv, WindowIsLive, windowVars
<1>6. FreshInv'
  BY <1>1, OtherStepsKeepFresh DEF IInv, Labels, history, cacheVars, Recalling, TurnsTyped
<1> QED BY <1>2, <1>3, <1>4, <1>5, <1>6 DEF IInv

\* Time passes, but not beyond the timeout of a judge.
LEMMA TickKeeps ==
    ASSUME IInv, Tick
    PROVE  IInv'
<1>1. /\ now \in Nat /\ now' = now + 1 /\ now' \in Nat
      /\ UNCHANGED <<turnVars, windowVars, gateVars, cacheVars, sessionVars, history>>
      /\ \A t \in Turns : Recalling(t) => now - repliedAt[t] < JudgeTicks
  BY DEF Tick, IInv, SessionInv, DueInv
<1>2. TurnsTyped'
  BY <1>1 DEF IInv, TurnsTyped, turnVars
<1>3. CacheTyped'
  <2>1. lastQueryAt \in 0 .. now' /\ lastEmptyAt \in 0 .. now'
    BY <1>1 DEF IInv, CacheTyped
  <2> QED BY <1>1, <2>1 DEF IInv, CacheTyped, windowVars, gateVars, cacheVars
<1>4. SessionInv'
  <2>1. LockInv'
    BY <1>1 DEF IInv, SessionInv, LockInv, At, turnVars, sessionVars
  <2>2. DueInv'
    BY <1>1 DEF IInv, SessionInv, DueInv, sessionVars, history
  <2>3. ContextInv'
    BY <1>1 DEF IInv, SessionInv, ContextInv, sessionVars, history
  <2> QED BY <2>1, <2>2, <2>3 DEF SessionInv
<1>5. WindowIsLive'
  BY <1>1 DEF IInv, WindowIsLive, windowVars
<1>6. FreshInv'
  <2>1. UNCHANGED <<pc, repliedAt, lastRecall, lastQuery, lastQueryAt>>
    BY <1>1 DEF turnVars, history, cacheVars
  <2>2. ASSUME NEW t \in Turns, Recalling(t)
        PROVE  repliedAt[t] \in 0 .. now' /\ now' - repliedAt[t] <= JudgeTicks
    <3>1. repliedAt[t] \in 0 .. now /\ now - repliedAt[t] < JudgeTicks
      BY <1>1, <2>2 DEF IInv, FreshInv
    <3> QED BY <1>1, <3>1, ConstantTypes
  <2> QED BY <2>1, <2>2 DEF IInv, FreshInv, Recalling
<1> QED BY <1>2, <1>3, <1>4, <1>5, <1>6 DEF IInv

\* IInv is inductive.
LEMMA NextOk == IInv /\ [Next]_vars => IInv'
<1> SUFFICES ASSUME IInv, [Next]_vars PROVE IInv'
  OBVIOUS
<1>1. ASSUME NEW t \in Turns, NEW q \in Queries \cup {NoQuery}, Enrich(t, q) PROVE IInv'
  BY <1>1, EnrichKeeps
<1>2. ASSUME NEW t \in Turns, Step(t) PROVE IInv'
  <2>1. now \in Nat
    BY DEF IInv, SessionInv, DueInv
  <2> QED BY <1>2, <2>1, StepKeepsTurns, StepKeepsCache, StepKeepsSession, StepKeepsWindowLive,
             StepKeepsFresh DEF IInv
<1>3. CASE Tick
  BY <1>3, TickKeeps
<1>4. CASE UNCHANGED vars
  <2>1. UNCHANGED <<pc, asks, recalled, windowVars, gateVars, cacheVars, sessionVars, now, history>>
    BY <1>4 DEF vars, turnVars
  <2>2. TurnsTyped' /\ CacheTyped' /\ WindowIsLive'
    BY <2>1 DEF IInv, TurnsTyped, CacheTyped, WindowIsLive, windowVars, gateVars, cacheVars
  <2>3. SessionInv' /\ FreshInv'
    BY <2>1 DEF IInv, SessionInv, LockInv, DueInv, ContextInv, At, FreshInv, Recalling, cacheVars,
                sessionVars, history
  <2> QED BY <2>2, <2>3 DEF IInv
<1> QED BY <1>1, <1>2, <1>3, <1>4 DEF Next, Quiet

\* The locals of every Enrich call, the window, the cache and the session
\* start have their types: in particular no turn consults the cache or MuninnDB
\* without a query, and no more than MaxAttempts fetches are made.
THEOREM TypeCorrect == Spec => []TypeOK
<1>1. IInv => TypeOK
  BY ConstantTypes DEF IInv, TypeOK, SessionInv, LockInv, DueInv, ContextInv, SessionTyped
<1> QED BY <1>1, InitOk, NextOk, PTL DEF Spec

\* However many turns arrive together, the session-start fetches are made one
\* at a time, at most MaxAttempts of them, none after one has found something,
\* and none within RetryInterval of the one before.
THEOREM FetchesDoNotStampede == Spec => []NoStampede
<1>1. IInv => NoStampede
  <2> SUFFICES ASSUME IInv PROVE NoStampede
    OBVIOUS
  <2>1. \A t \in Turns : At(t, "fetching") <=> sessionMu = t
    BY DEF IInv, SessionInv, LockInv
  <2>2. CASE Fetching = {}
    <3>1. Cardinality(Fetching) = 0
      BY <2>2, FS_EmptySet
    <3> QED BY <2>2, <3>1, ConstantTypes DEF NoStampede, IInv, SessionInv, DueInv
  <2>3. CASE Fetching # {}
    <3>1. PICK t \in Turns : Fetching = {t} /\ sessionMu = t
      BY <2>1, <2>3 DEF Fetching
    <3>2. Cardinality(Fetching) = 1
      BY <3>1, FS_Singleton
    <3>3. ~settled /\ attempts < MaxAttempts /\ now >= retryAfter
      BY <3>1, ConstantTypes DEF IInv, SessionInv, DueInv
    <3>4. attempts + 1 <= MaxAttempts /\ now - fetchedAt >= RetryInterval
      BY <3>3, ConstantTypes DEF IInv, SessionInv, DueInv
    <3> QED BY <3>1, <3>2, <3>3, <3>4 DEF NoStampede
  <2> QED BY <2>2, <2>3
<1> QED BY <1>1, InitOk, NextOk, PTL DEF Spec

\* The session context is given to exactly one turn, and kept until then.
THEOREM ContextGivenOnce == Spec => []SessionContextOnce
<1>1. IInv => SessionContextOnce
  BY FS_Singleton DEF IInv, SessionInv, ContextInv, SessionContextOnce
<1> QED BY <1>1, InitOk, NextOk, PTL DEF Spec

\* Both together: the session starts once.
THEOREM SessionStartIsSound == Spec => []SessionStartsOnce
<1>1. NoStampede /\ SessionContextOnce => SessionStartsOnce
  BY DEF SessionStartsOnce
<1> QED BY <1>1, FetchesDoNotStampede, ContextGivenOnce, PTL

\* A memory of the window was just recalled or has not faded below the floor.
THEOREM WindowStaysLive == Spec => []WindowIsLive
<1>1. IInv => WindowIsLive
  BY DEF IInv
<1> QED BY <1>1, InitOk, NextOk, PTL DEF Spec

\* A turn that skips its recall to reuse the window stands on an answer of
\* MuninnDB to its intent that is younger than the TTL and a judge's timeout.
THEOREM ReuseStandsOnFreshAnswer == Spec => ReuseIsFresh
<1>1. ASSUME IInv, [Next]_vars, NEW t \in Turns, At(t, "consult"), pc'[t] = "reuse"
      PROVE  \E p \in Queries : /\ SameIntent(asks[t], p)
                                /\ now - lastRecall[p].at < IntentTTL + JudgeTicks
  <2>1. Next
    BY <1>1 DEF vars, turnVars, At
  <2>2. ReuseWindow(t)
    <3>1. Consult(t)
      BY <1>1, <2>1, OnlyConsultDecides DEF IInv
    <3> QED BY <1>1, <3>1 DEF Consult, At, Goto, IInv, TurnsTyped
  <2>3. /\ lastQuery \in Queries /\ SameIntent(asks[t], lastQuery)
        /\ now - lastQueryAt < IntentTTL
    BY <1>1, <2>2 DEF ReuseWindow, CachedIntent, IInv, CacheTyped
  <2>4. /\ lastRecall[lastQuery].at \in Int
        /\ lastQueryAt - lastRecall[lastQuery].at <= JudgeTicks
    BY <1>1, <2>2 DEF ReuseWindow, CachedIntent, IInv, FreshInv
  <2>5. now \in Nat /\ lastQueryAt \in Nat
    BY <1>1 DEF IInv, SessionInv, DueInv, CacheTyped
  <2>6. now - lastRecall[lastQuery].at < IntentTTL + JudgeTicks
    BY <2>3, <2>4, <2>5, ConstantTypes
  <2> QED BY <2>3, <2>6
<1>2. IInv /\ [Next]_vars =>
        [\A t \in Turns : At(t, "consult") /\ pc'[t] = "reuse" =>
            \E p \in Queries : /\ SameIntent(asks[t], p)
                               /\ now - lastRecall[p].at < IntentTTL + JudgeTicks]_vars
  BY <1>1
<1> QED BY <1>2, InitOk, NextOk, PTL DEF Spec, ReuseIsFresh

\* The window is vetted and the cache remembers misses as they were, as long
\* as calls come one at a time.
LEMMA StaysVetted == Spec => [](IInv /\ VettedInv)
<1>1. Init => VettedInv
  <2> SUFFICES ASSUME Init PROVE VettedInv
    OBVIOUS
  <2>1. \A t \in Turns : pc[t] = "new"
    BY DEF Init
  <2>2. AloneInv
    BY <2>1 DEF Init, AloneInv, InFlight, Merging, At
  <2> QED BY <2>2 DEF Init, VettedInv
<1>2. IInv /\ VettedInv /\ [Next]_vars => VettedInv'
  <2> SUFFICES ASSUME IInv, VettedInv, [Next]_vars PROVE VettedInv'
    OBVIOUS
  <2>1. ASSUME UNCHANGED <<turnVars, windowVars, cacheVars, lastRecall, rejectedFor, overlapped>>
        PROVE  VettedInv'
    BY <2>1 DEF VettedInv, AloneInv, InFlight, Merging, At, RejectedFor, SameIntent,
                turnVars, windowVars, cacheVars
  <2>2. CASE Tick \/ Quiet \/ UNCHANGED vars
    BY <2>1, <2>2 DEF Tick, Quiet, vars, history
  <2>3. ASSUME NEW t \in Turns, Step(t) PROVE VettedInv'
    BY <2>3, StepKeepsVetted DEF IInv
  <2>4. ASSUME NEW t \in Turns, NEW q, Enrich(t, q) PROVE VettedInv'
    BY <2>4, EnrichKeepsVetted DEF IInv
  <2> QED BY <2>2, <2>3, <2>4 DEF Next
<1> QED BY <1>1, <1>2, InitOk, NextOk, PTL DEF Spec

\* While Enrich calls come one at a time, a turn skips its recall for nothing
\* only if the last recall of that intent, younger than the negative TTL and a
\* judge's timeout, gave nothing that the judge has not rejected for it.
THEOREM MissStandsOnEmptyRecall == Spec => MissIsSound
<1>1. ASSUME IInv, VettedInv, [Next]_vars, NEW t \in Turns, ~overlapped,
             At(t, "consult"), pc'[t] = "skip"
      PROVE  \E p \in Queries : /\ SameIntent(asks[t], p)
                                /\ lastRecall[p].found \subseteq RejectedFor(p)
                                /\ now - lastRecall[p].at < NegativeTTL + JudgeTicks
  <2>1. Next
    BY <1>1 DEF vars, turnVars, At
  <2>2. Consult(t)
    BY <1>1, <2>1, OnlyConsultDecides DEF IInv
  <2>3. NegCached(t)
    BY <1>1, <2>2 DEF Consult, At, Goto, IInv, TurnsTyped
  <2>4. /\ lastQuery \in Queries /\ SameIntent(asks[t], lastQuery)
        /\ lastWasEmpty /\ now - lastEmptyAt < NegativeTTL
    BY <1>1, <2>3 DEF NegCached, CachedIntent, IInv, CacheTyped
  <2>5. lastRecall[lastQuery].found = {} /\ lastEmptyAt = lastQueryAt
    BY <1>1, <2>4, ConstantTypes DEF VettedInv, AloneInv
  <2>6. /\ lastRecall[lastQuery].at \in Int
        /\ lastQueryAt - lastRecall[lastQuery].at <= JudgeTicks
    BY <1>1, <2>4, ConstantTypes DEF IInv, FreshInv
  <2>7. now \in Nat /\ lastQueryAt \in Nat
    BY <1>1 DEF IInv, SessionInv, DueInv, CacheTyped
  <2>8. now - lastRecall[lastQuery].at < NegativeTTL + JudgeTicks
    BY <2>4, <2>5, <2>6, <2>7, ConstantTypes
  <2> QED BY <2>4, <2>5, <2>8
<1>2. IInv /\ VettedInv /\ [Next]_vars =>
        [\A t \in Turns : ~overlapped /\ At(t, "consult") /\ pc'[t] = "skip" =>
            \E p \in Queries : /\ SameIntent(asks[t], p)
                               /\ lastRecall[p].found \subseteq RejectedFor(p)
                               /\ now - lastRecall[p].at < NegativeTTL + JudgeTicks]_vars
  BY <1>1
<1> QED BY <1>2, StaysVetted, PTL DEF Spec, MissIsSound

\* While Enrich calls come one at a time, the continuation of an intent injects
\* nothing that the judge rejected when that intent was last recalled: what
\* inject.go says of the same-intent reuse path ("holds only vetted memories").
THEOREM ContinuationIsVetted == Spec => ReuseIsVettedAlone
<1>1. ASSUME IInv, VettedInv, [Next]_vars, NEW t \in Turns, ~overlapped,
             At(t, "reusing"), pc'[t] = "enriched"
      PROVE  \E p \in Queries : /\ SameIntent(asks[t], p)
                                /\ DOMAIN merged'[t] \cap RejectedFor(p) = {}
  <2>1. Next
    BY <1>1 DEF vars, turnVars, At
  <2>2. Reuse(t)
    BY <1>1, <2>1, OnlyReuseContinues DEF IInv
  <2>3. merged' = [merged EXCEPT ![t] = Selected(Decayed(window, turn), gate[t])]
    BY <2>2 DEF Reuse
  <2>4. DOMAIN merged'[t] \subseteq DOMAIN window
    BY <1>1, <2>3 DEF VettedInv, Selected, Decayed, Restrict
  <2>5. AloneInv
    BY <1>1 DEF VettedInv
  <2>6. lastQuery \in Queries /\ SameIntent(asks[t], lastQuery)
    BY <1>1, <2>5 DEF AloneInv, At, IInv, CacheTyped
  <2>7. \A s \in Turns : ~Merging(s)
    <3>1. \A s \in Turns : s # t => pc[s] \in {"new", "done"}
      BY <1>1, <2>5, OthersIdle DEF At
    <3> QED BY <1>1, <3>1 DEF Merging, At
  <2>8. DOMAIN window \cap RejectedFor(lastQuery) = {}
    BY <2>5, <2>6, <2>7, ConstantTypes DEF AloneInv
  <2> QED BY <2>4, <2>6, <2>8
<1>2. IInv /\ VettedInv /\ [Next]_vars =>
        [\A t \in Turns : ~overlapped => ContinuesVetted(t)]_vars
  BY <1>1 DEF ContinuesVetted
<1> QED BY <1>2, StaysVetted, PTL DEF Spec, ReuseIsVettedAlone
=============================================================================
