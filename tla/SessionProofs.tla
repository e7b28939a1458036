---------------------------- MODULE SessionProofs -----------------------------
(***************************************************************************)
(* Theorems about Session, for any turns, command lines, terminals and     *)
(* environments, any exit codes of an agent and any number of signals.     *)
(***************************************************************************)
EXTENDS Session, SequenceTheorems, WellFoundedInduction, TLAPS

Start    == {"flags", "command", "config", "health", "upstream", "ca", "preview", "proxy", "launch"}
Running  == {"serving", "grace", "shutting", "draining"}
Children == {"none", "starting", "unpublished", "running", "ended", "reaped"}

\* The agent exists from the launch on; nothing of it changes once msc is gone.
PhaseInv ==
    /\ at \in Start \cup Running \cup {"exited"}
    /\ child \in Children
    /\ at \in Start => child = "none"
    /\ at \in Running => child # "none"

SignalsTyped ==
    /\ sent \in [Catchable -> Nat]
    /\ received \in [Catchable \cup {KILL} -> Nat]
    /\ sigCh \in Catchable \cup {NoSignal}
    /\ took \in Catchable \cup {NoSignal}
    /\ unseen \in BOOLEAN /\ killed \in BOOLEAN

-----------------------------------------------------------------------------
(***************************************************************************)
(* What the actions have in common.                                        *)
(***************************************************************************)

\* A step of the start-up goes on, launches the agent, or returns, and it drains
\* the store if there is one by then.
LEMMA StartUpStep ==
    ASSUME StartUp
    PROVE  /\ at \in Start
           /\ KeepSignals /\ UNCHANGED <<terminal, childExit, done, warned>>
           /\ \/ at' \in Start /\ UNCHANGED <<lifeVars, code, child>>
              \/ at' = "serving" /\ child' = "starting" /\ UNCHANGED <<lifeVars, code, upstream>>
              \/ at' = "exited" /\ UNCHANGED child /\ IF HasStore THEN DrainStore ELSE UNCHANGED lifeVars
           /\ \/ UNCHANGED upstream /\ at # "proxy" /\ (at \in {"ca", "preview"} => HasStore /\ at' \in {"preview", "proxy", "exited"})
              \/ at = "upstream" /\ HasStore /\ at' \in {"ca", "exited"}
              \/ upstream' = Unset
<1> USE DEF Start, KeepSignals, KeepChild, Before, Goto, ReturnEarly, Return
<1>1. CASE ParseFlags
  BY <1>1 DEF ParseFlags
<1>2. CASE Command
  BY <1>2 DEF Command
<1>3. CASE ResolveConfig
  BY <1>3 DEF ResolveConfig
<1>4. CASE HealthCheck
  BY <1>4 DEF HealthCheck
<1>5. CASE ResolveUpstream
  BY <1>5 DEF ResolveUpstream, HasStore
<1>6. CASE LoadCA
  BY <1>6 DEF LoadCA, HasStore
<1>7. CASE Preview
  BY <1>7 DEF Preview, HasStore
<1>8. CASE StartProxy
  BY <1>8 DEF StartProxy
<1>9. CASE Launch
  BY <1>9 DEF Launch
<1> QED BY <1>1, <1>2, <1>3, <1>4, <1>5, <1>6, <1>7, <1>8, <1>9 DEF StartUp

\* The agent's own steps: a child goes from stage to stage, and run() does nothing.
AgentStep == ChildStarts \/ StartFails \/ ChildEnds \/ Reap

LEMMA AgentsStep ==
    ASSUME AgentStep
    PROVE  /\ at # "exited" /\ UNCHANGED <<setting, terminal, at, upstream, code, warned, lifeVars>>
           /\ KeepSignals
           /\ \/ child = "starting" /\ child' = "unpublished" /\ UNCHANGED <<childExit, done>>
              \/ child = "unpublished" /\ child' = "running" /\ UNCHANGED <<childExit, done>>
              \/ child = "starting" /\ child' = "reaped" /\ done' = childExit'
              \/ Alive /\ child' = "ended" /\ UNCHANGED done
              \/ child = "ended" /\ child' = "reaped" /\ done' = childExit /\ UNCHANGED childExit
<1>1. CASE ChildStarts
  BY <1>1 DEF ChildStarts, KeepRun
<1>2. CASE StartFails
  BY <1>2 DEF StartFails, KeepRun
<1>3. CASE ChildEnds
  BY <1>3 DEF ChildEnds, KeepRun
<1>4. CASE Reap
  BY <1>4 DEF Reap, KeepRun, ExitCodeFromErr
<1> QED BY <1>1, <1>2, <1>3, <1>4 DEF AgentStep

\* A signal is counted and reaches msc, or the child, or both; it ends an msc that
\* does not listen yet.
SignalStep == CtrlC \/ \E sig \in Catchable : Kill(sig)

LEMMA SignalsStep ==
    ASSUME SignalStep
    PROVE  /\ at # "exited"
           /\ UNCHANGED <<lifeVars, setting, terminal, upstream, child, childExit, done, took, unseen, killed, warned>>
           /\ \E sig \in Catchable : sent' = [sent EXCEPT ![sig] = sent[sig] + 1]
           /\ \/ UNCHANGED <<at, code>>
              \/ at \notin {"serving", "grace", "shutting", "draining"} /\ at' = "exited"
<1>1. CASE CtrlC
  <2>1. MaySignal(INT) /\ (DeliverToMsc(INT) \/ UNCHANGED <<at, code, sigCh>>) /\ INT \in Catchable
    BY <1>1 DEF CtrlC, Catchable
  <2> QED BY <2>1 DEF MaySignal, DeliverToMsc, Return
<1>2. ASSUME NEW sig \in Catchable, Kill(sig)
      PROVE  MaySignal(sig) /\ DeliverToMsc(sig)
  BY <1>2 DEF Kill
<1>3. CASE \E sig \in Catchable : Kill(sig)
  <2>1. PICK sig \in Catchable : Kill(sig)
    BY <1>3
  <2>2. MaySignal(sig) /\ DeliverToMsc(sig)
    BY <1>2, <2>1
  <2> QED BY <2>2 DEF MaySignal, DeliverToMsc, Return
<1> QED BY <1>1, <1>3 DEF SignalStep

\* The steps of run() after the launch take it on, in order.
LEMMA FinishStep ==
    ASSUME Finish
    PROVE  /\ KeepLaunch
           /\ \/ /\ at \in {"serving", "grace"} /\ at' = "shutting" /\ done # NoCode /\ code' = done
                 /\ KeepSignals /\ UNCHANGED <<lifeVars, warned>>
              \/ /\ at = "serving" /\ at' = "grace" /\ sigCh # NoSignal /\ took' = sigCh /\ sigCh' = NoSignal
                 /\ unseen' = ~(InProc \/ Published) /\ SignalChildren(sigCh)
                 /\ UNCHANGED <<lifeVars, code, warned, killed>>
              \/ /\ at = "grace" /\ at' = "shutting" /\ child \notin {"starting", "unpublished"}
                 /\ SignalChildren(KILL) /\ killed' = TRUE /\ code' = 128 + took
                 /\ UNCHANGED <<lifeVars, sigCh, took, unseen, warned>>
              \/ /\ at = "shutting" /\ at' = "draining" /\ DrainStore /\ KeepSignals /\ UNCHANGED code
                 /\ (warned' = TRUE \/ (Tracked = {} /\ UNCHANGED warned))
              \/ at = "draining" /\ at' = "exited" /\ KeepSignals /\ UNCHANGED <<lifeVars, code, warned>>
<1>1. CASE TakeResult
  BY <1>1 DEF TakeResult
<1>2. CASE TakeSignal
  BY <1>2 DEF TakeSignal
<1>3. CASE GraceOver
  BY <1>3 DEF GraceOver
<1>4. CASE ShutdownDone \/ ShutdownCut
  BY <1>4 DEF ShutdownDone, ShutdownCut, EndShutdown, Quiescent
<1>5. CASE Exit
  BY <1>5 DEF Exit
<1> QED BY <1>1, <1>2, <1>3, <1>4, <1>5 DEF Finish

\* Turns are the agent's.
TurnsStep == \E t \in Turns : TurnBegins(t) \/ TurnFlies(t)

LEMMA StepKeepsPhase ==
    ASSUME PhaseInv, SessionNext
    PROVE  PhaseInv'
<1> USE DEF PhaseInv, Start, Running, Children
<1>1. CASE StartUp
  BY <1>1, StartUpStep
<1>2. CASE Finish
  BY <1>2, FinishStep DEF KeepLaunch
<1>3. CASE AgentStep
  BY <1>3, AgentsStep DEF Alive
<1>4. CASE SignalStep
  BY <1>4, SignalsStep
<1>5. CASE TurnsStep
  BY <1>5 DEF TurnsStep, TurnBegins, TurnFlies, mainVars
<1> QED BY <1>1, <1>2, <1>3, <1>4, <1>5 DEF SessionNext, AgentStep, SignalStep, TurnsStep

-----------------------------------------------------------------------------
(***************************************************************************)
(* Captures at the exit.                                                   *)
(***************************************************************************)
Spared == Turns \ (Tunnelled \cup hijacked)

LivesTyped ==
    /\ life \in [Turns -> {"none", "flying", "over"}]
    /\ exchange \in [Turns -> {"none", "stored", "dropped"}]

Over == at = "draining" \/ Ran

LossInv ==
    /\ at \in Start \cup {"serving", "grace", "shutting"} => storeOpen
    /\ storeOpen => \A t \in Turns : exchange[t] # "dropped"
    /\ Over => ~storeOpen
    /\ Over /\ ~warned => \A t \in Spared : life[t] # "flying" /\ exchange[t] # "dropped"
    /\ upstream # Unset => at \in {"ca", "preview", "proxy", "exited"}
    /\ at = "exited" /\ child = "none" /\ upstream # Unset => ~storeOpen \/ sent[INT] + sent[TERM] > 0

\* The turns of a drained store that no server waited for are the tunnelled ones.
LEMMA TurnsKeepLoss ==
    ASSUME LivesTyped, LossInv, PhaseInv, TurnsStep
    PROVE  LivesTyped' /\ LossInv'
<1>1. UNCHANGED mainVars /\ at # "exited"
  BY DEF TurnsStep, TurnBegins, TurnFlies
<1>2. UNCHANGED <<at, child, upstream, warned, sent>>
  BY <1>1 DEF mainVars
<1>3. PICK t \in Turns : TurnBegins(t) \/ TurnFlies(t)
  BY DEF TurnsStep
<1>4. CASE TurnBegins(t)
  <2>1. life' = [life EXCEPT ![t] = "flying"] /\ UNCHANGED <<hijacked, exchange, storeOpen>>
    BY <1>4 DEF TurnBegins, Begin
  <2>2. at = "draining" => t \notin Spared
    BY <1>4 DEF TurnBegins, Spared
  <2> QED BY <1>1, <1>2, <2>1, <2>2 DEF LivesTyped, LossInv, Over, Ran, Spared
<1>5. CASE TurnFlies(t)
  <2>1. /\ life[t] = "flying" /\ UNCHANGED storeOpen
        /\ \/ hijacked' = hijacked \cup {t} /\ UNCHANGED <<life, exchange>>
           \/ exchange' = [exchange EXCEPT ![t] = IF storeOpen THEN "stored" ELSE "dropped"] /\ UNCHANGED <<life, hijacked>>
           \/ life' = [life EXCEPT ![t] = "over"] /\ UNCHANGED <<hijacked, exchange>>
    BY <1>5 DEF TurnFlies, Hijack, HandOver, End
  <2>2. Over /\ ~warned => t \notin Spared
    BY <2>1 DEF LossInv
  <2>3. Spared' \subseteq Spared /\ Spared \subseteq Turns
    BY <2>1 DEF Spared
  <2>4. LivesTyped'
    BY <2>1 DEF LivesTyped
  <2>5. UNCHANGED <<at, child, upstream, warned, sent, storeOpen>>
    BY <1>2, <2>1
  <2>6. \A u \in Turns \ {t} : life'[u] = life[u] /\ exchange'[u] = exchange[u]
    BY <2>1 DEF LivesTyped
  <2>7. storeOpen => \A u \in Turns : exchange'[u] # "dropped"
    BY <2>1 DEF LivesTyped, LossInv
  <2>8. Over /\ ~warned => \A u \in Spared' : life'[u] # "flying" /\ exchange'[u] # "dropped"
    BY <2>2, <2>3, <2>6 DEF LossInv
  <2> QED BY <2>4, <2>5, <2>7, <2>8 DEF LossInv, Over, Ran
<1> QED BY <1>3, <1>4, <1>5

\* The server was waited for, or the exit says that it was not.
LEMMA StepKeepsLoss ==
    ASSUME LivesTyped, LossInv, PhaseInv, SignalsTyped, SessionNext
    PROVE  LivesTyped' /\ LossInv'
<1> USE DEF PhaseInv, Start, Running, Children
<1>1. CASE StartUp
  <2>1. UNCHANGED <<life, hijacked, exchange, sent, warned>> /\ child = "none"
    BY <1>1, StartUpStep DEF lifeVars, DrainStore, KeepSignals
  <2>2. \/ at' \in Start /\ UNCHANGED <<storeOpen, child>>
        \/ at' = "serving" /\ child' = "starting" /\ UNCHANGED <<storeOpen, upstream>>
        \/ at' = "exited" /\ UNCHANGED child /\ storeOpen' = (IF HasStore THEN FALSE ELSE storeOpen)
    BY <1>1, StartUpStep DEF lifeVars, DrainStore
  <2>3. /\ at \in Start
        /\ \/ UNCHANGED upstream /\ at # "proxy" /\ (at \in {"ca", "preview"} => HasStore /\ at' \in {"preview", "proxy", "exited"})
           \/ at = "upstream" /\ HasStore /\ at' \in {"ca", "exited"}
           \/ upstream' = Unset
    BY <1>1, StartUpStep
  <2>4. LivesTyped'
    BY <2>1 DEF LivesTyped
  <2>5. storeOpen /\ at # "exited"
    BY <2>3 DEF LossInv
  <2>6. Spared' = Spared
    BY <2>1 DEF Spared
  <2>7. /\ at' \in Start \cup {"serving"} => storeOpen'
        /\ at' \in Start \cup {"serving", "exited"}
        /\ ~Over'
    BY <2>1, <2>2, <2>5 DEF Over, Ran
  <2>8. storeOpen' => \A t \in Turns : exchange'[t] # "dropped"
    BY <2>1, <2>5 DEF LossInv
  <2>9. upstream' # Unset => at' \in {"ca", "preview", "proxy", "exited"}
    BY <2>2, <2>3 DEF LossInv
  <2>10. at' = "exited" /\ upstream' # Unset => ~storeOpen'
    <3>1. SUFFICES ASSUME at' = "exited", upstream' # Unset PROVE ~storeOpen'
      OBVIOUS
    <3>a. HasStore => storeOpen' = FALSE
      BY <2>2, <3>1
    <3>2. CASE upstream' = upstream
      <4>1. at \in {"ca", "preview", "proxy"}
        BY <2>5, <3>1, <3>2 DEF LossInv
      <4> QED BY <4>1, <3>a DEF HasStore
    <3>3. CASE upstream' # upstream
      BY <2>3, <3>1, <3>3, <3>a
    <3> QED BY <3>2, <3>3
  <2> QED BY <2>4, <2>7, <2>8, <2>9, <2>10 DEF LossInv
<1>2. CASE Finish
  <2>1. UNCHANGED <<upstream, child, sent, life, hijacked, exchange>> /\ at \in {"serving", "grace", "shutting", "draining"}
    BY <1>2, FinishStep DEF KeepLaunch, lifeVars, DrainStore
  <2>2. \/ at' \in {"grace", "shutting"} /\ at \in {"serving", "grace"} /\ UNCHANGED <<storeOpen, warned>>
        \/ /\ at = "shutting" /\ at' = "draining" /\ storeOpen' = FALSE
           /\ (warned' = TRUE \/ (Tracked = {} /\ UNCHANGED warned))
        \/ at = "draining" /\ at' = "exited" /\ UNCHANGED <<storeOpen, warned>>
    BY <1>2, FinishStep DEF lifeVars, DrainStore
  <2>3. Tracked = {} => \A t \in Spared : life[t] # "flying"
    BY DEF Tracked, Spared
  <2>4. LivesTyped'
    BY <2>1 DEF LivesTyped
  <2>5. Spared' = Spared
    BY <2>1 DEF Spared
  <2>6. CASE at' \in {"grace", "shutting"} /\ at \in {"serving", "grace"} /\ UNCHANGED <<storeOpen, warned>>
    BY <2>1, <2>4, <2>6 DEF LossInv, Over, Ran
  <2>7. CASE /\ at = "shutting" /\ at' = "draining" /\ storeOpen' = FALSE
             /\ (warned' = TRUE \/ (Tracked = {} /\ UNCHANGED warned))
    <3>1. \A t \in Turns : exchange[t] # "dropped"
      BY <2>7 DEF LossInv
    <3>2. ~warned' => \A t \in Spared' : life'[t] # "flying" /\ exchange'[t] # "dropped"
      BY <2>1, <2>3, <2>5, <2>7, <3>1 DEF Spared
    <3> QED BY <2>1, <2>4, <2>7, <3>2 DEF LossInv, Over, Ran
  <2>8. CASE at = "draining" /\ at' = "exited" /\ UNCHANGED <<storeOpen, warned>>
    <3>1. ~storeOpen /\ (~warned => \A t \in Spared : life[t] # "flying" /\ exchange[t] # "dropped")
      BY <2>8 DEF LossInv, Over
    <3> QED BY <2>1, <2>4, <2>5, <2>8, <3>1 DEF LossInv, Over, Ran
  <2> QED BY <2>2, <2>6, <2>7, <2>8
<1>3. CASE AgentStep
  <2>1. at # "exited" /\ UNCHANGED <<at, upstream, sent, warned, life, hijacked, exchange, storeOpen>>
    BY <1>3, AgentsStep DEF lifeVars, KeepSignals
  <2> QED BY <2>1 DEF LivesTyped, LossInv, Over, Ran, Spared
<1>4. CASE SignalStep
  <2>1. /\ at # "exited" /\ UNCHANGED <<upstream, child, warned, life, hijacked, exchange, storeOpen>>
        /\ UNCHANGED at \/ (at \in Start /\ at' = "exited")
    BY <1>4, SignalsStep DEF lifeVars
  <2>2. sent'[INT] + sent'[TERM] > 0
    <3>1. PICK sig \in Catchable : sent' = [sent EXCEPT ![sig] = sent[sig] + 1]
      BY <1>4, SignalsStep
    <3>2. sent'[INT] \in Nat /\ sent'[TERM] \in Nat /\ sent'[sig] > 0 /\ (sig = INT \/ sig = TERM)
      BY <3>1 DEF SignalsTyped, Catchable
    <3> QED BY <3>2
  <2> QED BY <2>1, <2>2 DEF LivesTyped, LossInv, Over, Ran, Spared
<1>5. CASE TurnsStep
  BY <1>5, TurnsKeepLoss
<1> QED BY <1>1, <1>2, <1>3, <1>4, <1>5 DEF SessionNext, AgentStep, SignalStep, TurnsStep

-----------------------------------------------------------------------------
(***************************************************************************)
(* Signals.                                                                *)
(***************************************************************************)

\* A signal waiting for run() may still be forwarded, unless it is a Ctrl+C that
\* the child, in the same process group, has had from the kernel.
Pending(sig) ==
    IF sigCh = sig /\ (sig # INT \/ terminal.group # terminal.foreground) THEN 1 ELSE 0

\* The child was told of the signal that began the shutdown, or could not be.
Told ==
    \/ received[took] > 0
    \/ unseen
    \/ child \in {"ended", "reaped"}
    \/ took = INT /\ (terminal.proc => terminal.group = terminal.foreground)

SignalInv ==
    /\ \A sig \in Catchable : received[sig] + Pending(sig) <= sent[sig]
    /\ at = "grace" \/ killed => took \in Catchable /\ Told
    /\ at \in Start \cup {"serving", "grace"} => ~killed

LEMMA SignalNumbers ==
    /\ Catchable = {2, 15} /\ KILL = 9 /\ INT = 2 /\ TERM = 15 /\ NoSignal = 0
    /\ KILL \notin Catchable /\ NoSignal \notin Catchable /\ INT \in Catchable
BY DEF Catchable, KILL, INT, TERM, NoSignal

\* A signal that was sent reaches the child at once or waits for run(), not both.
LEMMA SendingKeepsSignals ==
    ASSUME SignalsTyped, SignalInv, SignalStep
    PROVE  SignalsTyped' /\ \A sig \in Catchable : received'[sig] + Pending(sig)' <= sent'[sig]
<1> USE SignalNumbers
<1>1. ASSUME NEW sig \in Catchable, MaySignal(sig),
             UNCHANGED received \/ (Reaches(sig) /\ sig = INT /\ terminal.group = terminal.foreground),
             sigCh' = sig \/ UNCHANGED sigCh
      PROVE  SignalsTyped' /\ \A x \in Catchable : received'[x] + Pending(x)' <= sent'[x]
  <2>1. sent' = [sent EXCEPT ![sig] = sent[sig] + 1] /\ UNCHANGED <<took, unseen, killed, terminal>>
    BY <1>1 DEF MaySignal
  <2>2. received' \in [Catchable \cup {KILL} -> Nat] /\ \A x \in Catchable \ {sig} : received'[x] = received[x]
    BY <1>1 DEF Reaches, SignalsTyped
  <2>3. SignalsTyped'
    BY <1>1, <2>1, <2>2 DEF SignalsTyped
  <2>4. ASSUME NEW x \in Catchable PROVE received'[x] + Pending(x)' <= sent'[x]
    <3>1. /\ received[x] \in Nat /\ received'[x] \in Nat /\ sent[x] \in Nat /\ received[x] + Pending(x) <= sent[x]
          /\ Pending(x) \in {0, 1} /\ Pending(x)' \in {0, 1}
      BY <2>2 DEF SignalsTyped, SignalInv, Pending
    <3>2. CASE x # sig
      <4>1. sent'[x] = sent[x] /\ received'[x] = received[x]
        BY <2>1, <2>2, <3>2 DEF SignalsTyped
      <4>2. Pending(x)' = 0 \/ Pending(x)' = Pending(x)
        BY <1>1, <2>1, <3>2 DEF Pending
      <4> QED BY <3>1, <4>1, <4>2
    <3>3. CASE x = sig
      <4>1. sent'[x] = sent[x] + 1
        BY <2>1, <3>3 DEF SignalsTyped
      <4>2. CASE UNCHANGED received
        BY <3>1, <4>1, <4>2
      <4>3. CASE Reaches(sig) /\ sig = INT /\ terminal.group = terminal.foreground
        <5>1. received'[x] = received[x] + 1
          BY <3>3, <4>3 DEF Reaches, SignalsTyped
        <5>2. Pending(x)' = 0
          BY <2>1, <3>3, <4>3 DEF Pending
        <5> QED BY <3>1, <4>1, <5>1, <5>2
      <4> QED BY <1>1, <4>2, <4>3
    <3> QED BY <3>2, <3>3
  <2> QED BY <2>3, <2>4
<1>2. CASE CtrlC
  BY <1>1, <1>2 DEF CtrlC, DeliverToMsc
<1>3. CASE \E sig \in Catchable : Kill(sig)
  BY <1>1, <1>3 DEF Kill, DeliverToMsc
<1> QED BY <1>2, <1>3 DEF SignalStep

\* Taking a signal forwards it only to a child that has not had it.
LEMMA TakingKeepsSignals ==
    ASSUME SignalsTyped, SignalInv, PhaseInv, at = "serving", at' = "grace", KeepLaunch, sigCh # NoSignal,
           took' = sigCh, sigCh' = NoSignal, unseen' = ~(InProc \/ Published), SignalChildren(sigCh),
           UNCHANGED killed
    PROVE  SignalsTyped' /\ SignalInv'
<1> USE SignalNumbers
<1>1. sigCh \in Catchable /\ UNCHANGED <<sent, terminal, child>>
  BY DEF SignalsTyped, KeepLaunch
<1>2. received' = (IF Forwards(sigCh) /\ Alive THEN [received EXCEPT ![sigCh] = received[sigCh] + 1] ELSE received)
  BY DEF SignalChildren, Reaches
<1>3. Forwards(sigCh) => Pending(sigCh) = 1
  BY DEF Forwards, ShouldForward, Pending
<1>4. SignalsTyped'
  BY <1>1, <1>2 DEF SignalsTyped
<1>5. ASSUME NEW x \in Catchable PROVE received'[x] + Pending(x)' <= sent'[x]
  <2>1. received[x] \in Nat /\ sent[x] \in Nat /\ received[x] + Pending(x) <= sent[x] /\ Pending(x) \in {0, 1}
    BY DEF SignalsTyped, SignalInv, Pending
  <2>2. Pending(x)' = 0
    BY DEF Pending
  <2>3. received'[x] = received[x] \/ (received'[x] = received[x] + 1 /\ Pending(x) = 1)
    BY <1>2, <1>3 DEF SignalsTyped
  <2> QED BY <1>1, <2>1, <2>2, <2>3
<1>6. Told'
  <2>1. CASE child \in {"ended", "reaped"} \/ ~(InProc \/ Published)
    BY <1>1, <2>1 DEF Told
  <2>2. CASE child \notin {"ended", "reaped"} /\ (InProc \/ Published)
    <3>1. Alive
      BY <2>2 DEF InProc, Published, Alive
    <3>2. CASE Forwards(sigCh)
      <4>1. received'[sigCh] = received[sigCh] + 1 /\ received[sigCh] \in Nat
        BY <1>1, <1>2, <3>1, <3>2 DEF SignalsTyped
      <4> QED BY <4>1 DEF Told
    <3>3. CASE ~Forwards(sigCh)
      <4>1. sigCh = INT /\ (terminal.proc => terminal.group = terminal.foreground)
        BY <2>2, <3>3 DEF Forwards, ShouldForward, InProc, Published
      <4> QED BY <1>1, <4>1 DEF Told
    <3> QED BY <3>2, <3>3
  <2> QED BY <2>1, <2>2
<1>7. ~killed
  BY DEF SignalInv
<1> QED BY <1>1, <1>4, <1>5, <1>6, <1>7 DEF SignalInv

\* The signals stay, and whoever was told stays told, while counts only grow.
LEMMA CountsKeepSignals ==
    ASSUME SignalsTyped, SignalInv, UNCHANGED <<terminal, sigCh, took, unseen, sent>>,
           received' \in [Catchable \cup {KILL} -> Nat], \A sig \in Catchable : received'[sig] = received[sig],
           killed' \in BOOLEAN, child \in {"ended", "reaped"} => child' \in {"ended", "reaped"},
           at' = "grace" \/ killed' => at = "grace" \/ killed,
           at' \in Start \cup {"serving", "grace"} => ~killed'
    PROVE  SignalsTyped' /\ SignalInv'
<1> USE SignalNumbers
<1>1. SignalsTyped'
  BY DEF SignalsTyped
<1>2. \A sig \in Catchable : Pending(sig)' = Pending(sig)
  BY DEF Pending
<1>3. \A sig \in Catchable : received'[sig] + Pending(sig)' <= sent'[sig]
  BY <1>2 DEF SignalInv
<1>4. took \in Catchable /\ Told => took' \in Catchable /\ Told'
  BY DEF Told
<1> QED BY <1>1, <1>3, <1>4 DEF SignalInv

LEMMA StepKeepsSignals ==
    ASSUME SignalsTyped, SignalInv, PhaseInv, SessionNext
    PROVE  SignalsTyped' /\ SignalInv'
<1> USE DEF PhaseInv, Start, Running, Children
<1>0. received \in [Catchable \cup {KILL} -> Nat] /\ killed \in BOOLEAN
  BY DEF SignalsTyped
<1>1. CASE StartUp
  <2>1. /\ at \in Start /\ child = "none" /\ at' \in Start \cup {"serving", "exited"}
        /\ UNCHANGED <<terminal, sigCh, took, unseen, sent, received, killed>>
    BY <1>1, StartUpStep DEF KeepSignals
  <2>2. ~killed
    BY <2>1 DEF SignalInv
  <2> QED BY <1>0, <2>1, <2>2, CountsKeepSignals
<1>2. CASE Finish
  <2>1. CASE at = "serving" /\ at' = "grace"
    BY <1>2, <2>1, FinishStep, TakingKeepsSignals
  <2>2. CASE at = "grace" /\ at' = "shutting" /\ ~KeepSignals
    <3>1. UNCHANGED <<terminal, child, sent, sigCh, took, unseen>> /\ SignalChildren(KILL) /\ killed' = TRUE
      BY <1>2, <2>2, FinishStep DEF KeepLaunch
    <3>2. /\ received' \in [Catchable \cup {KILL} -> Nat]
          /\ \A sig \in Catchable : received'[sig] = received[sig]
      BY <1>0, <3>1, SignalNumbers DEF SignalChildren, Reaches
    <3> QED BY <2>2, <3>1, <3>2, CountsKeepSignals
  <2>3. CASE KeepSignals /\ at' \in {"shutting", "draining", "exited"}
    <3>1. UNCHANGED <<terminal, child, sent, sigCh, took, unseen, received, killed>>
      BY <1>2, <2>3, FinishStep DEF KeepLaunch, KeepSignals
    <3> QED BY <1>0, <2>3, <3>1, CountsKeepSignals
  <2> QED BY <1>2, <2>1, <2>2, <2>3, FinishStep
<1>3. CASE AgentStep
  <2>1. /\ UNCHANGED <<at, terminal, sigCh, took, unseen, sent, received, killed>>
        /\ child \in {"ended", "reaped"} => child' \in {"ended", "reaped"}
    BY <1>3, AgentsStep DEF KeepSignals, Alive
  <2>2. at' \in Start \cup {"serving", "grace"} => ~killed'
    BY <2>1 DEF SignalInv
  <2> QED BY <1>0, <2>1, <2>2, CountsKeepSignals
<1>4. CASE SignalStep
  <2>1. /\ UNCHANGED <<terminal, child, took, unseen, killed>>
        /\ UNCHANGED at \/ (at \in Start /\ at' = "exited")
    BY <1>4, SignalsStep
  <2>2. SignalsTyped' /\ \A sig \in Catchable : received'[sig] + Pending(sig)' <= sent'[sig]
    BY <1>4, SendingKeepsSignals
  <2>3. received[took] > 0 /\ took \in Catchable => received'[took] > 0
    <3>1. SUFFICES ASSUME took \in Catchable, received[took] > 0 PROVE received'[took] > 0
      OBVIOUS
    <3>2. UNCHANGED received \/ Reaches(INT)
      BY <1>4 DEF SignalStep, CtrlC, Kill
    <3> QED BY <1>0, <3>1, <3>2, SignalNumbers DEF Reaches
  <2>4. took \in Catchable /\ Told => took' \in Catchable /\ Told'
    BY <2>1, <2>3 DEF Told
  <2>5. at' = "grace" => at = "grace"
    BY <2>1
  <2>6. at' \in Start \cup {"serving", "grace"} => ~killed'
    BY <2>1 DEF SignalInv
  <2> QED BY <2>1, <2>2, <2>4, <2>5, <2>6 DEF SignalInv
<1>5. CASE TurnsStep
  <2>1. UNCHANGED mainVars
    BY <1>5 DEF TurnsStep, TurnBegins, TurnFlies
  <2>2. at' \in Start \cup {"serving", "grace"} => ~killed'
    BY <2>1 DEF SignalInv, mainVars
  <2> QED BY <1>0, <2>1, <2>2, CountsKeepSignals DEF mainVars
<1> QED BY <1>1, <1>2, <1>3, <1>4, <1>5 DEF SessionNext, AgentStep, SignalStep, TurnsStep

-----------------------------------------------------------------------------
(***************************************************************************)
(* The agent and the exit code.                                            *)
(***************************************************************************)

\* Every code run() exits with after a launch is the child's own or the one of the
\* signal it was killed for.
Settled == at \in {"shutting", "draining"} \/ Ran

Killed   == code = 128 + took /\ (child \in {"ended", "reaped"} \/ received[KILL] > 0)
Finished == child = "reaped" /\ code = childExit

AccountInv ==
    /\ done # NoCode => child = "reaped" /\ done = childExit
    /\ Settled => (killed /\ Killed) \/ (~killed /\ Finished)

LEMMA StepKeepsAccount ==
    ASSUME AccountInv, SignalsTyped, SignalInv, PhaseInv, SessionNext
    PROVE  AccountInv'
<1> USE DEF PhaseInv, Start, Running, Children
<1>1. CASE StartUp
  <2>1. /\ child = "none" /\ UNCHANGED <<childExit, done>> /\ at' \in Start \cup {"serving", "exited"}
        /\ child' = "none" \/ at' = "serving"
    BY <1>1, StartUpStep
  <2> QED BY <2>1 DEF AccountInv, Settled, Ran
<1>2. CASE Finish
  <2>1. UNCHANGED <<child, childExit, done>> /\ child # "none"
    BY <1>2, FinishStep DEF KeepLaunch
  <2>2. CASE at \in {"serving", "grace"} /\ done # NoCode /\ code' = done /\ KeepSignals
    BY <2>1, <2>2 DEF AccountInv, Finished, SignalInv, KeepSignals
  <2>3. CASE at = "serving" /\ at' = "grace"
    BY <2>1, <2>3 DEF AccountInv, Settled, Ran
  <2>4. CASE /\ at = "grace" /\ at' = "shutting" /\ child \notin {"starting", "unpublished"}
             /\ SignalChildren(KILL) /\ killed' = TRUE /\ code' = 128 + took /\ UNCHANGED took
    <3>1. child = "running" => Forwards(KILL) /\ Alive
      BY SignalNumbers DEF Forwards, ShouldForward, InProc, Published, Alive
    <3>2. child = "running" => received'[KILL] = received[KILL] + 1 /\ received[KILL] \in Nat
      BY <2>4, <3>1 DEF SignalChildren, Reaches, SignalsTyped
    <3>3. child = "running" => received'[KILL] > 0
      BY <3>2
    <3> QED BY <2>1, <2>4, <3>3 DEF AccountInv, Killed
  <2>5. CASE at \in {"shutting", "draining"} /\ KeepSignals /\ UNCHANGED code
    BY <2>1, <2>5 DEF AccountInv, Settled, Killed, Finished, KeepSignals
  <2> QED BY <1>2, <2>2, <2>3, <2>4, <2>5, FinishStep
<1>3. CASE AgentStep
  <2>1. /\ at # "exited" /\ UNCHANGED <<at, code, took, killed, received>>
        /\ \/ child = "starting" /\ child' = "unpublished" /\ UNCHANGED <<childExit, done>>
           \/ child = "unpublished" /\ child' = "running" /\ UNCHANGED <<childExit, done>>
           \/ child = "starting" /\ child' = "reaped" /\ done' = childExit'
           \/ Alive /\ child' = "ended" /\ UNCHANGED done
           \/ child = "ended" /\ child' = "reaped" /\ done' = childExit /\ UNCHANGED childExit
    BY <1>3, AgentsStep DEF KeepSignals
  <2>2. done' # NoCode => child' = "reaped" /\ done' = childExit'
    BY <2>1 DEF AccountInv, Alive
  <2>3. Settled' => Settled
    BY <2>1 DEF Settled, Ran
  <2>4. Settled => ~(~killed /\ Finished)
    BY <2>1 DEF Finished, Alive
  <2>5. killed /\ Killed => (killed /\ Killed)'
    BY <2>1 DEF Killed, Alive
  <2> QED BY <2>2, <2>3, <2>4, <2>5 DEF AccountInv
<1>4. CASE SignalStep
  <2>1. /\ at # "exited" /\ UNCHANGED <<child, childExit, done, took, killed>>
        /\ UNCHANGED <<at, code>> \/ (at \in Start /\ at' = "exited")
    BY <1>4, SignalsStep
  <2>2. received'[KILL] = received[KILL]
    <3>1. UNCHANGED received \/ Reaches(INT)
      BY <1>4 DEF SignalStep, CtrlC, Kill
    <3> QED BY <3>1, SignalNumbers DEF Reaches, SignalsTyped
  <2> QED BY <2>1, <2>2 DEF AccountInv, Settled, Ran, Killed, Finished
<1>5. CASE TurnsStep
  <2>1. UNCHANGED mainVars
    BY <1>5 DEF TurnsStep, TurnBegins, TurnFlies
  <2> QED BY <2>1 DEF mainVars, AccountInv, Settled, Ran, Killed, Finished
<1> QED BY <1>1, <1>2, <1>3, <1>4, <1>5 DEF SessionNext, AgentStep, SignalStep, TurnsStep

-----------------------------------------------------------------------------
(***************************************************************************)
(* The theorems.                                                           *)
(***************************************************************************)
SessionInv ==
    /\ PhaseInv
    /\ SignalsTyped
    /\ LivesTyped
    /\ LossInv
    /\ SignalInv
    /\ AccountInv

LEMMA InitHolds == SessionInit => SessionInv
<1> SUFFICES ASSUME SessionInit PROVE SessionInv
  OBVIOUS
<1> USE DEF SessionInit
<1>1. PhaseInv
  BY DEF PhaseInv, Start, Running, Children
<1>2. SignalsTyped
  BY SignalNumbers DEF SignalsTyped
<1>3. LivesTyped /\ LossInv
  BY <1>1 DEF LifeInit, LivesTyped, LossInv, Over, Ran, Spared, Start
<1>4. \A sig \in Catchable : received[sig] = 0 /\ sent[sig] = 0 /\ Pending(sig) = 0
  BY SignalNumbers DEF Pending
<1>5. SignalInv
  BY <1>4 DEF SignalInv
<1>6. AccountInv
  BY DEF AccountInv, Settled, Ran
<1> QED BY <1>1, <1>2, <1>3, <1>5, <1>6 DEF SessionInv

LEMMA StepHolds == SessionInv /\ [SessionNext]_sessionVars => SessionInv'
<1> SUFFICES ASSUME SessionInv, [SessionNext]_sessionVars PROVE SessionInv'
  OBVIOUS
<1>1. CASE SessionNext
  BY <1>1, StepKeepsPhase, StepKeepsLoss, StepKeepsSignals, StepKeepsAccount DEF SessionInv
<1>2. CASE UNCHANGED sessionVars
  <2>1. UNCHANGED lifeVars /\ UNCHANGED mainVars
    BY <1>2 DEF sessionVars
  <2> USE <2>1 DEF SessionInv, lifeVars, mainVars
  <2>2. PhaseInv' /\ SignalsTyped' /\ LivesTyped'
    BY DEF PhaseInv, SignalsTyped, LivesTyped
  <2>3. LossInv'
    BY DEF LossInv, Over, Ran, Spared
  <2>4. SignalInv'
    <3>1. \A sig \in Catchable : Pending(sig)' = Pending(sig)
      BY DEF Pending
    <3> QED BY <3>1 DEF SignalInv, Told
  <2>5. AccountInv'
    BY DEF AccountInv, Settled, Ran, Killed, Finished
  <2> QED BY <2>2, <2>3, <2>4, <2>5 DEF SessionInv
<1> QED BY <1>1, <1>2

LEMMA InvHolds == SessionSpec => []SessionInv
BY InitHolds, StepHolds, PTL DEF SessionSpec

\* When msc exits after a launch, every turn its server knew of has ended and its
\* exchange was taken by an open store, unless the exit has warned of turns cut
\* off; no exit with an upstream resolved leaves the store undrained (main.go,
\* Shutdown before Drain, and the deferred Drain of every early return).
THEOREM NothingLost == SessionSpec => []NothingLostSilently
<1>1. ASSUME PhaseInv, LossInv PROVE NothingLostSilently
  <2>1. Ran => Over
    BY DEF Over
  <2>2. at = "exited" /\ upstream # Unset /\ sent[INT] + sent[TERM] = 0 => ~storeOpen
    <3>1. SUFFICES ASSUME at = "exited", upstream # Unset, sent[INT] + sent[TERM] = 0 PROVE ~storeOpen
      OBVIOUS
    <3>2. CASE child = "none"
      BY <1>1, <3>1, <3>2 DEF LossInv
    <3>3. CASE child # "none"
      BY <1>1, <3>1, <3>3 DEF LossInv, Over, Ran
    <3> QED BY <3>2, <3>3
  <2>3. Ran /\ ~warned => \A t \in Turns \ (Tunnelled \cup hijacked) : life[t] # "flying" /\ exchange[t] # "dropped"
    BY <1>1, <2>1 DEF LossInv, Spared
  <2>4. Ran => ~storeOpen
    BY <1>1, <2>1 DEF LossInv
  <2> QED BY <2>2, <2>3, <2>4 DEF NothingLostSilently
<1>2. SessionInv => NothingLostSilently
  BY <1>1 DEF SessionInv
<1> QED BY InvHolds, <1>2, PTL

\* The agent never hears a signal more often than it was sent, by the kernel and
\* by the forwarding of run() together, and it is told to end before the SIGKILL
\* of the fallback, unless no child was to be found when the signal came.
THEOREM SignalsOnce == SessionSpec => []SignalOnce
<1>1. ASSUME PhaseInv, SignalsTyped, SignalInv PROVE SignalOnce
  <2>1. ASSUME NEW sig \in Catchable PROVE received[sig] <= sent[sig]
    <3>1. /\ received[sig] \in Nat /\ sent[sig] \in Nat /\ Pending(sig) \in {0, 1}
          /\ received[sig] + Pending(sig) <= sent[sig]
      BY <1>1 DEF SignalsTyped, SignalInv, Pending
    <3> QED BY <3>1
  <2>2. killed => Told
    BY <1>1 DEF SignalInv
  <2>3. child \in {"ended", "reaped"} => ~Alive
    BY DEF Alive
  <2> QED BY <2>1, <2>2, <2>3 DEF SignalOnce, Told
<1>2. SessionInv => SignalOnce
  BY <1>1 DEF SessionInv
<1> QED BY InvHolds, <1>2, PTL

\* msc exits after a launch with the agent ended or sent a SIGKILL, and with the
\* agent's code, or the code of the signal where it gave up waiting.
THEOREM AgentIsAccountedFor == SessionSpec => []AgentAccountedFor
<1>1. ASSUME AccountInv PROVE AgentAccountedFor
  BY <1>1 DEF AccountInv, Settled, Killed, Finished, AgentAccountedFor
<1>2. SessionInv => AgentAccountedFor
  BY <1>1 DEF SessionInv
<1> QED BY InvHolds, <1>2, PTL

-----------------------------------------------------------------------------
(***************************************************************************)
(* The upstream.  A launch points variables at its proxy, and leaves the   *)
(* sentinel of its agent beside them; in between the user may set any      *)
(* variable but a sentinel to an address that is no proxy's.               *)
(***************************************************************************)
Overrides(a, k) == k = EnvKey[a] \/ k \in ExtraKeys[a]

\* Every variable that names a proxy is one of an agent whose sentinel is set, and
\* no sentinel names a proxy.
Guarded(env) ==
    /\ \A a \in ToSet(Agents) : env[Sentinel(a)] \notin Proxies
    /\ \A k \in Keys : env[k] \in Proxies =>
          \E a \in ToSet(Agents) : Overrides(a, k) /\ env[Sentinel(a)] # Unset

NamesNoProxy(env) == \A k \in Keys : env[k] \notin Proxies

UserSets(env, next) ==
    \E k \in Keys \ {Sentinel(a) : a \in ToSet(Agents)} : \E value :
        value \notin Proxies /\ next = [j \in Keys |-> IF j = k THEN value ELSE env[j]]

Launches(env, next) ==
    \E a \in ToSet(Agents), proxy \in Proxies, mitm \in BOOLEAN : next = Launched(env, a, proxy, mitm)

\* An environment that any number of launches and of settings of the user, one
\* inside the other, have made of one that names no proxy.
Inherited(env) ==
    \E n \in Nat : \E chain :
        /\ NamesNoProxy(chain[0]) /\ chain[n] = env
        /\ \A i \in 1..n : Launches(chain[i - 1], chain[i]) \/ UserSets(chain[i - 1], chain[i])

LEMMA LeastOfNat ==
    ASSUME NEW S \in SUBSET Nat, S # {}
    PROVE  \E n \in S : \A m \in S : n <= m
<1>1. \E n \in S : \A m \in S : ~(<<m, n>> \in OpToRel(<, Nat))
  BY WFMin, NatLessThanWellFounded, Zenon
<1>2. \A m, n \in Nat : ~(<<m, n>> \in OpToRel(<, Nat)) => n <= m
  BY DEF OpToRel
<1> QED BY <1>1, <1>2, Zenon

\* What is found first is found, and nothing is found only where nothing is.
LEMMA MinIsFound ==
    ASSUME NEW S \in SUBSET Nat, S # {}
    PROVE  Min(S) \in S
<1>1. PICK n \in S : \A m \in S : n <= m
  BY LeastOfNat
<1> QED BY <1>1 DEF Min

LEMMA FirstSetIsSet ==
    ASSUME NEW env, NEW a \in ToSet(Agents)
    PROVE  \/ FirstSet(env, DetectEnv[a]) = 0
           \/ /\ FirstSet(env, DetectEnv[a]) \in 1..Len(DetectEnv[a])
              /\ env[DetectEnv[a][FirstSet(env, DetectEnv[a])]] # Unset
<1> DEFINE I == {i \in 1..Len(DetectEnv[a]) : env[DetectEnv[a][i]] # Unset}
<1>1. I \in SUBSET Nat
  <2>1. Len(DetectEnv[a]) \in Nat
    BY RegistryAssumption, LenProperties
  <2> QED BY <2>1
<1>2. FirstSet(env, DetectEnv[a]) = IF I # {} THEN Min(I) ELSE 0
  BY DEF FirstSet, SelectInSeq
<1>3. I # {} => Min(I) \in I
  <2> HIDE DEF I
  <2> QED BY <1>1, MinIsFound
<1> QED BY <1>2, <1>3

\* Behind a variable some set sentinel overrides, the sentinel of such an agent is
\* what is read.
LEMMA SentinelIsFound ==
    ASSUME NEW env, NEW k
    PROVE  \/ /\ SentinelForEnv(env, k) = Unset
              /\ \A a \in ToSet(Agents) : ~(Overrides(a, k) /\ env[Sentinel(a)] # Unset)
           \/ \E a \in ToSet(Agents) : /\ SentinelForEnv(env, k) = env[Sentinel(a)]
                                       /\ env[Sentinel(a)] # Unset
<1> DEFINE I == {i \in 1..Len(Agents) : (k = EnvKey[Agents[i]] \/ k \in ExtraKeys[Agents[i]]) /\ env[Sentinel(Agents[i])] # Unset}
           first == IF I # {} THEN Min(I) ELSE 0
<1>1. Len(Agents) \in Nat /\ DOMAIN Agents = 1..Len(Agents)
  BY RegistryAssumption, LenProperties
<1>2. I \in SUBSET Nat
  BY <1>1
<1>3. SentinelForEnv(env, k) = IF first = 0 THEN Unset ELSE env[Sentinel(Agents[first])]
  BY DEF SentinelForEnv, SelectInSeq
<1>4. CASE I = {}
  <2>1. SentinelForEnv(env, k) = Unset
    BY <1>3, <1>4
  <2>2. ASSUME NEW a \in ToSet(Agents), Overrides(a, k), env[Sentinel(a)] # Unset PROVE FALSE
    <3>1. PICK i \in 1..Len(Agents) : Agents[i] = a
      BY <1>1 DEF ToSet
    <3> QED BY <1>4, <2>2, <3>1 DEF Overrides
  <2> QED BY <2>1, <2>2
<1>5. CASE I # {}
  <2>1. first \in I
    <3>1. first = Min(I)
      BY <1>5
    <3> HIDE DEF I, first
    <3> QED BY <1>2, <1>5, <3>1, MinIsFound
  <2> HIDE DEF first
  <2>2. first # 0 /\ Agents[first] \in ToSet(Agents) /\ env[Sentinel(Agents[first])] # Unset
    <3>1. first \in 1..Len(Agents) /\ env[Sentinel(Agents[first])] # Unset
      BY <2>1
    <3>2. first # 0
      BY <1>1, <3>1
    <3>3. Agents[first] \in ToSet(Agents)
      BY <1>1, <3>1 DEF ToSet
    <3> QED BY <3>1, <3>2, <3>3
  <2> QED BY <1>3, <2>2
<1> QED BY <1>4, <1>5

\* Resolve sees through every proxy of a guarded environment.
LEMMA ResolveSeesThrough ==
    ASSUME NEW env, Guarded(env), NEW a \in ToSet(Agents)
    PROVE  Resolve(env, a) \notin Proxies /\ Resolve(env, a) # Unset
<1>1. CASE env[Sentinel(a)] # Unset
  BY <1>1 DEF Resolve, Guarded
<1>2. CASE env[Sentinel(a)] = Unset /\ FirstSet(env, DetectEnv[a]) = 0
  <2>1. Resolve(env, a) = IF AltCond[a] # Unset /\ env[AltCond[a]] # Unset THEN AltURL[a] ELSE DefaultURL[a]
    BY <1>2 DEF Resolve
  <2> QED BY <2>1, RegistryAssumption, ProxyAssumption
<1>3. CASE env[Sentinel(a)] = Unset /\ FirstSet(env, DetectEnv[a]) # 0
  <2> DEFINE i == FirstSet(env, DetectEnv[a])
             k == DetectEnv[a][i]
  <2>1. i \in 1..Len(DetectEnv[a]) /\ env[k] # Unset
    BY <1>3, FirstSetIsSet
  <2>2. i > 0 /\ i # 0 /\ k \in ToSet(DetectEnv[a])
    <3>1. Len(DetectEnv[a]) \in Nat /\ DOMAIN DetectEnv[a] = 1..Len(DetectEnv[a])
      BY RegistryAssumption, LenProperties
    <3> HIDE DEF i
    <3> QED BY <2>1, <3>1 DEF ToSet
  <2>3. k \in Keys
    BY <2>2 DEF Keys
  <2>4. Resolve(env, a) = Detected(env, k)
    BY <1>3, <2>2 DEF Resolve
  <2> HIDE DEF k
  <2>5. CASE \E b \in ToSet(Agents) : SentinelForEnv(env, k) = env[Sentinel(b)] /\ env[Sentinel(b)] # Unset
    <3>1. Detected(env, k) = SentinelForEnv(env, k)
      BY <2>5 DEF Detected
    <3> QED BY <2>4, <2>5, <3>1 DEF Guarded
  <2>6. CASE /\ SentinelForEnv(env, k) = Unset
             /\ \A b \in ToSet(Agents) : ~(Overrides(b, k) /\ env[Sentinel(b)] # Unset)
    <3>1. Detected(env, k) = env[k]
      BY <2>6 DEF Detected
    <3>2. env[k] \notin Proxies
      BY <2>3, <2>6 DEF Guarded
    <3> QED BY <2>1, <2>4, <3>1, <3>2 DEF k
  <2> QED BY <2>5, <2>6, SentinelIsFound
<1> QED BY <1>1, <1>2, <1>3

\* A launch leaves the sentinel beside each variable it overrides.
LEMMA LaunchKeepsGuard ==
    ASSUME NEW env, Guarded(env), NEW next, Launches(env, next) \/ UserSets(env, next)
    PROVE  Guarded(next)
<1>1. \A b \in ToSet(Agents) : Sentinel(b) \in Keys
  BY DEF Keys
<1>2. CASE UserSets(env, next)
  <2>1. PICK k \in Keys \ {Sentinel(a) : a \in ToSet(Agents)} :
               \E value : value \notin Proxies /\ next = [j \in Keys |-> IF j = k THEN value ELSE env[j]]
    BY <1>2 DEF UserSets
  <2>2. \A b \in ToSet(Agents) : next[Sentinel(b)] = env[Sentinel(b)]
    BY <1>1, <2>1
  <2>3. \A j \in Keys : next[j] \in Proxies => next[j] = env[j]
    BY <2>1
  <2> QED BY <2>2, <2>3 DEF Guarded
<1>3. CASE Launches(env, next)
  <2>1. PICK a \in ToSet(Agents), proxy \in Proxies, mitm \in BOOLEAN : next = Launched(env, a, proxy, mitm)
    BY <1>3 DEF Launches
  <2>2. Resolve(env, a) \notin Proxies /\ Resolve(env, a) # Unset
    BY ResolveSeesThrough
  <2>3. next = [k \in Keys |-> CASE k = Sentinel(a) -> Resolve(env, a)
                                 [] k # Sentinel(a) /\ ~mitm /\ k \in Overridden(a) -> proxy
                                 [] OTHER -> env[k]]
    BY <2>1 DEF Launched, BuildEnv
  <2>4. next[Sentinel(a)] = Resolve(env, a)
    BY <1>1, <2>3
  <2>5. \A k \in Keys : k # Sentinel(a) => next[k] = env[k] \/ (k \in Overridden(a) /\ next[k] = proxy)
    BY <2>3
  <2>6. \A b \in ToSet(Agents) : Sentinel(b) # Sentinel(a) => next[Sentinel(b)] = env[Sentinel(b)]
    BY <1>1, <2>5, RegistryAssumption DEF Overridden
  <2>7. \A b \in ToSet(Agents) : /\ next[Sentinel(b)] \notin Proxies
                                 /\ env[Sentinel(b)] # Unset => next[Sentinel(b)] # Unset
    <3>1. ASSUME NEW b \in ToSet(Agents)
          PROVE  /\ next[Sentinel(b)] \notin Proxies
                 /\ env[Sentinel(b)] # Unset => next[Sentinel(b)] # Unset
      <4>1. CASE Sentinel(b) = Sentinel(a)
        <5>1. next[Sentinel(b)] = Resolve(env, a)
          BY <2>4, <4>1
        <5> QED BY <2>2, <5>1
      <4>2. CASE Sentinel(b) # Sentinel(a)
        BY <2>6, <4>2 DEF Guarded
      <4> QED BY <4>1, <4>2
    <3> QED BY <3>1
  <2>8. ASSUME NEW k \in Keys, next[k] \in Proxies
        PROVE  \E b \in ToSet(Agents) : Overrides(b, k) /\ next[Sentinel(b)] # Unset
    <3>1. k # Sentinel(a)
      BY <2>2, <2>4, <2>8
    <3>2. CASE next[k] = env[k]
      <4>1. PICK b \in ToSet(Agents) : Overrides(b, k) /\ env[Sentinel(b)] # Unset
        BY <2>8, <3>2 DEF Guarded
      <4> QED BY <2>7, <4>1
    <3>3. CASE k \in Overridden(a)
      <4>1. Overrides(a, k)
        BY <3>3 DEF Overridden, Overrides
      <4> QED BY <2>2, <2>4, <4>1
    <3> QED BY <2>5, <3>1, <3>2, <3>3
  <2> QED BY <2>7, <2>8 DEF Guarded
<1> QED BY <1>2, <1>3

\* However deep msc processes are nested, the environment stays guarded: a first
\* one that is not would have been made by a launch, or by the user, of one that is.
LEMMA InheritedIsGuarded ==
    ASSUME NEW env, Inherited(env)
    PROVE  Guarded(env)
<1>a. PICK n \in Nat : \E chain :
         /\ NamesNoProxy(chain[0]) /\ chain[n] = env
         /\ \A i \in 1..n : Launches(chain[i - 1], chain[i]) \/ UserSets(chain[i - 1], chain[i])
  BY DEF Inherited
<1>1. PICK chain :
         /\ NamesNoProxy(chain[0]) /\ chain[n] = env
         /\ \A i \in 1..n : Launches(chain[i - 1], chain[i]) \/ UserSets(chain[i - 1], chain[i])
  BY <1>a
<1> DEFINE Bad == {i \in 0..n : ~Guarded(chain[i])}
<1>2. Guarded(chain[0])
  <2>1. \A b \in ToSet(Agents) : Sentinel(b) \in Keys
    BY DEF Keys
  <2> QED BY <1>1, <2>1 DEF Guarded, NamesNoProxy
<1>3. SUFFICES ASSUME Bad # {} PROVE FALSE
  BY <1>1
<1>4. Bad \in SUBSET Nat
  OBVIOUS
<1>5. PICK m \in Bad : \A j \in Bad : m <= j
  <2> HIDE DEF Bad
  <2> QED BY <1>3, <1>4, LeastOfNat
<1>6. m \in 0..n /\ ~Guarded(chain[m]) /\ m # 0
  BY <1>2, <1>5
<1>7. m \in 1..n /\ m - 1 \in 0..n /\ ~(m <= m - 1)
  BY <1>6
<1>8. Guarded(chain[m - 1])
  BY <1>5, <1>7
<1>9. Launches(chain[m - 1], chain[m]) \/ UserSets(chain[m - 1], chain[m])
  BY <1>1, <1>7
<1> QED BY <1>6, <1>8, <1>9, LaunchKeepsGuard

\* In whatever environment nested msc processes and their users have left to it, an
\* agent's upstream is never one of their proxies (Resolve, sentinelForEnv, BuildEnv,
\* BuildMITMEnv).
THEOREM UpstreamsAreReal ==
    ASSUME \A env \in Environments : Inherited(env)
    PROVE  SessionSpec => []UpstreamIsReal
<1>1. SessionInit => UpstreamIsReal
  BY ProxyAssumption DEF SessionInit, UpstreamIsReal
<1>2. UpstreamIsReal /\ [SessionNext]_sessionVars => UpstreamIsReal'
  <2> SUFFICES ASSUME UpstreamIsReal, [SessionNext]_sessionVars, upstream' # upstream
               PROVE  UpstreamIsReal'
    BY DEF UpstreamIsReal
  <2>1. CASE StartUp
    <3>1. CASE ResolveUpstream
      <4>1. PICK env \in Environments, a \in ToSet(Agents) : upstream' = Resolve(env, a)
        BY <3>1 DEF ResolveUpstream
      <4>2. Guarded(env)
        BY InheritedIsGuarded
      <4> QED BY <4>1, <4>2, ResolveSeesThrough DEF UpstreamIsReal
    <3>2. CASE ~ResolveUpstream
      <4>1. upstream' = Unset
        BY <2>1, <3>2 DEF StartUp, ParseFlags, Command, ResolveConfig, HealthCheck, LoadCA, Preview, StartProxy, Launch
      <4> QED BY <4>1, ProxyAssumption DEF UpstreamIsReal
    <3> QED BY <3>1, <3>2
  <2>2. CASE Finish
    BY <2>2, FinishStep DEF KeepLaunch
  <2>3. CASE AgentStep
    BY <2>3, AgentsStep
  <2>4. CASE SignalStep
    BY <2>4, SignalsStep
  <2>5. CASE TurnsStep
    BY <2>5 DEF TurnsStep, TurnBegins, TurnFlies, mainVars
  <2>6. CASE UNCHANGED sessionVars
    BY <2>6 DEF sessionVars, mainVars
  <2> QED BY <2>1, <2>2, <2>3, <2>4, <2>5, <2>6 DEF SessionNext, AgentStep, SignalStep, TurnsStep
<1> QED BY <1>1, <1>2, PTL DEF SessionSpec
=============================================================================
