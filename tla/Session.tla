------------------------------- MODULE Session -------------------------------
(***************************************************************************)
(* A run of msc (cmd/msc/main.go): the start-up with its early exits, the  *)
(* agent as a child process (internal/agents/child.go), the signals        *)
(* (cmd/msc/util.go) and the shutdown of the proxy and of the store, ended *)
(* by the exit code of the agent.  The turns are those of TurnLife.        *)
(*                                                                         *)
(* Concurrent: run(), the goroutine that waits for the child, the child,   *)
(* whoever sends signals, and every turn.  Codes are those a shell sees.   *)
(* A child is assumed to have started, or to have failed to, within the    *)
(* three seconds of grace; signalChildren is one step.                     *)
(***************************************************************************)
EXTENDS TurnLife, AgentEnv

CONSTANTS
    Tunnelled,     \* turns that arrive through a hijacked MITM tunnel
    Settings,      \* command lines: dryRun, force, mitm
    Terminals,     \* proc: /proc exists; group, foreground: process groups
    Environments,  \* environments msc may be started in
    Proxies,       \* addresses of the msc processes around it
    ChildCodes,    \* exit codes of an agent
    MaxSignals     \* bound: signals sent

ASSUME SessionAssumption ==
    /\ Tunnelled \subseteq Turns
    /\ \A s \in Settings : s.dryRun \in BOOLEAN /\ s.force \in BOOLEAN /\ s.mitm \in BOOLEAN
    /\ \A x \in Terminals : /\ x.proc \in BOOLEAN
                            /\ x.group \in {"msc", "child"}
                            /\ x.foreground \in {"msc", "child", "none"}
    /\ ChildCodes \subseteq Nat
    /\ MaxSignals \in Nat

\* A proxy listens on an address of its own, which no upstream of the registry has.
ASSUME ProxyAssumption ==
    /\ Unset \notin Proxies
    /\ \A a \in ToSet(Agents) :
          DefaultURL[a] \notin Proxies /\ (AltCond[a] # Unset => AltURL[a] \notin Proxies)

VARIABLES
    setting,
    terminal,
    at,         \* where run() stands
    upstream,   \* what Resolve returned, until the proxy has it
    child,      \* the agent process; unpublished between Start and setChild
    childExit,  \* how it ended
    done,       \* doneCh: the code its goroutine has sent
    sigCh,      \* the one-slot signal channel
    took,       \* the signal that began the shutdown
    unseen,     \* history: no child could be told of it then
    received,   \* signals that have reached the child
    sent,       \* signals sent to msc or to the foreground
    killed,     \* the SIGKILL of the fallback went out
    code,       \* the exit code run() holds
    warned      \* the shutdown reported turns that were cut off

mainVars == <<setting, terminal, at, upstream, child, childExit, done, sigCh, took,
              unseen, received, sent, killed, code, warned>>
sessionVars == <<lifeVars, mainVars>>

NoCode == 999
NoSignal == 0
INT  == 2
KILL == 9
TERM == 15
Catchable == {INT, TERM}
ExitUsage == 2
ExitNotFound == 127

SessionInit ==
    /\ LifeInit
    /\ setting \in Settings
    /\ terminal \in Terminals
    /\ at = "flags"
    /\ upstream = Unset
    /\ child = "none"
    /\ childExit = NoCode
    /\ done = NoCode
    /\ sigCh = NoSignal
    /\ took = NoSignal
    /\ unseen = FALSE
    /\ received = [s \in Catchable \cup {KILL} |-> 0]
    /\ sent = [s \in Catchable |-> 0]
    /\ killed = FALSE
    /\ code = NoCode
    /\ warned = FALSE

-----------------------------------------------------------------------------
(***************************************************************************)
(* Start-up.  Each step may fail; from the moment the store exists its     *)
(* deferred Drain runs on every return.                                    *)
(***************************************************************************)
KeepChild   == UNCHANGED <<child, childExit, done>>
KeepSignals == UNCHANGED <<sigCh, took, unseen, received, sent, killed>>

Before(s) == at = s /\ KeepChild /\ KeepSignals /\ UNCHANGED <<setting, terminal, warned>>

Goto(s) == at' = s /\ UNCHANGED <<lifeVars, code>>

Return(c) == at' = "exited" /\ code' = c

HasStore == at \notin {"flags", "command", "config"}

Undrained(c) == Return(c) /\ UNCHANGED lifeVars                      \* mutant
ReturnEarly(c) ==
    /\ Return(c)
    /\ IF HasStore THEN DrainStore ELSE UNCHANGED lifeVars

ParseFlags ==
    /\ Before("flags")
    /\ Goto("command") \/ ReturnEarly(ExitUsage)
    /\ UNCHANGED upstream

\* A command that launches nothing answers, a name no agent has is refused.
Command ==
    /\ Before("command")
    /\ Goto("config") \/ \E c \in {0, 1, ExitUsage} : ReturnEarly(c)
    /\ UNCHANGED upstream

ResolveConfig ==
    /\ Before("config")
    /\ Goto("health") \/ ReturnEarly(ExitUsage)
    /\ UNCHANGED upstream

\* An unreachable MuninnDB stops a launch, not a preview.
HealthCheck ==
    /\ Before("health")
    /\ Goto("upstream") \/ (~setting.force /\ ~setting.dryRun /\ ReturnEarly(1))
    /\ UNCHANGED upstream

ResolveUpstream ==
    /\ Before("upstream")
    /\ \E env \in Environments, a \in ToSet(Agents) : upstream' = Resolve(env, a)
    /\ Goto("ca") \/ ReturnEarly(ExitUsage)

LoadCA ==
    /\ Before("ca")
    /\ Goto("preview") \/ (setting.mitm /\ ReturnEarly(1))
    /\ UNCHANGED upstream

Preview ==
    /\ Before("preview")
    /\ IF setting.dryRun THEN \E c \in {0, 1} : ReturnEarly(c) ELSE Goto("proxy")
    /\ UNCHANGED upstream

\* New and Start; from here on only the proxy uses the upstream.
StartProxy ==
    /\ Before("proxy")
    /\ Goto("launch") \/ ReturnEarly(1)
    /\ upstream' = Unset

\* signal.Notify, then the goroutine that runs the agent; of the command line
\* only the mode matters after it.
Launch ==
    /\ at = "launch"
    /\ Goto("serving")
    /\ child' = "starting"
    /\ setting' = [setting EXCEPT !.force = FALSE]
    /\ KeepSignals
    /\ UNCHANGED <<terminal, upstream, childExit, done, warned>>

StartUp ==
    \/ ParseFlags \/ Command \/ ResolveConfig \/ HealthCheck \/ ResolveUpstream \/ LoadCA
    \/ Preview \/ StartProxy \/ Launch

-----------------------------------------------------------------------------
(***************************************************************************)
(* The agent.  runArgv finds and starts it, publishes it, waits for it,    *)
(* and the goroutine sends what came of it.                                *)
(***************************************************************************)
Alive == child \in {"unpublished", "running"}
\* What becomes of the child once msc is gone is not followed.
KeepRun == at # "exited" /\ UNCHANGED <<setting, terminal, at, upstream, code, warned, lifeVars>>

ChildStarts ==
    /\ child \in {"starting", "unpublished"}
    /\ child' = IF child = "starting" THEN "unpublished" ELSE "running"
    /\ KeepRun /\ KeepSignals
    /\ UNCHANGED <<childExit, done>>

\* Not in PATH, or the start failed.
StartFails ==
    /\ child = "starting"
    /\ \E c \in {ExitNotFound, 1} : childExit' = c /\ done' = c
    /\ child' = "reaped"
    /\ KeepRun /\ KeepSignals

\* By itself, or by a signal it has received.
ChildEnds ==
    /\ Alive
    /\ child' = "ended"
    /\ \/ childExit' \in ChildCodes
       \/ \E s \in Catchable \cup {KILL} : received[s] > 0 /\ childExit' = 128 + s
    /\ KeepRun /\ KeepSignals
    /\ UNCHANGED done

Opaque(c) == IF c > 128 THEN 255 ELSE c                              \* mutant
\* exitCodeFromErr: 128 + n for a child that signal n ended.
ExitCodeFromErr(c) == c

Reap ==
    /\ child = "ended"
    /\ child' = "reaped"
    /\ done' = ExitCodeFromErr(childExit)
    /\ KeepRun /\ KeepSignals
    /\ UNCHANGED childExit

-----------------------------------------------------------------------------
(***************************************************************************)
(* Signals.  Ctrl+C goes to every process of the foreground group, kill to *)
(* msc alone.  Before Notify the default action ends msc.                  *)
(***************************************************************************)
Reaches(sig) == received' = [received EXCEPT ![sig] = @ + 1]

\* The slot holds one signal, and is not read again once one was taken.
DeliverToMsc(sig) ==
    \/ /\ at \in {"serving", "grace", "shutting", "draining"}
       /\ sigCh' = IF sigCh = NoSignal /\ at = "serving" THEN sig ELSE sigCh
       /\ UNCHANGED <<at, code>>
    \/ /\ at \notin {"serving", "grace", "shutting", "draining"}
       /\ Return(128 + sig)
       /\ UNCHANGED sigCh

MaySignal(sig) ==
    /\ at # "exited"
    /\ sent[INT] + sent[TERM] < MaxSignals
    /\ sent' = [sent EXCEPT ![sig] = @ + 1]
    /\ UNCHANGED <<lifeVars, setting, terminal, upstream, child, childExit, done, took, unseen,
                   killed, warned>>

CtrlC ==
    /\ terminal.foreground # "none"
    /\ MaySignal(INT)
    /\ IF terminal.foreground = "msc" THEN DeliverToMsc(INT) ELSE UNCHANGED <<at, code, sigCh>>
    /\ IF Alive /\ terminal.group = terminal.foreground THEN Reaches(INT) ELSE UNCHANGED received

Kill(sig) == MaySignal(sig) /\ DeliverToMsc(sig) /\ UNCHANGED received

Always(sig) == TRUE                                                  \* mutant
OutsideOnly(sig) == terminal.group # terminal.foreground             \* mutant
\* A Ctrl+C has already reached a child in the foreground group.
ShouldForward(sig) == sig # INT \/ terminal.group # terminal.foreground

\* childProcs walks /proc; without it only the published handle is left.
InProc    == terminal.proc /\ child \in {"unpublished", "running", "ended"}
Published == child \in {"running", "ended"}

Forwards(sig) == IF InProc THEN ShouldForward(sig) ELSE sig # INT /\ Published

SignalChildren(sig) == IF Forwards(sig) /\ Alive THEN Reaches(sig) ELSE UNCHANGED received

-----------------------------------------------------------------------------
(***************************************************************************)
(* The two selects of run(), the shutdown and the exit.                    *)
(***************************************************************************)
KeepLaunch == UNCHANGED <<setting, terminal, upstream, child, childExit, done, sent>>

\* The agent is done, in the first select or within the grace.
TakeResult ==
    /\ at \in {"serving", "grace"}
    /\ done # NoCode
    /\ at' = "shutting"
    /\ code' = done
    /\ KeepLaunch /\ KeepSignals
    /\ UNCHANGED <<lifeVars, warned>>

TakeSignal ==
    /\ at = "serving"
    /\ sigCh # NoSignal
    /\ took' = sigCh
    /\ sigCh' = NoSignal
    /\ unseen' = ~(InProc \/ Published)
    /\ SignalChildren(sigCh)
    /\ at' = "grace"
    /\ KeepLaunch
    /\ UNCHANGED <<lifeVars, killed, code, warned>>

\* The timer may be picked although the agent is done as well.
GraceOver ==
    /\ at = "grace"
    /\ child \notin {"starting", "unpublished"}
    /\ SignalChildren(KILL)
    /\ killed' = TRUE
    /\ code' = 128 + took
    /\ at' = "shutting"
    /\ KeepLaunch
    /\ UNCHANGED <<lifeVars, sigCh, took, unseen, warned>>

\* What http.Server waits for: not what was hijacked from it.
Tracked == {t \in Turns \ (Tunnelled \cup hijacked) : life[t] = "flying"}

EndShutdown ==
    /\ at = "shutting"
    /\ at' = "draining"
    /\ DrainStore
    /\ KeepLaunch /\ KeepSignals
    /\ UNCHANGED code

Unwaited == at = "shutting"                                          \* mutant
Quiescent == Tracked = {}
ShutdownDone == Quiescent /\ EndShutdown /\ UNCHANGED warned

Patient == FALSE                                                     \* mutant
\* The context of five seconds expires.
DeadlinePasses == Tracked # {}
ShutdownCut == DeadlinePasses /\ EndShutdown /\ warned' = TRUE

\* Drain has returned: MuninnStore.
Exit ==
    /\ at = "draining"
    /\ at' = "exited"
    /\ KeepLaunch /\ KeepSignals
    /\ UNCHANGED <<lifeVars, code, warned>>

Finish == TakeResult \/ TakeSignal \/ GraceOver \/ ShutdownDone \/ ShutdownCut \/ Exit

-----------------------------------------------------------------------------
\* Turns come from the agent or from what it has started, until the process
\* ends; once Shutdown has returned, only through tunnels.
TurnBegins(t) ==
    /\ child \notin {"none", "starting"}
    /\ \/ t \notin Tunnelled /\ at \in {"serving", "grace", "shutting"}
       \/ t \in Tunnelled /\ setting.mitm /\ at \in {"serving", "grace", "shutting", "draining"}
    /\ Begin(t)
    /\ UNCHANGED mainVars

\* The connection of a tunnel left the server before its turn began.
TurnFlies(t) ==
    /\ at # "exited"
    /\ (t \notin Tunnelled /\ Hijack(t)) \/ HandOver(t) \/ End(t)
    /\ UNCHANGED mainVars

SessionNext ==
    \/ StartUp \/ Finish
    \/ ChildStarts \/ StartFails \/ ChildEnds \/ Reap
    \/ CtrlC \/ \E sig \in Catchable : Kill(sig)
    \/ \E t \in Turns : TurnBegins(t) \/ TurnFlies(t)

SessionSpec == SessionInit /\ [][SessionNext]_sessionVars

\* run() and the goroutine of the child make progress, and the timers fire;
\* nothing is assumed of the agent once it has started, nor of the turns.
SessionFairness ==
    /\ WF_sessionVars(StartUp)
    /\ WF_sessionVars(Finish)
    /\ WF_sessionVars(ChildStarts \/ StartFails)
    /\ WF_sessionVars(Reap)

SessionFairSpec == SessionSpec /\ SessionFairness

-----------------------------------------------------------------------------
\* A launch is one that ran the agent and was not ended before by a signal.
Ran == at = "exited" /\ child # "none"

\* msc does not exit with a capture of a turn that its server knew of still
\* to come, or handed to a store that was already drained, unless it has said
\* that turns were cut off; and on no exit is the store left undrained.
NothingLostSilently ==
    /\ Ran /\ ~warned => \A t \in Turns \ (Tunnelled \cup hijacked) :
                            life[t] # "flying" /\ exchange[t] # "dropped"
    /\ Ran \/ (at = "exited" /\ upstream # Unset /\ sent[INT] + sent[TERM] = 0) => ~storeOpen

\* The agent hears a signal as often as it was sent: a Ctrl+C that the kernel
\* delivers to both is not forwarded as a second one.  And it is told to end
\* before it is killed, unless it could not be told from a Ctrl+C it heard.
SignalOnce ==
    /\ \A sig \in Catchable : received[sig] <= sent[sig]
    /\ killed => \/ received[took] > 0 \/ unseen \/ ~Alive
                 \/ took = INT /\ (terminal.proc => terminal.group = terminal.foreground)

\* No agent is left running against a proxy that is gone, and msc ends with
\* the code a shell would have shown for the agent or, if it had to kill it,
\* for the signal.
AgentAccountedFor ==
    Ran => /\ child \in {"ended", "reaped"} \/ received[KILL] > 0
           /\ code = (IF killed THEN 128 + took ELSE childExit)

\* Whatever msc processes an agent is nested in, its upstream is never the
\* proxy of one of them, where each exchange would be stored twice.
UpstreamIsReal == upstream \notin Proxies

\* A signal, or the end of the agent, ends msc, whatever its turns and the
\* agent do about it.
SessionEnds == (sigCh # NoSignal \/ child = "ended") ~> at = "exited"
=============================================================================
