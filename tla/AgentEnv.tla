------------------------------ MODULE AgentEnv -------------------------------
(***************************************************************************)
(* The environment an agent is launched in (internal/agents/agents.go):    *)
(* Resolve finds the upstream an agent would talk to without msc, and      *)
(* BuildEnv or BuildMITMEnv route the child through the proxy.  A child    *)
(* may be a shell that starts msc again, so Resolve has to see through the *)
(* proxies of its parents: each leaves a sentinel with the real upstream.  *)
(*                                                                         *)
(* An environment is a function on the variables; Unset is a value.        *)
(***************************************************************************)
EXTENDS Naturals, Sequences, SequencesExt, FiniteSetsExt

CONSTANTS
    Agents,      \* registry names, in sorted order
    EnvKey,      \* EnvKey[a]: the variable msc overrides
    ExtraKeys,   \* ExtraKeys[a]: the others it overrides
    ArgsRouted,  \* agents that take the proxy address from an argument
    DetectEnv,   \* DetectEnv[a]: the variables that may name the upstream
    DefaultURL,
    AltCond,     \* AltCond[a]: the variable that selects AltURL, or Unset
    AltURL,
    Unset

Sentinel(a) == <<"MSC_UPSTREAM", a>>

\* The registry names an upstream for every agent, and no base URL is a sentinel.
ASSUME RegistryAssumption ==
    /\ Agents \in Seq(ToSet(Agents))
    /\ \A a \in ToSet(Agents) :
          /\ DetectEnv[a] \in Seq(ToSet(DetectEnv[a]))
          /\ DefaultURL[a] # Unset
          /\ AltCond[a] # Unset => AltURL[a] # Unset
          /\ \A b \in ToSet(Agents) : Sentinel(b) \notin ExtraKeys[a] \cup {EnvKey[a]}

Keys == UNION {{EnvKey[a], Sentinel(a)} \cup ExtraKeys[a] \cup ToSet(DetectEnv[a]) \cup
               (IF AltCond[a] = Unset THEN {} ELSE {AltCond[a]}) : a \in ToSet(Agents)}

\* The first of a sequence of keys that is set.
FirstSet(env, keys) == SelectInSeq(keys, LAMBDA k : env[k] # Unset)

Trusting(env, k) == Unset                                            \* mutant
\* The real upstream behind a variable some parent msc has overridden.
SentinelForEnv(env, k) ==
    LET i == SelectInSeq(Agents, LAMBDA a :
                 env[Sentinel(a)] # Unset /\ (k = EnvKey[a] \/ k \in ExtraKeys[a]))
    IN  IF i = 0 THEN Unset ELSE env[Sentinel(Agents[i])]

Detected(env, k) ==
    LET real == SentinelForEnv(env, k) IN IF real = Unset THEN env[k] ELSE real

Resolve(env, a) ==
    LET i == FirstSet(env, DetectEnv[a])
    IN  CASE env[Sentinel(a)] # Unset -> env[Sentinel(a)]
          [] env[Sentinel(a)] = Unset /\ i > 0 -> Detected(env, DetectEnv[a][i])
          [] env[Sentinel(a)] = Unset /\ i = 0 ->
                IF AltCond[a] # Unset /\ env[AltCond[a]] # Unset THEN AltURL[a] ELSE DefaultURL[a]

\* The base-URL overrides; an agent routed by its arguments keeps its EnvKey.
Overridden(a) == ExtraKeys[a] \cup (IF a \in ArgsRouted THEN {} ELSE {EnvKey[a]})

\* MITM mode leaves the base URLs alone and only adds the sentinel.
BuildEnv(env, a, upstream, proxy, mitm) ==
    [k \in Keys |->
        CASE k = Sentinel(a) -> upstream
          [] k # Sentinel(a) /\ ~mitm /\ k \in Overridden(a) -> proxy
          [] OTHER -> env[k]]

\* What a shell started by the agent inherits.
Launched(env, a, proxy, mitm) == BuildEnv(env, a, Resolve(env, a), proxy, mitm)

\* Environments one more launch can make of those in envs.
Nested(envs, proxy) ==
    {Launched(env, a, proxy, mitm) : env \in envs, a \in ToSet(Agents), mitm \in BOOLEAN}
=============================================================================
