-------------------------------- MODULE Tunnel --------------------------------
(***************************************************************************)
(* The CONNECT tunnels of internal/proxy/mitm.go and the leaf certificates *)
(* they are served with (LeafFor in internal/mitm/ca.go).  A tunnel is a   *)
(* hijacked connection: copied blindly, or ended in TLS and served by an   *)
(* http.Server of its own, whose requests are turns of ProxyTurn or        *)
(* upgrades that are spliced (WSCapture has the bytes of a splice).        *)
(*                                                                         *)
(* One goroutine per tunnel, two more per blind copy, one per connection   *)
(* served.  The clients may leave, stay silent or refuse the certificate;  *)
(* the dials may fail.  Hosts have spellings; Canon gives the name, as its *)
(* place in the order by which the cache chooses its victim.               *)
(***************************************************************************)
EXTENDS ProxyTurn, SequencesExt

CONSTANTS
    Conns,          \* connections that open a tunnel
    Hosts,          \* hosts as a client may spell them
    Canon,          \* Canon[h]: normalizeHost(h), by rank
    Intercepted,    \* spellings shouldInterceptHost accepts
    MaxCache,       \* maxCacheEntries
    TunnelIdle,     \* tunnelIdleTimeout, in ticks
    MaxChunks,      \* bound: chunks copied through a blind tunnel
    MaxUpgrades,    \* bound: upgrades a session asks for
    MaxRequests     \* bound: tunnels and turns of a session

ASSUME TunnelAssumption ==
    /\ Canon \in [Hosts -> Nat \ {0}]
    /\ Intercepted \subseteq Hosts
    /\ MaxCache \in Nat \ {0}
    /\ TunnelIdle \in Nat \ {0}
    /\ MaxChunks \in Nat /\ MaxUpgrades \in Nat /\ MaxRequests \in Nat

VARIABLES
    tunnel,       \* where handleConnect stands
    target,       \* the host of the CONNECT
    peer,         \* the client of the tunnel
    via,          \* the connection of a turn
    refused,      \* handleConnect has a reason to give
    established,  \* history: the client could use it
    leaf,         \* the certificate it was served with
    copies,       \* directions of a blind copy still running
    quiet,        \* ticks since a direction last re-armed its deadline
    chunks,
    upgrades,     \* upgrades asked for
    tunnelLines,  \* outcome lines of tunnels and upgrades
    cache         \* leaves by name: fresh or expired

tunnelVars == <<tunnel, target, peer, via, refused, established, leaf, copies, quiet,
                chunks, upgrades, tunnelLines, cache>>
allVars == <<vars, tunnelVars>>

Plain == "plain"
NoLeaf == [name |-> 0, fresh |-> TRUE]
NoTarget == CHOOSE h \in Hosts : TRUE
Directions == {"up", "down"}

TunnelInit ==
    /\ Init
    /\ tunnel = [c \in Conns |-> "none"]
    /\ target = [c \in Conns |-> NoTarget]
    /\ peer = [c \in Conns |-> "here"]
    /\ via = [t \in Turns |-> Plain]
    /\ refused = [c \in Conns |-> FALSE]
    /\ established = [c \in Conns |-> FALSE]
    /\ leaf = [c \in Conns |-> NoLeaf]
    /\ copies = [c \in Conns |-> {}]
    /\ quiet = [c \in Conns |-> [d \in Directions |-> 0]]
    /\ chunks = [c \in Conns |-> 0]
    /\ upgrades = 0
    /\ tunnelLines = [c \in Conns |-> <<>>]
    /\ cache = <<>>

-----------------------------------------------------------------------------
Active(t) == stage[t] \notin {"idle", "ended"}
Carried(c) == {t \in Turns : via[t] = c /\ Active(t)}
Room == Cardinality({c \in Conns : tunnel[c] # "none"}) + Cardinality({t \in Turns : stage[t] # "idle"})
            < MaxRequests

Goto(c, s) == tunnel' = [tunnel EXCEPT ![c] = s]
\* A stage that gives up; the line is written when handleConnect returns.
Refuse(c) == Goto(c, "closing") /\ refused' = [refused EXCEPT ![c] = TRUE]
KeepTurns == UNCHANGED vars
KeepCopy == UNCHANGED <<copies, quiet, chunks>>

Connect(c, h) ==
    /\ tunnel[c] = "none" /\ Room
    /\ target' = [target EXCEPT ![c] = h]
    /\ Goto(c, "hijack")
    /\ Count({"requests"})
    /\ UNCHANGED <<stage, req, source, status, answer, heard, relayed, writing, budget, blocked,
                   agent, panicked, offered, lines>>
    /\ KeepCopy
    /\ UNCHANGED <<peer, via, refused, established, leaf, upgrades, tunnelLines, cache>>

\* Which client bytes were read ahead does not matter: prefixConn replays them.
Hijack(c) ==
    /\ tunnel[c] = "hijack"
    /\ \/ /\ Goto(c, IF target[c] \in Intercepted THEN "confirm" ELSE "dial")
          /\ UNCHANGED refused
       \/ Refuse(c)
    /\ KeepTurns /\ KeepCopy
    /\ UNCHANGED <<target, peer, via, established, leaf, upgrades, tunnelLines, cache>>

\* A blind tunnel is confirmed only once its host was reached.
Dial(c) ==
    /\ tunnel[c] = "dial"
    /\ \/ Goto(c, "confirm") /\ UNCHANGED refused
       \/ Refuse(c)
    /\ KeepTurns /\ KeepCopy
    /\ UNCHANGED <<target, peer, via, established, leaf, upgrades, tunnelLines, cache>>

\* A write to a client that left may still succeed.
Confirm(c) ==
    /\ tunnel[c] = "confirm"
    /\ \/ /\ target[c] \in Intercepted
          /\ Goto(c, "hello")
          /\ UNCHANGED <<refused, established, copies>>
       \/ /\ target[c] \notin Intercepted
          /\ Goto(c, "copying")
          /\ copies' = [copies EXCEPT ![c] = Directions]
          /\ established' = [established EXCEPT ![c] = TRUE]
          /\ UNCHANGED refused
       \/ /\ peer[c] = "gone"
          /\ Refuse(c)
          /\ UNCHANGED <<established, copies>>
    /\ KeepTurns
    /\ UNCHANGED <<target, peer, via, leaf, quiet, chunks, upgrades, tunnelLines, cache>>

-----------------------------------------------------------------------------
(***************************************************************************)
(* The blind copy.  Each direction re-arms its own deadline, ends at the   *)
(* end of its source, on an error or by the deadline, and half-closes its  *)
(* destination.                                                            *)
(***************************************************************************)
Chunk(c, d) ==
    /\ d \in copies[c] /\ chunks[c] < MaxChunks
    /\ chunks' = [chunks EXCEPT ![c] = @ + 1]
    /\ quiet' = [quiet EXCEPT ![c][d] = 0]
    /\ KeepTurns
    /\ UNCHANGED <<tunnel, target, peer, via, refused, established, leaf, copies, upgrades,
                   tunnelLines, cache>>

EndOfCopy(c, d) ==
    /\ copies' = [copies EXCEPT ![c] = @ \ {d}]
    /\ quiet' = [quiet EXCEPT ![c][d] = 0]
    /\ tunnel' = [tunnel EXCEPT ![c] = IF copies[c] = {d} THEN "closing" ELSE @]
    /\ KeepTurns
    /\ UNCHANGED <<target, peer, via, refused, established, leaf, chunks, upgrades,
                   tunnelLines, cache>>

CopyEnds(c, d) == d \in copies[c] /\ EndOfCopy(c, d)

Expired(c, d) == quiet[c][d] = TunnelIdle

IdleEnds(c, d) == d \in copies[c] /\ Expired(c, d) /\ EndOfCopy(c, d)

IdleTick(c) ==
    /\ \E d \in copies[c] : quiet[c][d] < TunnelIdle
    /\ quiet' = [quiet EXCEPT ![c] = [d \in Directions |->
                    IF d \in copies[c] /\ @[d] < TunnelIdle THEN @[d] + 1 ELSE @[d]]]
    /\ KeepTurns
    /\ UNCHANGED <<tunnel, target, peer, via, refused, established, leaf, copies, chunks,
                   upgrades, tunnelLines, cache>>

-----------------------------------------------------------------------------
(***************************************************************************)
(* The handshake.  Looking a leaf up and filling it in are two critical    *)
(* sections with the minting between them.                                 *)
(***************************************************************************)
SameHost(a, b) == Canon[a] = Canon[b]

\* The leaf is for the host of the CONNECT, whatever the hello asked for.
Minted(c) == [name |-> Canon[target[c]], fresh |-> TRUE]

AnyAge(n) == n \in DOMAIN cache                                      \* mutant
Cached(n) == n \in DOMAIN cache /\ cache[n]

\* A hello without a name is one of the target's.
Hello(c, name) ==
    /\ tunnel[c] = "hello" /\ peer[c] = "here"
    /\ \/ /\ ~SameHost(name, target[c])
          /\ Refuse(c)
          /\ UNCHANGED leaf
       \/ /\ SameHost(name, target[c])
          /\ LET n == Canon[target[c]]
             IN  IF Cached(n)
                 THEN Goto(c, "shaking") /\ leaf' = [leaf EXCEPT ![c] = [name |-> n, fresh |-> cache[n]]]
                 ELSE Goto(c, "minting") /\ leaf' = [leaf EXCEPT ![c] = Minted(c)]
          /\ UNCHANGED refused
    /\ KeepTurns /\ KeepCopy
    /\ UNCHANGED <<target, peer, via, established, upgrades, tunnelLines, cache>>

Full(n) == n \notin DOMAIN cache /\ Cardinality(DOMAIN cache) >= MaxCache

Insert(c) ==
    /\ tunnel[c] = "minting"
    /\ LET n == leaf[c].name
           kept == IF Full(n) THEN DOMAIN cache \ {Min(DOMAIN cache)} ELSE DOMAIN cache
       IN  cache' = [m \in kept \cup {n} |-> IF m = n THEN TRUE ELSE cache[m]]
    /\ Goto(c, "shaking")
    /\ KeepTurns /\ KeepCopy
    /\ UNCHANGED <<target, peer, via, refused, established, leaf, upgrades, tunnelLines>>

LeafExpires(n) ==
    /\ Cached(n)
    /\ cache' = [cache EXCEPT ![n] = FALSE]
    /\ KeepTurns /\ KeepCopy
    /\ UNCHANGED <<tunnel, target, peer, via, refused, established, leaf, upgrades, tunnelLines>>

\* The client trusts the leaf.
Shake(c) ==
    /\ tunnel[c] = "shaking" /\ peer[c] = "here"
    /\ Goto(c, "serving")
    /\ established' = [established EXCEPT ![c] = TRUE]
    /\ KeepTurns /\ KeepCopy
    /\ UNCHANGED <<target, peer, via, refused, leaf, upgrades, tunnelLines, cache>>

\* It left, it refuses the leaf, or it is silent until the deadline.
HandshakeFails(c) ==
    /\ tunnel[c] \in {"hello", "shaking"}
    /\ Refuse(c)
    /\ KeepTurns /\ KeepCopy
    /\ UNCHANGED <<target, peer, via, established, leaf, upgrades, tunnelLines, cache>>

-----------------------------------------------------------------------------
(***************************************************************************)
(* Serving the decrypted connection.  Its requests come one at a time; the *)
(* listener's second Accept waits until the connection is closed, by the   *)
(* server or by the splice that took it over.                              *)
(***************************************************************************)
Request(c, t, r) ==
    /\ tunnel[c] = "serving" /\ peer[c] = "here"
    /\ ~r.upgrade
    /\ Carried(c) = {}
    /\ Room
    /\ Arrive(t, r)
    /\ via' = [via EXCEPT ![t] = c]
    /\ KeepCopy
    /\ UNCHANGED <<tunnel, target, peer, refused, established, leaf, upgrades,
                   tunnelLines, cache>>

\* A request outside any tunnel.
PlainRequest(t, r) ==
    /\ Room
    /\ Arrive(t, r)
    /\ UNCHANGED tunnelVars

\* An upgrade is spliced, past the turn pipeline.
Upgrade(c) ==
    /\ tunnel[c] = "serving" /\ peer[c] = "here"
    /\ Carried(c) = {} /\ upgrades < MaxUpgrades
    /\ upgrades' = upgrades + 1
    /\ Goto(c, "splicing")
    /\ Count({"requests"})
    /\ UNCHANGED <<stage, req, source, status, answer, heard, relayed, writing, budget, blocked,
                   agent, panicked, offered, lines>>
    /\ KeepCopy
    /\ UNCHANGED <<target, peer, via, refused, established, leaf, tunnelLines, cache>>

UpgradeLine(failed) == [kind |-> "upgrade", refused |-> failed]
LogUpgrade(c, failed) == tunnelLines' = [tunnelLines EXCEPT ![c] = Append(@, UpgradeLine(failed))]

NotClosed(c) == Goto(c, "leaked")                                    \* mutant
\* The deferred Close of the hijacked connection wakes the listener.
Closed(c) == Goto(c, "served")

\* spliceUpgrade returns, with a reason or without.
UpgradeOver(c, failed) ==
    /\ LogUpgrade(c, failed)
    /\ Closed(c)
    /\ KeepTurns /\ KeepCopy
    /\ UNCHANGED <<target, peer, via, refused, established, leaf, upgrades, cache>>

NoReasonGiven(c) == tunnel[c] = "splicing" /\ UpgradeOver(c, FALSE)    \* mutant
\* No hijack, no backend, or the request could not be forwarded.
SpliceFails(c) == tunnel[c] = "splicing" /\ UpgradeOver(c, TRUE)

\* The request is with the backend: the upgrade counts, whatever the answer.
ForwardUpgrade(c) ==
    /\ tunnel[c] = "splicing"
    /\ Goto(c, "awaiting")
    /\ Count({"upgraded"})
    /\ UNCHANGED <<stage, req, source, status, answer, heard, relayed, writing, budget, blocked,
                   agent, panicked, offered, lines>>
    /\ KeepCopy
    /\ UNCHANGED <<target, peer, via, refused, established, leaf, upgrades, tunnelLines, cache>>

\* No answer in time, none that is a header, or the agent cannot be reached with it.
Unanswered(c) == tunnel[c] = "awaiting" /\ UpgradeOver(c, FALSE)

\* The answer went to the agent; the deadline is lifted.
Splice(c) ==
    /\ tunnel[c] = "awaiting"
    /\ Goto(c, "spliced")
    /\ KeepTurns /\ KeepCopy
    /\ UNCHANGED <<target, peer, via, refused, established, leaf, upgrades, tunnelLines, cache>>

\* Both peers are done with the splice.
SpliceEnds(c) == tunnel[c] = "spliced" /\ UpgradeOver(c, FALSE)

\* The server closes a connection that is idle too long, broken or left.
CloseServed(c) ==
    /\ tunnel[c] = "serving" /\ Carried(c) = {}
    /\ Closed(c)
    /\ KeepTurns /\ KeepCopy
    /\ UNCHANGED <<target, peer, via, refused, established, leaf, upgrades, tunnelLines, cache>>

\* Accept fails, Serve returns.
ServeReturns(c) ==
    /\ tunnel[c] = "served"
    /\ Goto(c, "closing")
    /\ KeepTurns /\ KeepCopy
    /\ UNCHANGED <<target, peer, via, refused, established, leaf, upgrades, tunnelLines, cache>>

\* What remains of a tunnel is its line.
Forget(c) ==
    /\ target' = [target EXCEPT ![c] = NoTarget]
    /\ peer' = [peer EXCEPT ![c] = "gone"]
    /\ refused' = [refused EXCEPT ![c] = FALSE]
    /\ established' = [established EXCEPT ![c] = FALSE]
    /\ leaf' = [leaf EXCEPT ![c] = NoLeaf]
    /\ chunks' = [chunks EXCEPT ![c] = 0]

\* The deferred line, on every path out of handleConnect.
LogTunnel(c) ==
    /\ tunnel[c] = "closing"
    /\ Goto(c, "ended")
    /\ tunnelLines' = [tunnelLines EXCEPT ![c] = Append(@, [kind |-> "connect", refused |-> refused[c]])]
    /\ Forget(c)
    /\ KeepTurns
    /\ UNCHANGED <<via, copies, quiet, upgrades, cache>>

\* The turn it carries, if any, loses its agent with it.  From a copy or a
\* splice a client leaves by its end.
ClientLeaves(c) ==
    /\ tunnel[c] \notin {"none", "copying", "spliced", "closing", "ended"} /\ peer[c] = "here"
    /\ peer' = [peer EXCEPT ![c] = "gone"]
    /\ agent' = [t \in Turns |-> IF t \in Carried(c) THEN "gone" ELSE agent[t]]
    /\ UNCHANGED <<stage, req, source, status, answer, heard, relayed, writing, budget, blocked,
                   panicked, offered, lines, counters>>
    /\ KeepCopy
    /\ UNCHANGED <<tunnel, target, via, refused, established, leaf, upgrades, tunnelLines, cache>>

-----------------------------------------------------------------------------
Handle(c) ==
    \/ Hijack(c) \/ Dial(c) \/ Confirm(c) \/ Insert(c)
    \/ (\E h \in Hosts : Hello(c, h)) \/ Shake(c) \/ HandshakeFails(c)
    \/ (\E d \in Directions : IdleEnds(c, d)) \/ IdleTick(c)
    \/ SpliceFails(c) \/ ForwardUpgrade(c) \/ Unanswered(c) \/ CloseServed(c) \/ ServeReturns(c) \/ LogTunnel(c)

TunnelClient(c) ==
    \/ (\E h \in Hosts : Connect(c, h)) \/ Upgrade(c) \/ ClientLeaves(c) \/ Splice(c) \/ SpliceEnds(c)
    \/ \E d \in Directions : Chunk(c, d) \/ CopyEnds(c, d)
    \/ \E t \in Turns : \E r \in Requests[t] : Request(c, t, r)

\* A step of a turn once it has arrived; the client of a tunnel leaves it by
\* ClientLeaves.
Proceed(t) ==
    \/ Handler(t) \/ Upstream(t) \/ Panic(t)
    \/ \E how \in {"reading", "stalled", "gone"} :
          (how = "gone" => via[t] = Plain) /\ AgentTurns(t, how)

TunnelNext ==
    \/ \E c \in Conns : Handle(c) \/ TunnelClient(c)
    \/ \E n \in DOMAIN cache : LeafExpires(n)
    \/ \E t \in Turns : \E r \in Requests[t] : PlainRequest(t, r)
    \/ Tick /\ UNCHANGED tunnelVars
    \/ \E t \in Turns : Proceed(t) /\ UNCHANGED tunnelVars

TunnelSpec == TunnelInit /\ [][TunnelNext]_allVars

\* What msc does by itself happens; the deadlines are among it.
TunnelFairness ==
    /\ \A c \in Conns : WF_allVars(Handle(c))
    /\ \A t \in Turns :
          /\ WF_allVars(Handler(t) /\ UNCHANGED tunnelVars)
          /\ SF_allVars(Written(t) /\ UNCHANGED tunnelVars)
    /\ WF_allVars(Tick /\ UNCHANGED tunnelVars)

TunnelFairSpec == TunnelSpec /\ TunnelFairness

-----------------------------------------------------------------------------
\* A client is served with an unexpired leaf for the host it asked the tunnel
\* for, whatever its hello named and whatever other tunnels did to the cache,
\* and the cache stays within its bound.
LeafIsRight ==
    /\ \A c \in Conns : tunnel[c] \in {"shaking", "serving"} =>
          leaf[c] = [name |-> Canon[target[c]], fresh |-> TRUE]
    /\ Cardinality(DOMAIN cache) <= MaxCache

Logged(line) == UNION {{<<c, i>> : i \in {j \in 1..Len(tunnelLines[c]) : tunnelLines[c][j] = line}} : c \in Conns}

\* Every turn, tunnel and upgrade ends in one line of its own.  A tunnel's has a
\* reason exactly if its client could not use it.  An upgrade's has one exactly if
\* its request did not reach the backend: the others are those "upgraded" counts,
\* answered or not.  Every request is counted once: the CONNECT, the upgrade, the
\* turn (logTunnel, spliceUpgrade, ServeHTTP).
TurnsAndTunnelsAddUp ==
    /\ OutcomesAddUp
    /\ \A c \in Conns :
          Cardinality({i \in DOMAIN tunnelLines[c] : tunnelLines[c][i].kind = "connect"})
             = (IF tunnel[c] = "ended" THEN 1 ELSE 0)
    /\ \A c \in Conns : tunnel[c] = "closing" => refused[c] = ~established[c]
    /\ counters["upgraded"] = Cardinality(Logged(UpgradeLine(FALSE)))
                                 + Cardinality({c \in Conns : tunnel[c] \in {"awaiting", "spliced"}})
    /\ upgrades = counters["upgraded"] + Cardinality(Logged(UpgradeLine(TRUE)))
                                        + Cardinality({c \in Conns : tunnel[c] = "splicing"})
    /\ counters["requests"] = upgrades + Cardinality({c \in Conns : tunnel[c] # "none"})
                                       + Cardinality({t \in Turns : stage[t] # "idle"})

\* What keeps a tunnel open for good: an answered upgrade, whose splice has no
\* deadline, or a turn whose upstream is silent.
HeldOpen(c) == tunnel[c] = "spliced" \/ \E t \in Carried(c) : stage[t] \in {"upstream", "relaying"} /\ ~writing[t]

\* A tunnel gives up its goroutines and sockets in the end, whatever its
\* peers do or fail to do, unless one of those two holds it.
TunnelEnds == \A c \in Conns : tunnel[c] # "none" ~> (tunnel[c] = "ended" \/ [](HeldOpen(c)))
=============================================================================
