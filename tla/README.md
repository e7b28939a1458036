# A formal model of muninn-sidecar (msc)

`msc` is a proxy that runs beside a coding agent. It starts the agent as its
child with the provider's base URL (or `HTTPS_PROXY`) pointing at itself,
forwards every request to the real upstream, captures the exchanges worth
keeping and stores them as memories in MuninnDB, and, before it forwards a
request, recalls memories from MuninnDB and injects them as system context.
Nothing it does for memory may delay, alter or break what the agent sees.

This directory holds TLA+ modules that model the parts of the system with
interesting control, TLC configurations that check them on small instances, and
TLAPS proofs of the most important theorems for every value of the constants.
File references are to the repository's `src/`.

## 1. Inventory

### 1.1 Components

| Component | State it keeps | Operations | Hard behaviour | What makes it correct |
|---|---|---|---|---|
| **Asynchronous store** `internal/store/muninn.go` | queue channel (256), `queuedBytes`, `drained` under `queueMu`, dedup ring of 16 slots, batch, `flushCtx` | `Store`, the worker loop, `flushFormatted`, `callTool` with retries, `Drain` | producers race a lock-free budget and the close of the channel; retries of writes that may have been committed; a drain deadline that races a backoff; at-most-once by `dedup_key` | budget exact, every exchange settled in exactly one way, no send on a closed channel, no memory stored twice, nothing reported saved that is not, every drain returns |
| **WebSocket capture** `internal/proxy/wscapture.go` | per tunnel: two taps, two parsers, `lastReq`, `respText` | `spliceCopyTap`, `runWSParser`, `onClient`, `onServer` | four goroutines; a tap that fills up and is abandoned; parsers that overtake each other or give up; redelivered frames | forwarding never blocked, answers whole, a request stored once and with its own answer, no goroutine left behind |
| **WebSocket framing** `wsframe.go` | fragment buffer, inflate context | `readWSFrame`, `add`, `inflate` | fragments interleaved with control frames, size caps, a compression context that must not skip a message | a message comes out exactly once, as sent, or the parser stops |
| **Memory injector** `internal/inject/{inject,window,calibrate,mcp}.go` | session window, intent cache (`lastQuery*`, `lastWasEmpty`), session-start context, calibrated gate | `Enrich`, `fetchSessionContext`, `mergeMemories`, `groundMemories` | concurrent `Enrich` calls interleave between separate critical sections; caches with two clocks; retries of the session fetch | session context injected once, caches answer only for a fresh recall of the same intent, rejected memories stay out, every turn ends with a request to forward |
| **Memory selection** `internal/inject/{select,memory}.go` | none (pure) | `selectForInjection`, `supersedes`, `resolveConflicts`, `decayedScore` | order of threshold, fitness, duplicates and contradictions | one memory per concept, no contradiction and no near-duplicate survives, nothing under the gate |
| **Context block** `internal/inject/format.go`, `internal/proxy/filter.go`, `internal/apiformat` | none (pure) | `InjectContext`, `withinBudget`, `StripInjectedContext`, `FilterMCPTools`, the extraction of questions and answers | five request formats in many shapes; redaction and escaping change a text's length after it was measured; capture must not store what injection added, also through a nested sidecar | the stripped request is the agent's request, the block is what it was estimated to be, the memory is what was said |
| **MCP client** `internal/mcpclient` | request id counter | `CallWithID`, `classifyResponse`, `CheckEnvelope`, `RecallMemories`, `DedupKey` | a 200 that carries an error; content blocks of several shapes | an error is never read as success |
| **Reverse proxy turn** `internal/proxy/{proxy,access,deadline}.go` | per turn: captured body, recorder; global counters | `ServeHTTP`, `instrument`, `captureResponse`, `streamCapture`, `errorHandler`, `Shutdown` | end of a streamed body seen by reader, closer and panic recovery; write-idle deadline; shutdown with turns in flight | one outcome line and at most one capture per turn, whatever ends it |
| **SSE parsing** `internal/proxy/stream.go` | accumulators with caps | line splitter, per-format extraction | chunks that split lines, caps hit mid-stream | what is captured does not depend on where the stream was cut |
| **CONNECT tunnels** `internal/proxy/mitm.go` | listener of one connection, deadlines | `handleConnect`, `singleConnListener`, `spliceUpgrade`, `blindTunnel` | hijacked sockets that the server no longer bounds; an upgrade the backend never answers; second `Accept` blocks until the connection closes | every tunnel ends, once, with one outcome line |
| **Certificate authority** `internal/mitm` | files `ca-key.pem`, `ca-cert.pem`; leaf cache (1024) | `LoadOrCreateCA`, `persistCA`, `LeafFor` | crash between two file writes; two processes regenerating; cache check and insert in separate critical sections | never serves a pair that does not match; cache bounded, leaves valid |
| **Session lifecycle** `cmd/msc/main.go`, `internal/agents/child.go` | child registry, exit result | `run`, signal forwarding, `Shutdown`, `Drain` | a signal at any moment, a child that ignores it, shutdown deadline | the child gets a signal once, captures are drained or their loss is reported, the exit code is the child's |
| **Agent registry** `internal/agents` | environment of the child, CA bundle file | `Resolve`, `Exec`, `ExecMITM` | nested launches | the agent's upstream is never msc itself |
| **Statistics** `internal/stats` | atomic counters, latency maxima, model table (16) | `observe`, `RecordModel`, `Summary` | CAS loop for the maximum, check-then-act on the table | maxima never lose a sample, the arithmetic of the summary is never negative |
| **Clock** `internal/clock` | timers of the fake clock | `AfterFunc`, `Advance` | timers that fire while being stopped | a stopped timer does not fire |
| **Grounding judge** `internal/grounding`, `internal/clirun` | none | `Relevant`, `ParseMask` | a judge that hangs or answers garbage | fail open |
| **Redaction** `internal/redact` | none (pure) | `Secrets` | a replacement is longer or shorter than the secret | nothing stored, recalled by or injected contains a secret |
| Helpers, command line, offline tools (`internal/reqid`, `querysplit`, `strhash`, `config`, `cmd/msc` flags and commands, `cmd/msc-bench`, `msc-eval`, `msc-qa`) | none worth a state machine | string processing, printing, batch evaluation | none that interleaves or persists | see 6 |

### 1.2 How they interact

* The proxy goroutine of a turn calls `Injector.Enrich` (synchronously, MCP
  calls with a timeout), forwards, and on the end of the response calls
  `MuninnStore.Store`, which only enqueues. The WebSocket parser goroutines call
  `Store` too.
* One worker goroutine owns the dedup ring and the batch and talks to MuninnDB
  through the MCP client. The injector talks to the same vault through a client
  of its own, so the vault changes under its caches.
* `main.run` starts them in the order store, health check, CA, injector, proxy,
  child, and stops them in the order child, proxy, store.
* Shared mutable state: the queue and its lock, the atomic counters, the
  injector's `mu` and `sessionMu`, `wsExchange.mu`, the CA's cache and its files
  (shared between processes), the child registry.

## 2. Modules

| Module | Models | Kind |
|---|---|---|
| `DedupWindow` | `dedupWindow`: the ring of recent concept hashes | operators with state type |
| `MuninnStore` | the asynchronous store: producers, worker, drain, MuninnDB | component |
| `Delivery` | what the store promises: each exchange is offered and ends in exactly one fate | abstract specification |
| `MCMuninnStore` | small sessions for TLC | model |
| `MuninnStoreProofs` | theorems about `MuninnStore` | proofs |
| `WSCapture` | one upgraded WebSocket tunnel | component |
| `MCWSCapture` | the byte lengths of two deltas for TLC | model |
| `WSCaptureProofs` | theorems about `WSCapture` | proofs |
| `Selection` | `selectForInjection` and `resolveConflicts`, step by step | component |
| `MCSelection` | seven memories for TLC | model |
| `SelectionProofs` | theorems about `Selection` | proofs |
| `Injector` | concurrent `Enrich` calls on one injector | component |
| `MCInjector` | two intents and two memories for TLC | model |
| `InjectorProofs` | theorems about `Injector` | proofs |
| `CertAuthority` | the CA files of `msc --mitm`, shared by every msc process, and the agent told to trust them | component |
| `MCCertAuthority` | three launches for TLC | model |
| `CertAuthorityProofs` | theorems about `CertAuthority` | proofs |
| `ProxyTurn` | the turns of the reverse proxy: pipeline, captured answer, recovery, turn line, write deadline | component |
| `TurnLife` | what the session may rely on of its turns | abstract specification |
| `Tunnel` | CONNECT tunnels and the leaf cache, composed with `ProxyTurn` | composition |
| `MCTunnel` | two tunnels and a turn for TLC | model |
| `TunnelProofs` | theorems about `ProxyTurn`, its refinement of `TurnLife` among them, and about `Tunnel`, to which they carry over | proofs |
| `AgentEnv` | the environment of an agent and the upstream resolved from it | operators |
| `Session` | a run of msc, composed with `TurnLife` and `AgentEnv` | composition |
| `MCSession` | every command line, terminal and nesting for TLC | model |
| `SessionProofs` | theorems about `Session` | proofs |
| `Document` | JSON bodies and the accessors of `internal/apiformat` | operators |
| `ApiFormat` | format detection, the texts of a request and of an answer, the deltas of a stream | operators |
| `ContextBlock` | the block, its budget and its place in a request | operators |
| `CaptureFilter` | what is taken out of the bodies before the store | operators |
| `Conversation` | how an agent's library writes a conversation in each format (external) | operators |
| `EventStream` | `streamCapture`: a streamed answer put together from chunks | component |
| `FrameAssembler` | `wsframe.go`: messages put together from frames | component |
| `MemoryPath` | an exchange from the request to the memory | composition |
| `MCMemoryPath` | conversations, answers, streams and budgets for TLC | model |
| `MemoryPathProofs` | theorems about `FrameAssembler` and `MemoryPath` | proofs |

A definition marked `\* mutant` is a wrong variant of the one that follows it.
No specification uses it; `PROJECT.json` names, for every property, a variant
that makes TLC refute the property when it takes the place of the original.

How they fit together: `Session` stands on `TurnLife`, which `ProxyTurn`
implements and `Tunnel` does too, since its other steps leave the turns alone.
`MuninnStore` is what `storeOpen` and the exchange of `TurnLife` abstract.
`WSCapture` is what happens inside a `spliced` tunnel, and `FrameAssembler` what
happens inside one of its parsers. `MemoryPath` follows the data of one exchange
through the same places; `Injector` and `Selection` decide which memories it is
given.

### 2.1 MuninnStore

One producer per exchange runs `Store`: `ReserveLoad` and `ReserveCAS` are the
two halves of the CAS loop of `reserve` (another goroutine may act between
them), `EnterEnqueue` takes the read lock, `Send` and `Drop` are the two
branches of the select and the early returns. The worker's `Receive`, `Prepare`
(format, dedup, advance the ring, release the bytes), `Tick` and `Exit` are the
branches of its loop; a flush is `Attempt`, `Reply(r)` and `Backoff`, with
`Reply` deciding between success, retry and giving up the way `callTool` does.
`Commit(e)` is MuninnDB's and independent of the reply, so a lost answer is a
commit without a reply, and a timed-out attempt may commit late. `Drain` is one process
per caller, with `drainOnce`, the write lock, the close and the wait, and a
deadline that may fire whenever its timer is armed. Concepts, contents and sizes
are constants of the instance: formatting and redaction only matter to the
delivery through them.

History variables: `outcome` (what became of each exchange, the fate the
counters aggregate) and `age` (rolls since a concept was recorded, the meaning
the ring is compared with).

### 2.2 WSCapture

`sent[d]` is the stream written into direction `d`, `forwarded[d]` how much of
it the splice wrote to its sink. `Copy` forwards one chunk, and only then
`OfferTap` offers it to the tap or abandons the tap, as the code's order has it.
The parsers take from the taps at their own pace; each message is one action
because the two parsers share `lastReq` only, in one critical section per
message. The agent asks the next turn when it has received the end of the last,
and the backend answers in order, possibly redelivering its last response: that
is the environment codex presents, and the mispairing below needs nothing
stranger than it.

The text is counted in bytes, as the code does. A delta is its byte length
(`DeltaLen`) and the offsets at which its characters end (`CharEnds`); `respText` is
a sequence of such bytes. `Extend` keeps of a delta what `Fitting` leaves of it:
`clampBytes` backs off to the end of a character, so that a cut delta may leave
bytes of the cap free, which a later and narrower one takes. `AnswerTo` is the
reference: what the deltas of a turn, each heard once and in order, come to.

### 2.3 Selection

`Init` chooses any order of distinct candidates and how many of them clear the
gate. The scan is one action per branch of the loop body: `SkipUnfit`,
`SameConcept` (replace in place, words included, or pass over),
`SkipNearDuplicate`, `Keep` (with the concept index) and `EndScan` (the `break`
or the end). `resolveConflicts` is one `ResolvePair` per pair of the two nested
loops. `Supersedes` has both of the code's comparisons: of instants when both
parse as RFC3339, and of the strings otherwise. The scan sees the candidates in
the order `decayedWindowLocked` sorts them; how scores fade is in `Injector`.
`nearDups` is history: the candidates passed over as near-duplicates.

### 2.4 Injector

Every `Enrich` call is a process, and its steps are the critical sections of the
code with what lies between two of them: `EnterSession` / `FetchReturns` under
`sessionMu`; `Consult` (the last-query cache) and `ReadGate`, each under `mu`;
`Reuse` (the continuation's snapshot); `RecallReturns` or `RecallFails` (MuninnDB's
answer, with the calibration it feeds), `Merge`, `Gate`, `Ground` and `Remember`
for a fresh recall; `Inject` (the session context is taken, the request goes on).
Any set of memories may be the answer of a recall, any subset of the judged ones
may be rejected, which includes the judge that fails open. A retuned gate is any
of `Gates`: what `CalibrateThreshold` computes is abstracted to its range. Of
`selectForInjection` only the gate matters here; its other rules are `Selection`.
Scores are hundredths, scaled so that the decay by 0.7 per turn stays whole.
`now` counts ticks; `JudgeTicks` bounds the time between a recall's answer and
its entry in the cache, which is the judge's timeout.

History variables: `contextTo`, `fetchedAt`, `repliedAt`, `lastRecall` and
`rejectedFor` record who got the session context, when answers arrived, and what
was found and rejected for each intent; `overlapped` says whether any call began
while another was running.

### 2.5 CertAuthority

Every launch of `msc --mitm` is a process on the same three files: the key, the
certificate and the bundle. Each file operation is a step: the two reads of the
pair (`ReadCert`, `ReadKey`, which judges the pair and reuses it or generates a
CA in memory), then for a generated CA truncation and write of the key, its
chmod, truncation and write of the certificate; then the certificate read back
for the bundle (`Launch`), the bundle's truncation and write, and the agent that
reads the files its variables name (`Spawn`). Between any two steps another
launch may act, the process may die (`Stop`), or the operation may be refused
(`Refuse`; a refused read of the pair counts as no pair). `Blank` is the
content that does not parse: a missing, empty, torn or corrupt file. A CA is
named by the launch that generated it; `Fresh` and `Aged` are CAs of earlier
sessions, with time left and about to expire.

History variables: `trusted` (what each agent read), `refused`, `steady` (the
usable pair that has been on disk ever since a launch began) and `overlapped`.

### 2.6 ProxyTurn and TurnLife

Every turn is a process: `Arrive` (counted), `ReadBody` (the path's verdict and
the body's), `Enrich`, then `Respond` or `RoundTripFails` for the upstream,
the copy of the answer, and `LogTurn`, the deferred turn line on every path out.
`Capture` is `captureResponse` with its branches: what cannot be read is
counted, a stream is teed, anything else is read whole, and a body that is too
large or breaks off is answered 502. A copy is `CopyEvent` (a Read, which the tee
hears, and the Write that follows, after the deadline was extended) and `Written`;
it ends by `EndOfBody`, `ReadFails`, `AgentLost` or `DeadlineCuts`, the last
three through the panic of `httputil.ReverseProxy` and the recovery of
`ServeHTTP`. `Panic` is a stage of the pipeline itself that panics. `Release`
forgets what nothing reads after the line, to keep the state space small.
`blocked` is history: how long the Write in progress has waited.

`TurnLife` is the abstraction: a turn begins, is hijacked or hands over at most
one exchange, and ends. `Life` maps a turn's stage and what it offered to it.

### 2.7 Tunnel

`handleConnect` is `Connect`, `Hijack`, `Dial` (blind only), `Confirm`, then either
the two directions of the blind copy (`Chunk`, `CopyEnds`, `IdleEnds`, each with
a deadline of its own) or the handshake (`Hello`, `Insert`, `Shake`, or
`HandshakeFails` for whatever reason), the served connection (`Request` for turns
of `ProxyTurn`, upgrades, `CloseServed`) and `ServeReturns`, which
is the second `Accept` of the single-connection listener; `LogTunnel` is the
deferred line. An `Upgrade` takes the connection over. `SpliceFails` is every way
its request does not reach the backend, each with a reason on its line;
`ForwardUpgrade` has written it and counts the upgrade, and waits for the answer.
`Unanswered` is the end of that wait with nothing spliced: no head within
`upgradeHandshakeTimeout`, or an agent it cannot be passed on to. `Splice` starts
the copies, which no deadline bounds, and `SpliceEnds` ends them. `Hello` looks a leaf up and `Insert` stores the minted one: the
two critical sections of `LeafFor`, between which any other tunnel may act. A
host is one of its spellings; `Canon` is `normalizeHost`, as a rank because the
cache evicts the smallest name. `established` is history.

### 2.8 AgentEnv and Session

`AgentEnv` is `Resolve`, `sentinelForEnv` and the two ways an environment is built;
`Nested` iterates them, so that the environments `Session` is started in
include those another msc made. `Session` walks `run()` step by step: the
start-up with its early returns (each drains the store once it exists), `Launch`,
the child with its goroutine (`ChildStarts`, the window before `setChild` as
`unpublished`, `ChildEnds`, `Reap`), signals as the kernel delivers them (`CtrlC`
to the foreground group, `Kill` to msc alone), the two selects (`TakeResult`,
`TakeSignal`, `GraceOver`), `ShutdownDone` or `ShutdownCut`, and `Exit` after the
drain. `ShouldForward` is the test on process groups that keeps a Ctrl+C from
reaching the agent twice; without `/proc` only the published handle is left.

### 2.9 The memory path

`MemoryPath` follows one exchange. A text is a sequence of tokens: words, block
tags, secrets, blanks, tool names; a body is a record (`Document`). `Conversation`
renders what an agent says in each of five formats and in the shapes their APIs
allow: this is the input, and not code of msc. `EnrichRequest` is `Enrich` without
the decisions that `Injector` and `Selection` model: detect the format, extract
and redact the query, pack the block into its budget, put it into the request.
It happens once per sidecar, because an agent may run inside a session of
another and each captures the request as it received it. Then the answer comes
whole (`CaptureResponse`) or as a stream in chunks of any size (`ReadStream`,
`ReadEOF`, `Close`), and each sidecar's worker cleans and formats its copy
(`StoreExchange`).

`ContextBlock` counts bytes: tokens have a width, a redaction and an escaped
marker change it, and `Reclip` is the loop that clips again until what is
written fits. `CaptureFilter` is `stripInjectedContext` and `filterMCPTools` for
every format, with the pairing of calls and results by id. `EventStream` is
`streamCapture`: the partial line carried between reads, its cap, the caps of
text and tool names, and `BuildRespBody`. `FrameAssembler` is an independent
component with a peer that fragments, compresses against earlier output and sends
control frames anywhere; a message is decoded only if the inflater's window is
the compressor's. `MCMemoryPath` runs either an exchange over HTTP or one
direction of an upgraded connection.

## 3. Runs

| Run | Question | Instance |
|---|---|---|
| `store` | do racing producers, worker and two drains keep the budget, the counters, the ring and the close sound, keep the promise of `Delivery`, settle every exchange and end every drain? | three `Store` calls, one a repeat; queue of 1, a byte budget that cannot hold them all, ring of 1, batches of 2, two attempts; fair goroutines and timers, MuninnDB unfair |
| `ws_capture` | is what is stored whole, stored once, paired with the latest request decoded? | two turns, two deltas, one redelivery, tap of 1, a text cap of two bytes that cuts the first delta inside a character and has room for the second |
| `ws_forwarding` | is forwarding independent of the capture, and do parsers that run end with the tunnel? | fair splices, parsers that may never run, a broken agent connection |
| `ws_mispairing` | *violation*: is every stored answer the answer to the stored request? | orderly peers, no abandoned tap |
| `selection` | does one fact per concept and no contradiction survive, and nothing current get lost? | every order of up to five of seven memories, every gate position |
| `selection_freshness` | *violation*: does the fresher of two statements of a concept win? | up to three of the seven |
| `injector` | do session start, window, cache and gate stay sound? | two calls, alone or interleaved; two intents, two memories, TTLs of 1 and 2 ticks, three ticks |
| `injector_vetted` | *violation*: does a continuation only inject what the judge did not reject? | three calls, two at a time, one memory |
| `cert_authority` | does a launch serve a matching pair, keep a usable one, survive any state of the files, and start an agent that trusts it? | three launches, two starting at a time, killed or refused anywhere, every combination of leftover files |
| `tunnels` | does every turn hand over one exchange and say truly how it went, is every client served the right leaf, is every request accounted for, does a slow upstream never cost an answer, and does every tunnel end? | two tunnels, or one with a turn in or beside it; three spellings of two hosts, cache of 1, answers of two events, a pipeline that may panic |
| `session` | does msc end with its agent or a signal, with the right code, without losing a capture silently, signalling twice or talking to itself? | every command line, five terminals, five agents, environments up to two launches deep, two signals, a plain and a tunnelled turn |
| `memory_path` | is what is stored what was said, is the block as large as it claims, does the capture of a stream depend on how it was cut, and are framed messages decoded as sent? | five formats, five shapes of system prompt, conversations of up to four turns with MuninnDB's and other tools, one or two sidecars, budgets from 1 to 30, twelve streams in every cut, every interleaving of three fragmented messages and a control frame |

**Bounds.** The instances are chosen so that every limit is hit. `store`: the
queue of one slot fills, one large exchange exhausts the budget, a batch of two
overflows into a second, two attempts allow one retry, one repeat is enough to be
dropped and, after the ring of one slot forgot it, to be stored again. `ws_*`: a
tap of one slot fills and is abandoned. `selection`: contradictions among three of
the seven memories form a circle, one concept has three statements, another a
stale and an archived one, one memory nearly restates another, and one has no
parseable date; five candidates leave room for a replacement inside such a circle.
`injector`: the second of two calls meets every verdict of the cache the first can
leave, a floor of 50 makes a memory fade within one turn, two attempts at the
session context leave room for one that fails, and three ticks outlast both TTLs
by the judge's timeout. `cert_authority`: two launches can interleave every pair
of file operations, the third meets what they left. `tunnels`: two names for a
cache of one leaf make every insert evict, the two tunnels meet in the cache and
the turn meets a tunnel in the counters; `MaxRequests` keeps three from running
together, which nothing they share needs; two events are one that reached the
agent and one that did not; one tick is a whole idle time. `session`: two signals
are the second one that meets a full channel or a shutdown; five agents cover the
registry's cases (shared variables, several variables, an argument instead of a
variable, a conditional default); two nestings are enough for one msc to see
through the sentinel of another that itself saw through one. `memory_path`: two sidecars show that the second
sees the first's blocks; budgets run from one that holds nothing to one that holds
all, byte by byte in between; caps of 3 to 4 units are passed by lines of 4 and 6, and the text cap of three bytes
leaves a byte free before a character of two, which a later delta fills;
three messages against a window of three bytes forget the first; a character of
two bytes may be cut in the middle. `MaxInFlight`, `MaxTime`, `MaxRecalled`,
`MaxStarting`, `MaxTurns`, `MaxParts`, `MaxRedeliveries`, `MaxChunks`,
`MaxUpgrades`, `MaxRequests`, `MaxSignals`, `MaxMessages` and `MaxControl` bound
the environment and nothing of the code.

**Fairness.** Weak fairness of each goroutine's next step (the Go scheduler runs
a goroutine that can run) and of armed timers and the clock. Nothing is assumed
of MuninnDB, the agent, the upstream or the backend. `ws_forwarding` assumes it of
the splices only: `ForwardingNeverStalls` holds though the parsers may never run,
and `ParsersEnd` states the fairness of the parsers as its own hypothesis.
`TunnelFairSpec` adds strong fairness of `Written`: an agent that comes back to
read again and again lets the kernel's socket buffer drain in the end. Of dials and
handshakes it assumes that they succeed or fail, which their timeouts ensure, and of the
wait for the answer to an upgrade that it ends, which is `upgradeHandshakeTimeout`; that
an upgrade's request is written or fails is assumed of the backend's socket. Of an
upstream or an established splice that stays silent it assumes nothing, and
`TunnelEnds` names the two as what may hold a tunnel open. `SessionFairSpec` is fair to `run()`, the start of the
child and the goroutine that reaps it, and neither to the child nor to turns.
`Selection`, `Injector`, `CertAuthority` and `MemoryPath` are checked for safety.


## 4. Findings

`ws_mispairing` (code bug): the parsers of the two directions are independent, and a tap is
fed after its chunk was forwarded. The agent can therefore see the end of turn 1
and ask turn 2, and the c->s parser can record turn 2's request, before the s->c
parser has processed the completion of turn 1, which then stores turn 1's answer
under turn 2's question; turn 2's own answer finds no request and is dropped.
The comments of `wscapture.go` promise the opposite.

`selection_freshness` (comment and code differ): a current statement that nearly
restates an unrelated kept memory is passed over before its concept is indexed,
so an older statement of that concept, further down, is kept. `select.go` says
the fresher one wins. `CurrentStatementKept` is the exact promise the code does
keep: near-duplicates aside, no statement is lost to one it supersedes. The same
order of tests has two smaller consequences: a replacement is not compared with
the memories kept since, and it takes over the position of a better-scored one.

`injector_vetted` (code bug): `mergeMemories` puts a recall into the window
before the judge has seen it. A concurrent call that continues the previous
intent takes the window meanwhile, with a memory the judge had rejected for
that very intent. `inject.go` says the reuse path holds only vetted memories.
`ReuseIsVettedAlone` shows that it does while calls come one at a time.
`MissIsSound` needs the same condition: `lastWasEmpty` is read off the shared
window, so another turn's judge can make a miss of an intent that was answered.

Observations that are no finding of a run:

* `AgentTrustsItsProxy` needs its hypothesis: two launches that start together
  without a usable CA both generate one, and the agent of the first may then read
  the certificate of the second, so it refuses its own proxy's leaves until it is
  restarted; the files themselves end in a state the next launch recovers from.
  The branch of `ca.go:152` that warns of an unreadable CA sits inside the test
  that both reads succeeded, so it never runs: `ReadKey` replaces the CA there
  without a word.
* Tunnels: each side's read deadline in `copyTunnel` is pushed only by its own
  direction, so a blind tunnel that is busy in one direction is half-closed after
  five minutes of silence in the other, contrary to `mitm.go:42-50`; a WebSocket
  splice has no idle timeout. `shouldInterceptHost` compares the lower-cased host
  only, so a spelling with a trailing dot is tunnelled blindly in scoped mode
  (`apiDot` in `MCTunnel`).
* Upgrades: `spliceUpgrade` counts an upgrade and leaves its line without a reason
  as soon as its request is written. When the backend never answers, or its
  answer cannot be passed on, `spliceWithCapture` returns silently
  (`wscapture.go:313-331`), so an upgrade the agent never could use is logged at
  Info and counted as upgraded (`mitm.go:314-321`). `access.go:102-104` wants an
  Error when it never got that far, and `mitm.go:268-271` a line that tells
  whether the splice worked. `TurnsAndTunnelsAddUp` therefore says of upgrades what
  the code does: a reason exactly if the request did not reach the backend.
* Turns: the deadline of `deadline.go` does nothing while no write is attempted,
  so an upstream that goes quiet in the middle of an answer holds the turn
  (comment at `deadline.go:8-13`). The recovery writes its 502 past the recorder,
  so the turn line shows 200; upgrades show 200 too. `recover` swallows
  `http.ErrAbortHandler`, so that an agent that disconnects counts a proxy error.
  A panic inside a Read of the tee loses the capture.
* Counting: `ARCHITECTURE.md:322` says that requests should match the number of
  turn lines; CONNECTs and upgrades are counted as requests and have tunnel lines
  instead (`TurnsAndTunnelsAddUp` is the exact sum).
* Shutdown: in MITM mode `Shutdown` returns at once with tunnelled turns in
  flight, whose captures are dropped without the warning of `main.go:461-463`;
  `NothingLostSilently` therefore excepts them.
* Signals: one that arrives while the agent is being started never reaches it, and
  it is killed after the grace (`unseen`); one before `signal.Notify` ends msc by
  its default action, without a drain.
* Environment: `msc qwen` inside `msc codex` resolves to codex's upstream,
  contrary to `agents.go:22-28`; MITM mode leaves a sentinel although it has
  overridden no base URL.
* Block: the floor of 200 bytes for an oversized first memory is undone by the
  loop that clips it again (`format.go:91-95` against `165-182`).
* Capture: calls of MuninnDB's tools in Gemini requests and whole answers are not
  filtered, only those in streams are. `finalize` does not flush the last line
  when it has no newline. A line at the limit with a carriage return is kept or
  dropped depending on the cut (`AnswerIndependentOfChunks` names this). An
  OpenAI request with typed content and no system message is taken for an
  Anthropic one, and an Anthropic one of plain strings without system for an
  OpenAI one, and gets the block in the other's form. The input tokens of an Anthropic
  stream's `message_start` are lost to the usage of its `message_delta`. Results
  are paired with calls by id alone, so an id that is used twice takes another
  call's result with it.

## 5. Proofs

`MuninnStoreProofs` proves, for every set of exchanges and every capacity:
type correctness; that no `Store` call sends on the closed queue (the strengthening
says that a producer inside the read lock has seen `drained` unset and that the
close happens under the write lock); that the ring is exact (the strengthening relates
each slot to the age of its entry); and the ledger, one inductive invariant from
which follow that what is counted as saved is in the vault, that no content is
stored twice, and that a repeat is dropped only while its concept is remembered.
`PromiseKept` proves that the store implements `Delivery`. Its argument is where an
exchange can be: one that `Store` accepted and that has no outcome is in the queue, in
the worker's hand or in the batch, and in one of them only (`PlaceInv`); the batch is
of distinct concepts and never above `MaxBatch` (`BatchInv`); what the ring knows was
saved by an exchange of this session (`SavedInv`); and a `Drain` that returned means
the worker exited, with the channel closed and empty (`ShutInv`). From the same places
follows `Accounted`, the conservation law: every counter counts the exchanges of one
outcome (`TallyInv`), and these sets with the exchanges in transit divide those
captured. `BudgetIsExact` proves the byte budget for any number of exchanges of any
sizes: `queuedBytes` is the sum of the bodies that are between reserve and release
(`Exact`), because each step that adds or subtracts a size moves that one exchange
into or out of the reserved set; that the sum over a set loses or gains one term is
an induction over finite sets, made by a least counterexample. `BudgetCapped` is the
other half: a claim that succeeds was checked against the bytes it adds to.

`WSCaptureProofs` proves type correctness, the text cap in bytes included, and that one
`response.create` is stored at most once. The strengthening: the agent's n-th
message asks turn n, what waits in the c->s tap is in order and newer than what
was decoded, and a stored request is not newer than the last decoded and not the
one remembered. `PairedWithLatest`: the unpaired request is always the newest one
decoded, since whatever replaces it is newer and a completion only takes it away.
`StoredAnswerIsWhole` needs to know what the s->c parser has read: a backend's
stream is responses one after the other (`StreamInv`: every message may follow the
one before it, restarts and redeliveries included), the parser has consumed some
prefix of it of which the tap holds the continuation without a gap, and `respText`
is what the cap leaves of the open response at the end of that prefix (`TapInv`),
for any lengths of deltas and characters. The second
is why abandoning a tap must end its parser: after a hole the prefix does not exist.

`SelectionProofs` proves, for any set of memories, any words, times, concepts and
contradictions: types; the exactness of the concept index, which is what makes
one fact per concept inductive (a concept is indexed exactly where its only
memory is); that no contradiction survives (every pair behind the loop's position
has a dropped side or does not conflict); that something survives (whenever
positions were dropped one of those looked at is still in); and, from the
transitivity of `Supersedes` when every time parses, that no statement is lost to
one it supersedes. The last theorem takes that as its hypothesis: with
unparsable times the comparison of strings need not agree with that of instants.

`InjectorProofs` proves, for any number of concurrent calls, any intents,
memories, scores, TTLs and attempts: types; that session fetches are serialized,
spaced and bounded (whoever is fetching holds `sessionMu`), and with it that the
session starts once (`SessionStartIsSound`); that the session context is given
once; that nothing faded stays in the window; and that a reused
window stands on an answer younger than the TTL plus the judge's timeout (the
strengthening: a cache entry is no younger than the answer it stands for by more
than the judge's timeout, because the clock cannot outrun a judge).
`MissStandsOnEmptyRecall` and `ContinuationIsVetted` are about calls that come one
at a time. Their invariant (`VettedInv`) is conditional on no overlap so far: then
the window holds nothing the judge rejected for the intent in the cache, except
between merging and vetting, and a cached empty answer is an empty recall. The
`injector_vetted` run shows that the condition is needed.

`CertAuthorityProofs` proves, for any number of launches that overlap in any way,
every property of the run: a launch only serves a pair whose halves match and
that has time left; a usable pair that stays on disk is kept unless a read was
refused; no state of the files ends a launch; and while launches do not overlap
the agent trusts exactly its own proxy's CA. The strengthening: a steady pair is
on disk now and is what a launch that has read the certificate read, and a launch
that is alone finds its own certificate in the files from the moment it has
loaded its CA.

The first part of `TunnelProofs` proves, of `ProxyTurn` and for any number of turns, requests and replies: types;
that an answer becomes one exchange that holds what the agent received
(`ExchangeInv`, with `CopyOK`: what was relayed was heard before, and a Write in
progress is of the last event heard); that every turn gets one line of the right
level and the counters are what the turns were (`OutcomeInv`; the sums are
cardinalities of sets that one step changes by one element); that a session
without a degraded counter has lost nothing; that a deadline only cuts an agent
that has not read for the whole idle time (the budget of a Write and its waiting
time add up to no less than `Idle`); and that the pipeline refines `TurnLife`.

The second part carries all of these over to `TunnelSpec`: every step of a tunnel is a
step of a turn, or only counts a request, or takes a turn's agent away, and the
invariants survive each of the three. It adds that a client is only ever served
an unexpired leaf of the host it asked for (`LeafInv`, `CacheInv`), whatever
happens between the lookup and the insert. `SessionWithTunnelsAddsUp` adds the books
of tunnels and upgrades (`BooksInv`): a tunnel is usable from the moment its bytes may
flow and refused only if it never gets there, its own line is its last, and the requests
are the upgrades, the tunnels and the turns that have begun. An upgrade is at one of
four places: its request is being made (`Opening`) or has reached the backend
(`Forwarded`), or its line is in the log with a reason (`Spoiled`) or without one
(`Accounted`). The counter `upgraded` is those that are or were forwarded, answered or
not, so that the lines with a reason are exactly those it does not count. `Conns` need not be finite; that
finitely many have begun is part of the invariant.

`SessionProofs` proves, for any turns, terminals, environments, codes and number of
signals: that nothing is lost silently (`LossInv`: once the store drains and no
warning was given, no turn the server tracks is in flight); that the agent hears a
signal at most as often as it was sent (`SignalInv`: a signal is pending in the
channel, was forwarded, or was never to be); and that the agent is accounted for at
the exit (`AccountInv`). `UpstreamsAreReal` is about `Resolve`: if msc is started in an
environment that some chain of launches and user settings, of any length, has made of
one that names no proxy (`Inherited`), the agent's upstream is no proxy. What every
link of such a chain keeps (`Guarded`): a variable that names a proxy is overridden by
an agent whose sentinel is set, and no sentinel names a proxy; the induction over the
chain is a least counterexample. The environments of the `session` run are such
chains of up to two launches. The converse does not hold: a set sentinel of an
agent routed by an argument says nothing about its variable (`BuildEnv` leaves it
alone), so `sentinelForEnv` may pass over a value the user has set in a nested shell
and take the parent's upstream: a real one, as the theorem says.

The first part of `MemoryPathProofs` proves `FramesDecoded` of `FrameAssembler` alone, for
any cap, window, expansion and cuts (`FrameAssumption`: sizes are natural numbers and a
message has a fragment). The strengthening `FrameInv`: what the assembler holds of the
message under way is the fragments that came, or nothing once they are more than the cap
(`HeldInv`); and the inflater's window is the peer's, except that the peer is one
message ahead while a compressed one is under way (`WindowInv`). The second needs
every completed compressed message to pass the inflater, the binary ones included,
and one that cannot to stop the parser. The size of a message and the stream handed
on are folds of the library; each is shown to satisfy its equation first.

The second part is about the block (`BlocksFit`): for any memories, widths, secrets,
markers and budgets, what is written is as large as it was estimated, within the budget
unless it is one memory with none of its content left, and holds the longest prefix of
the memories that fits. The invariant (`RecallInv`) is the property with the shape of
its variables; the work is in the operators. Redaction and escaping act token by token,
so the size of a text is a prefix sum and a cut of it a prefix with a rest. A first
memory that is too large goes through `Reclip`: a pass takes at least a byte of the room
unless the entry already fits, and one without room leaves nothing; a least
counterexample among the passes shows that the last of them is one or the other.

The third part is about the streamed answer (`AnswersAgree`), for any stream, any reads
and any limits. The invariant (`AnswerInv`) says what the capture has `Heard` after so
many units. The partial line is the current one from its beginning, or from later on if
more than `MaxStreamBuf` of it was dropped at the end of a read (`Partial`); the lines
counted are those no longer than the limit and some of those at it, and as long as no
line was too long the last payload and the last usage are those of the lines so far
(`Tells`). A unit keeps this, hence a read does, by induction over the fold
(`HearOn`), and the carry between reads keeps it. Two facts carry the argument: what is left
of a dropped line never parses as an event, so that it says nothing whatever the cut;
and text is cut delta by delta in the order of the lines, which does not depend on the
reads either. The reference of the text is therefore a fold (`Accumulated`): a delta
that does not fit is cut at the end of a character, and a later one may take the bytes
that are left, so that the text is not a prefix of the whole. Tool names are whole
or left out, and the names kept are the first ones of the whole. That the stream is captured
once, by its end or by its close, and as it was put together then, is `CapturedOnce`.

Model-checked only:

* liveness under fairness, which is out of TLAPS's reach: `EveryExchangeSettles`,
  `DrainReturns`, `ForwardingNeverStalls`, `ParsersEnd`, `TunnelEnds`,
  `SessionEnds`;
* `CaptureIsTheAgents`: it compares what each sidecar stored with the conversation
  the agent was given, through the rendering, the injection, the filters and the
  extraction of five formats, and the pairing of calls with results. It would need an
  induction over whole conversations for each format.

Induction over data is done without the induction theorems, whose operator
parameters the provers cannot instantiate: a set of counterexamples has a minimal
element (`WFMin` with the order of the naturals or of finite subsets), and the step
shows that a smaller one exists. It serves sums, chains, searches in a sequence,
the clipping loop and the folds of the library, which are recursive functions. No
module has a RECURSIVE operator.

Assumptions are the named ASSUMEs of the component modules (capacities positive,
finite sets, content decides concept, scores are natural numbers; of the registry,
that every agent has an upstream, that no base URL is a sentinel's name and that no
upstream is the address of a proxy; of the memory path, that characters have a width,
that a retained line and the stream buffer have the same limit, as in `stream.go`, that
an event's delta is a text and names at most one tool, that an event begins its own line
and a carriage return ends one (`IsStream`), and that an int holds the size of what is
recalled), which TLC evaluates in every run.
`UpstreamsAreReal` has `Inherited` as its hypothesis and `CurrentStatement` the
transitivity of `Supersedes`.

## 6. Limits of the model

Abstracted, and why that is sound for what is checked:

* `Session`: a child has started, or failed to, within the three seconds of grace;
  `signalChildren` is one step.
* `MemoryPath`: the agent's own prompt contains no block marker (one that does is
  the agent quoting msc); a part of a line never parses as JSON; the spacing
  between the parts of a Gemini text is left out; a frame is one event, not the
  bytes of its header; a message decoded with the wrong window is garbage, which
  any property about it would see.
* `Tunnel`: `HeldOpen` excepts a turn during its whole wait for the upstream.
  `ResponseHeaderTimeout` (`proxy.go:198-224`) bounds the wait for the header only,
  not the writing of the request's body nor the reading of the answer's, and is not
  modelled: `TunnelEnds` would not miss it.
* `MuninnStore`: attempts are bounded, so `DrainReturns` holds of a backoff that
  ignores the drain's deadline too; that a retry gives up when the deadline
  fires is in `Backoff`, and no property depends on it.
* `Selection`: two mistakes no property of the run would catch are excluded by
  theorems only: replacing a memory without its words (`IndexCorrect`), and dropping
  every side of a circle of contradictions (`NeverEmptied`).
* `ProxyTurn`: the status endpoint is its verdict (`Degraded`); routing and header
  rewriting keep no state.
* `Injector`: `CalibrateThreshold` is any gate of its range.

Not modelled:

* `internal/clock`: the fake clock runs in tests only; the system clock is the
  abstract time of the modules.
* `internal/grounding`, `internal/clirun`: the judge is one subprocess call without
  state; every verdict of it, failure included, is an input of `Injector`.
* The arithmetic of the calibration, latency maxima and the table of models in
  `internal/stats`: numbers that nothing else reads.
* The parsing of a recall into memories (`internal/mcpclient`): its results are the
  inputs of `Selection`.
* The patterns of `internal/redact`: character-level data; what a redaction does to
  a text is in `ContextBlock`.
* `cmd/msc` beyond the session (flags, printing, `memory` and `status` commands),
  small helpers, and the offline tools `msc-bench`, `msc-eval`, `msc-qa`: no state
  that interleaves or persists.
