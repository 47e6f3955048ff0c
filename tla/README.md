# A TLA+ model of partly-proxy

partly-proxy is a recording and replaying HTTP proxy for test harnesses. It puts
one listener in front of each upstream service, runs a middleware chain around
every request, can answer from stubs or from recorded exchanges, and is steered
by a control plane (stubs, pauses, traffic queries, "wait until this was seen"
assertions). This directory holds TLA+ modules for it, TLC
configurations that check them on small instances, and TLAPS proofs for every
value of the constants. Paths below are relative to
`src/crates/partly-proxy-lib/src/` unless they say otherwise.

## 1. The system

| Component | State it keeps | Operations | What makes it correct |
|---|---|---|---|
| Recorder (`recorder.rs`) | ring of recent exchanges under an async write lock, route map to storage media, `on_insert` Notify | `record`, `clear`, `query`, `count_matching`, `flush`, `register_route` | ring bounded; an exchange is visible only when it is on its medium; ring and medium agree on the order; a record() looks like one step; no call is stuck |
| Wait-for assertions (`command.rs`) | the registered waiter, the deadline | `AssertSeen`, `AssertCount` | no lost wakeup; an answer by the deadline; the waiter is dropped |
| Stub store (`stub.rs`) | ordered list of stubs with a remaining count | `add`, `clear`, `take_match` | a limited stub fires no more often than allowed |
| Replay source (`replay.rs`) | exchanges and an index from match key to position | `from_storage`, `insert`, `lookup` | the index never points astray; the first write wins; what was seen is replayed |
| Request lifecycle (`listener.rs`) | per request: stage, original request, response source | accept, pause gate, body, chain, stub, lookup, forward, promote, record | nothing is appended twice; only redacted data is kept; every request ends |
| Middleware chain (`middleware.rs`) | the position in the chain | `handle`, `Next::run`, the redaction hooks | redaction covers every path, in the order of the chain; a request ends whatever a middleware does |
| Builder and configuration (`builder.rs`, `config.rs`) | recording, default mode, upstream specifications, global middleware, miss handler | the setters, `run` | every order of setters builds what they say |
| Cluster (`builder.rs`, `cluster.rs`) | started listeners, shutdown watch, join handles | `run`, `shutdown_with_timeout`, drop | a failed start leaks nothing; shutdown returns if its flush does, which is a fence |
| Accept loop (`listener.rs`) | task tracker, abort token, drain deadline | accept, drain, hard abort | it ends only when its connections have |
| Command channel (`command.rs`) | bounded queue, reply channels | `send`, `process_loop`, `dispatch` | every sender is answered |
| TCP control plane (`control_plane.rs`) | accept loop, line per connection | accept, read line, reply | as the command channel |
| Wire format (`wire.rs`), filters (`assertions.rs`), exchange types (`partly-proxy-types/src/recorded.rs`) | none | parse, match, convert | a command touches the upstreams it names; what is recorded is found under what was sent |
| Storage (`partly-proxy-types/src/storage.rs`, `partly-proxy-storage-jsonl`, `partly-proxy-storage-sqlite`) | the medium, the writer's buffer and the write under way | `append`, `load`, `flush` | what was acknowledged is loaded, in order; what was flushed survives a power loss; no append hangs |
| Forwarder (`forwarder.rs`) | base URL, connection pool | `forward` | a request goes under the base URL's prefix |
| TLS (`tls.rs`), echo server | none | - | - |
| TypeScript client (`src/ts-client/src/index.ts`) | socket, chain of calls, pending replies, `fatal` | `send`, `doSend`, `onData`, `fail`, `close` | a call gets its own answer; no call hangs |

How they interact: every inbound connection is a tokio task spawned by its
accept loop; every such task runs the request lifecycle and shares the upstream's
stub store, replay source and pause flag, and the cluster's recorder. Commands
reach one processor task through a bounded channel, from the handle and from TCP
control connections; the processor changes the stub stores and pause flags and
waits on the recorder. A `watch` channel carries the shutdown signal from the
handle to every loop. Only the storage media outlive a cluster.

The hard parts are the awaits. Every await is a place where other tasks run, and
a place where the future may be dropped (client gone, drain deadline passed).
State is read before an await and used after it (the count before the wait, the
lookup before the promotion, the promotion before the append), an append may
fail after it took effect or take effect after it was dropped, and three kinds of deadline overlap in a shutdown.
`PROJECT.json` lists these hazards one by one with their lines.

## 2. Modules

| Module | Models | Built on |
|---|---|---|
| `Recorder` | `record()` step by step, `clear`, waiter registration | - |
| `AtomicRecorder` | what a recorder promises: `record()` is one step | - |
| `RecorderProofs` | theorems about `Recorder`, its refinement of `AtomicRecorder` among them | `Recorder` |
| `WaitFor` | the assertion loop racing `record()` calls | extends `Recorder` |
| `WaitForProofs` | theorems about `WaitFor` | `WaitFor`, `RecorderProofs` |
| `StubStore`, `ReplaySource` | the data structures, as operators | - |
| `Proxy` | the request lifecycle of one upstream, pause, drain, restart | extends the two above |
| `ProxyProofs` | theorems about `Proxy` | `Proxy`, `Induction` |
| `Storage` | the three storage backends under failing writes, dropped appends, crashes and power losses | - |
| `StorageProofs` | theorems about `Storage` | `Storage`, `Induction` |
| `Induction` | the induction principles the proofs about sequences use | - |
| `Traffic` | requests, responses and exchanges, and the conversions, matchers and filters on them, as operators | - |
| `Builder` | the builder's setters, as operators | - |
| `Control` | a harness that builds a cluster, sends command lines and requests, and asks what was recorded | extends `Traffic`, `Builder`, `StubStore`, `ReplaySource` |
| `ControlProofs` | theorems about `Control` | `Control`, `Induction` |
| `Cluster` | bring-up, accept loops, command channel, shutdown | - |
| `ClusterProofs` | theorems about `Cluster` | `Cluster` |
| `TsClient` | the TypeScript control client and the lines between it and the server | - |
| `TsClientProofs` | theorem about `TsClient` | `TsClient` |
| `MC*` | finite instances for TLC; `MC*Claims`, and `AnswersMatchCommands` of `MCTsClient`, state what the documentation says where the code differs | |

`Proxy` uses the recorder through its abstraction: `RecordOk`, `RecordErr` and
`Abort` are the steps `Record` and `Abandon` of `AtomicRecorder`, which
`RecordIsAtomic` and the theorem `RecorderRefines` justify. `Cluster` in turn
leaves out what a connection or a command does while it is served: `Proxy`,
`Control` and `WaitFor` say that. `Control` serves a request in one step and keeps
the data `Proxy` abstracts from; `Proxy` has the steps, and a request as its key.
The medium of `Recorder` and `Proxy`, on which an append that failed or was dropped
may or may not land, is what `Storage` shows a backend to be.

### Recorder

`pc[c]` is the progress of one record() call with its exchange: `Begin` (the
check of `enabled`), `Acquire` (the write lock), `AppendOk`/`AppendErr` (the
storage append under the lock), `Push` (evict, push, drop the guard), `Notify`
(`notify_waiters`). A failed append may or may not have reached the medium. A
call is cancelled when its future is dropped, which can happen only at the two
awaits. `writer` is a set so that a lost lock would show; `wakers` is the state of
every registered `Notified` future.

### WaitFor

One waiter is one assertion command. `Register` creates and enables the future,
`CountAndEvaluate` counts, and only a pending verdict leads on to `GiveUp` or
`Park`; a parked assertion leaves through `Wake` or `TimeOut`, and its registration
ends with the iteration. `left` is the time to the deadline, which is set once
(`UntilDeadline`: where adding the timeout to the clock overflows, nothing is left), and
`spent` the time it took so far; `Tick` moves both while the assertion is under way. The
command processor runs one assertion at a time.

### Proxy

One request walks through the stages of `handle_request`; the stages in `Awaits`
suspend it, and in each of them `Abort` may drop it. `depth` is the middleware whose
`handle()` runs: `CallNext` goes one further in with the request as it is or
rewritten, `SkipNext` answers or fails without the rest of the chain, `Unwind` is the
way back out, where a response may be transformed or an error recovered. What each
middleware may do are the constants `WayIn` and `WayOut`. Redaction of the recorded
request runs over the chain in order. A request is its match key; a response is who
produced it and whose redaction it has still to go through. `Accept` is a request on a
new connection, or during a drain a further one on a connection that is open because
a request is under way. `Shutdown` and `Restart` end a run and start the next one, in any
allowed configuration, on the same medium.

### Cluster

`phase` is the progress of `run()` and then of `shutdown_with_timeout()`.
Listeners, connections, the processor, the control loop and the callers of the
command channel run concurrently. Time is in whole seconds and passes only when no
task is ready (`Settled`, which spells out that none of the steps a task takes by
itself is possible), the usual assumption that a runnable task needs far less than
a second. The flush between the joins takes any time up to `MaxFlush`: `flush()` waits
for the recorder's lock and the media without a timeout, so what it takes is counted in
`flushTime`, apart from the joins (`joinTime`). A wedged connection is one that does not
yield when it is aborted.

### Storage

`kind` is the backend. A JSONL append moves its line through three places: the
`BufWriter` (`buf`; a line longer than it goes through write_all's own cursor,
`todo`), the blocking thread of tokio's `File` (`inflight`), the operating system's
cache (`file`), of which `synced` survives a power loss. A line is three pieces, so
that it can be cut in its text and before its newline. The blocking thread goes on
when the append that started it is dropped, and its error goes to whichever call
polls the file next. A SQLite row commits or does not, also after its caller is gone.
`promised` is the history of acknowledged appends, `fenced` how many of them a
flush() has answered for.

### Control

`Configure` is one call on the builder, in any order; `Run` starts the cluster or
refuses it. `HandleLine` reads a line, refuses an invalid one and lowers the others;
the `Dispatch` actions, `ClearNext` and `ClearDone` are `dispatch`, one command at a
time. `ServeStub`, `ServeSnapshot`, `ServeMiss` and `Forward` serve a request with
its real fields: method, URI, headers. A string that is taken apart or joined is a
sequence of tokens (`Traffic`); a regular expression is the set of paths it accepts, or
a literal if it does not compile. A `Uri` is read in three ways that differ for
`http://h?q`: `PathAndQuery` (`as_str()`: `?q`), `Path` (`path()`: `/`) and `ToString`
(`Display`: `http://h/?q`).

### TsClient

`call[c]` is the progress of one method call: chained behind `inflight`
(`queued`), writing (`draining`, when `write()` returned false), waiting for its
response (`sent`), settled. `pending` is the queue of waiters; `got` is the state
of each `responsePromise`, which outlives its call when a command times out. A
callback runs to its end and the promise reactions it causes run before the next
one (`Quiet`). `OnData` takes a chunk of any number of whole lines; a partial
line stays in `buffer` and is not yet a line. The three socket events lead to
`Fail`; only `SocketCloses` loses what is on its way. How Node behaves (no `drain`
after `end()` or on a destroyed socket, a socket timer that starts again on the
next write) is taken from its documentation.

## 3. Runs

| Run | Question | Bounds |
|---|---|---|
| `recorder` | do ring and medium agree, is record() atomic, does every call end; can a wakeup be lost, a waiter leak; does a stable match pass without more traffic; can wakeups stretch a deadline, is it honoured? | 3 record() calls, two of them on one medium and one without a route, on a ring of 2: enough for an eviction, a reordering and a failure in one behaviour; three assertions: Seen for one call, Count of two, both with a timeout of 1, and a Count of one with a timeout of 0, so that a wakeup at the deadline, a match, an overshoot, an eviction and a clear all happen |
| `proxy` | do index and medium keep their promises across concurrency and a restart? | 3 requests with one key after redaction, one stub for two fires, two runs |
| `proxy_chain` | is everything redacted through every middleware behaviour; does a drain, and does a request, end? | 2 requests through a chain of two middlewares, four configurations, a stub with times = 0 (whose limit `claim_stub_times` is about) |
| `cluster` | does bring-up leak, does shutdown return, does a dropped handle stop the listeners, is every caller answered? | 2 upstreams, 2 connections (one wedged), 2 callers on a channel of one, a budget and a slack of 1 s, a default drain of 3 s, so that a listener can outlast its join, and a flush of up to 1 s |
| `ts_client` | does every call get its own answer, does every call settle? | 3 calls, two with a command timeout: a late answer, the call after it and one more behind that |
| `storage` | what loads back after failures, dropped appends and crashes; is flush() a fence; can an append hang? | 3 appends, one of a long line in two or more parts, on each backend, 2 crashes or power losses: an append before, one around and one after each fault |
| `control` | does any order of setters build what it says; do commands keep to their upstreams; is what was recorded found again? | 4 builder calls and command lines together, of 9 and 13 kinds, 4 requests, in origin, absolute and authority form and as in `http://h?q`, two with repeated or binary headers, 2 upstreams |

Two actors suffice for the races of the code, which are between pairs of steps
(two misses, an insert and a wait, a listener and its join); a third adds the
bystander that keeps the other two apart. Every number is a named constant of the
configuration. The theorems of section 5 remove the bounds where they apply.

Deadlock is checked for all but `cluster`, `ts_client`, `storage` and `control`, where a
stopped or never started cluster, a client whose calls have settled, a medium that no
longer loads, or a harness that has said all it had to say, has nothing left to do. In the recorder and proxy runs
some task or `clear` is always possible.

Five runs end in a counterexample. Each states a sentence of the documentation or of
a comment that the code does not keep (quoted in `PROJECT.json`):

- `claim_reload`: two concurrent misses promote in one order and append in the
  other, so a key replays one response before a restart and another after it.
- `claim_answers`: a socket timeout empties the queue of waiters but leaves the
  socket open and the chain running, so a queued call takes the late answer of the
  command that was given up.
- `claim_stub_times`: a stub with `times = Some(0)` fires once (`stub.rs:227` decrements
  with saturation after the match).
- `claim_shutdown`: `shutdown_with_timeout` is to return within `timeout + 1s`; the joins
  have a limit each and the flush none. `JoinsBounded` is the bound that holds of the
  joins: every listener's `budget + slack`, and `budget` again.
- `claim_drop`: dropping the handle is said to leave the listeners running; it drops the
  sender of the shutdown watch, which every accept loop takes for a shutdown
  (`DropStopsListeners`).

Noticed while modelling, without a run of their own; the first ones contradict the
repository's own words:

- neither recording path looks at the mode (`listener.rs:426`), so an upstream in
  `Mode::Replay` with recording enabled appends its misses and stubbed responses to the
  snapshot it replays from, where SPECIFICATION.md:167 says "`Mode::Replay` does not record."
  (SPECIFICATION.md:428, in turn, speaks of `Replay + recording`);
- a response with two values of one header is recorded with both and replayed with the
  last (`replay.rs:225`), where SPECIFICATION.md:163 says "A hit returns the recorded
  response.";
- the key of a live request to `http://h?q` is `?q`, that of its recorded exchange `/?q`
  (`replay.rs:195`, `partly-proxy-types/src/recorded.rs:32`), so it is recorded and never
  found, where SPECIFICATION.md:420 has "the same on the record and replay sides so hashes
  always agree"; `FoundAsSent` excepts this form and no other;
- an overshoot is final because "further traffic cannot bring the count back down"
  (`command.rs:267`, SPECIFICATION.md:591), but on a full ring an exchange that does not
  match evicts one that does; `OvershootFinalBelowCap` proves the sentence for a ring
  below its cap;
- an acknowledged JSONL line that is written behind a torn one is lost to `load()`, where
  `partly-proxy-storage-jsonl/src/lib.rs:12` promises per-line durability; `AckedLoadBack`
  states what holds: its bytes are in the file, and load back if the file can be read;
- SQLite's `flush()` does nothing because "every append is already durable"
  (`partly-proxy-storage-sqlite/src/lib.rs:134`), but with `synchronous=NORMAL` a commit in
  WAL mode may roll back on a power loss;
- an exchange is recorded and promoted under the request as it arrived and looked up under
  the request a middleware rewrote (`listener.rs:317`), so behind a rewriting chain "a later
  identical request" (`listener.rs:442`) is forwarded again; `SeenNotForwarded` is stated on
  the lookup key;
- a timeout that overflows the clock (`Duration::MAX`, in process only) leaves an assertion
  no deadline, which is taken for one that has passed (`command.rs:287`), where
  SPECIFICATION.md:593 says that there is no upper bound;
- the TypeScript client's `socketTimeoutMs` is documented as per command
  (`index.ts:22`), but it is the socket's idle timer: it also fires between
  commands and makes an idle client unusable, and it cuts off an assertion that
  waits longer, though the comment at `index.ts:158` says that `commandTimeoutMs`
  extends the read window past it;
- a call chained behind one that is under way when `close()` is called, or when the
  socket closes, hangs: its `write()` returns false and no `drain` follows
  (`index.ts:184`); `CallsSettle` is stated for sockets that stay open;
- a response is promoted into the live index before it is recorded
  (`listener.rs:446`), so it can be replayed although its append failed;
  `ReloadKeepsKeys` excludes exactly those;
- a stubbed response is appended on each request (`listener.rs:432`);
- two inserts between two evaluations pass the expected count unseen, and the
  assertion fails though its count was met while it waited (SPECIFICATION.md:590);
- the error an append reports may be of an earlier append that was dropped, and the
  line of an append that reported an error stays in the `BufWriter` and may land with the
  next one (`partly-proxy-storage-jsonl/src/lib.rs:80`);
- a torn JSONL line (disk full, crash, a long line whose append was dropped) makes every
  later load of the file fail, also of the lines before it;
- a request in asterisk form is forwarded to the prefix with `*` behind it
  (`forwarder.rs:143`), `/v1*`;
- the proxy never sets labels, so a filter with a label matches nothing
  (`assertions.rs`);
- the request timeout covers the head of the response only (`forwarder.rs`): a body
  that never ends is not timed out;
- two upstreams that share a backend load each other's exchanges on a restart;
- a response that a middleware supplies after a failed forward is promoted as the
  upstream's;
- an append under way at a hard abort may land, although SPECIFICATION.md says
  that aborted exchanges are not recorded.

## 4. Fairness

- `Recorder`: tokio's lock is fair (FIFO), the storage append returns, and a
  runnable task is polled. Each stage of a started call is weakly fair; a call need
  not start and is never forced to be cancelled.
- `WaitFor`: the assertion task is polled. Nothing is assumed of the clock:
  `AssertionAnswered` speaks of deadlines that have come.
- `Proxy`: steps between awaits are fair; clients, middleware and upstreams are
  not, so `EveryRequestEnds` assumes of each request that it leaves what is outside
  the proxy again and again, and that the pause is lifted for good;
  `DrainCompletes` assumes neither, only that the drain deadline comes.
- `Storage`: the operation that holds the medium is polled, and the blocking thread and
  the database finish what they were given, with success or an error. Nothing is
  assumed of crashes, flushes or a restart.
- `Cluster`: runnable tasks and time are fair. Connections, callers and the length
  of a command are not. The final flush is assumed to return, and `ShutdownReturns`
  holds only then: the code gives it no timeout. `Enqueue` is strongly fair because the channel serves
  blocked senders in order. `CommandAnswered` assumes that commands end.
- `Control` states no liveness.
- `TsClient`: promise reactions run, a written line drains while the socket is
  open (its peer reads), and an idle socket times out. The server and the command timers are not
  assumed to do anything.

## 5. Proofs

`RecorderProofs` proves `Spec => []TypeOK`, `[]RingBounded`, `[]StorageFirst` and
`[]SameOrder` for any number of calls, upstreams and any cap, zero included. None of
the last two is inductive. The strengthening adds: only the writer is between
append and push (`LockHeld`); what is in the ring has left the lock
(`RingSettled`); a medium holds only exchanges of its own upstream (`MediumOwn`);
the exchange about to be pushed is the last on its medium (`PushingLast`); only
routed exchanges append (`AppendingRouted`). `PushingLast` is the heart: the
exchange pushed last is also the one appended last, so pushing keeps the orders
equal.

`RecorderProofs` also proves `Spec => RecordIsAtomic` from that invariant. The
mapping hides an append that is about to be pushed (`CommittedMedium`), so that
`AppendOk` is a stutter, `Push` the abstract record, and `AppendErr` or `Cancel` the
abstract abandonment, with or without a trace on the medium.

`WaitForProofs` first shows that assertions take only steps of `Recorder`
(`WaitForIsRecorder`), so the theorems above hold while they run, and then
`SleepsOnlyWhilePending` and `WaitTypeOK` for any assertions. Together they are
inductive; the delicate cases are `Push`, which leaves the caller on its way to
notify, and `clear`, which cannot turn a missing match into a met count.
`NoWaitOutlastsTimeout` proves `WaitsWithinTimeout`: the time spent and the time left
together never exceed the timeout, which a deadline set again at each wakeup would break.
`OvershootFinalBelowCap` proves what the code's comment says of overshoots under the
hypothesis it needs, a ring that stays below its cap.

`ClusterProofs` proves `TypeOK`, `FailedStartLeaksNothing`, `FlushIsFence`,
`CleanShutdownIsQuiet` and `JoinsBounded` for any number of upstreams,
connections and callers and any deadlines. `ListenInv` ties a served connection to
an accept loop that still answers for it; `CommandInv` says that the processor
serves one command at a time and leaves nothing queued behind; `JoinInv` says that
what shutdown has joined has ended or is reported; `TimeInv` adds what the current
wait may still take to what has been spent in joins, so that a second can pass in one only
where it was accounted for; a second in the flush is not one of them.

`TsClientProofs` proves `OwnAnswer` for any number of calls. It is not inductive;
`Aligned` carries it: until `fail()` runs, the answers on their way followed by the
commands the server still has are, position by position, the waiters. A command
timeout keeps it because it leaves the waiter behind, which is what the mutant of
`CommandTimesOut` breaks; `fail()` is where it ends, and `claim_answers` shows why.

`ProxyProofs` proves `TypeOK`, `StubFireLimit`, `IndexSound`, `FirstWriteWins`,
`RedactedAtRest`, `AppendedOnce`, `SeenNotForwarded` and `ReloadKeepsKeys` for any requests,
stubs and configurations, any number of restarts and a chain of any length. One part of
the inductive invariant serves each. `StageInv` adds to the types that a request inside a
middleware has a depth and one past the chain a result. `StubInv` counts: how often a stub
fired and what it has left stay within its limit, and ids are unique. `OnceInv` says
that whatever is on the medium is of a request through with `record()`, and that a response
from the snapshot does not reach it. `SeenInv` says that a forwarded response being recorded,
or recorded, is in the live index; `OriginInv`, that an exchange of the live index is on the
medium, or of a `record()` under way, failed or cut short. `ReloadKeepsKeys` joins the last
with what `build_index` computes for a medium of any length (`FirstOnMediumWins`: every key
points at its first response). `RedactedAtRest` has a hypothesis, `RedactionsCompose`: each
redaction is idempotent and a later one keeps what an earlier one is done with. The code
leaves that to whoever writes the middlewares, so it is stated of them and not assumed of
the chain; `MCProxy` has TLC evaluate it for those of the runs. `StubFireLimit`, the limit
the documentation states, is proved for stubs whose limit is not zero; `claim_stub_times`
is about the others.

`StorageProofs` proves `TypeOK`, `AckedLoadBack`, `UnreadableOnlyIfTorn` and `FlushIsDurable`
for any exchanges, any of them long, any of the backends and any number of crashes.
`PlaceInv` says which buffers a backend uses and when. `LineInv` is about the stream, the
file followed by what is in flight and what is still to be handed over: its lines are cut
only at their end (`Chained`) and no piece of it is there twice, or in the `BufWriter` as well;
a partial write moves pieces from one part of the stream to the next and leaves the stream
itself alone. `AckInv` says that an acknowledged line is on the medium to its newline (and then
`Chained` gives the rest of it, which is the first half of `AckedLoadBack`), in
the order of the acknowledgements, and before `synced` if a `flush()` fenced it; and that the
line under way is there or on its way unless a write failed. `WholeInv` says that without a
fault, and without a long line given up, the stream consists of whole lines. The
theorems then follow from what `load()` computes, by induction over the content:
`LoadFinds`, if it meets no error it returns the exchange of every line that ended, in the
order of the lines; `LoadWhole`, it meets no error in whole lines.

`ControlProofs` proves the four properties of `Control` for any upstreams, builder calls,
command lines and requests, in any number.

- `CommandsKeepToScope` from `ScopeInv`: while `ClearStubs` is at work, the upstreams it
  has passed have no stub, though requests are served in between, and its sender has
  no answer yet.
- `BuiltAsAsked` from `BuildInv`: after any calls the builder holds what they ask for
  so far. Each setter's last call, found by its position, gives the builder's field; the
  n-th global middleware is that of the n-th `add_middleware`; and an upstream keeps the
  mode and handler that were current when it was added (`Kept`).
- `FoundAsSent` from `SentInv`: an exchange in the ring carries the text of the live
  request's URI. `UriRoundTrip` shows that reading the text of a URI gives the URI
  back, with what `path()` makes of its path, in origin, absolute, authority and asterisk
  form. Matcher and filter look at `path()` and always agree; the key agrees unless the
  path is missing before a query, the form the property excepts.
- `ForwardedUnderPrefix` from `DialInv`, what each request was dialled with, and
  `OutboundFacts`, what joining a trimmed base path with a path and query gives.

The assumptions on URIs (`WellFormed`) are what `http::Uri` guarantees of a parsed one:
no `?` in a path, a query that starts with one, one of the four forms, with a path that
may be missing before a query in the absolute form. The token
`"://"` stands for the separator behind a scheme only, so no path holds it.
`LiteralAssumption` tells the provers that the string literals of `Traffic` and `Builder`
are strings.

The library's induction theorems take an operator as a parameter, which the
installed provers cannot instantiate. The inductions over loops in `ProxyProofs` and `StorageProofs`
therefore use `NatSetInduction` of `Induction` (a set that holds 0, and n + 1 with every n it
holds, holds every number), applied to the set of rounds after which the loop's invariant
holds.

The assumptions are the named `ASSUME`s on the constants, which TLC evaluates in the runs,
and the hypotheses named above (`RedactionsCompose`, which TLC evaluates too, stub limits other than
zero, a ring below its cap). Every invariant and every action property of the
passing runs is proved. Model-checked only: the liveness properties (`RecordCompletes`,
`StableMatchPasses`, `AssertionAnswered`, `DrainCompletes`, `EveryRequestEnds`,
`ShutdownReturns`, `DropStopsListeners`, `CommandAnswered`, `CallsSettle`, `AppendEnds`);
fairness and `ENABLED` are out of the prover's reach.

## 6. Not modelled

JSON text, body encoding and hashing, TLS, SQL and the echo server are data
conversion, I/O or third-party code. The connection pool and the Host header of the
forwarder are hyper's and leave no state the proxy reads. The fallback of
`path_and_query_of_str` and `parse_path` for recorded strings that are no URI is left out:
the proxy records only URIs that were parsed. A SQLite database in memory is no different
from `InMemoryStorage`. hyper runs HTTP/2 handlers on its own executor, so they may
outlive the connection future that a hard abort drops; that is outside the repository
and left out.

Two abstractions to know of. A line between the 8 KB of the `BufWriter` and the 2 MB of
tokio's `File` is written past the buffer but in one piece; `Storage` has only lines that are
buffered and lines that are split, and so allows such a line more than it can do. In
`TsClient` a response that is rejected while its call still awaits `drain` is delivered
when the call comes to await it; in Node the rejection has no handler until then
(`index.ts:183`), which by default ends the process.

## 7. Plan

Done: `Recorder` with its abstraction and proofs, `WaitFor`, `StubStore`,
`ReplaySource`, `Proxy`, `Cluster`, `TsClient`, from the shared state outwards; then
`Storage`, the chain of several middlewares in `Proxy`, and `Traffic`, `Builder` and
`Control`.

Then the theorems about `Proxy`, `Storage` and `Control`, and of counts and deadlines in `WaitFor`.

Left: the relation between `Proxy` and `Recorder` is argued in section 2 and not proved;
a mapping of `Proxy`'s medium and record steps onto `AtomicRecorder` would make it a
theorem. `Control` serves a request in one step; that its stub and replay steps are
those of `Proxy` rests on both using `StubStore` and `ReplaySource`.
