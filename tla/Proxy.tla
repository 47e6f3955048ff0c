------------------------------- MODULE Proxy --------------------------------
(***************************************************************************)
(* The request lifecycle of one upstream (partly-proxy-lib/src/listener.rs *)
(* with stub.rs, replay.rs, middleware.rs and the storage media): pause    *)
(* gate, body collection, middleware chain, stub scan, replay lookup,      *)
(* forward, promotion into the replay index, record; and the restarts of   *)
(* the cluster, which rebuild the index from the medium.                   *)
(*                                                                         *)
(* Requests run concurrently, one task each. A request is aborted when its *)
(* future is dropped at an await: the client went away, or the drain       *)
(* deadline of a shutdown passed.                                          *)
(*                                                                         *)
(* Data are abstracted to what the properties tell apart. A raw request is *)
(* a member of Keys, its match key; RedactBy, Rewrite and Truncate say     *)
(* which request a redaction, a rewriting middleware or the loss of the    *)
(* body turns it into. A response is known by what produced it and by whose *)
(* redaction it has still to go through.                                   *)
(***************************************************************************)
EXTENDS StubStore, ReplaySource, Functions

CONSTANTS
    Requests,       \* inbound requests, each served once
    KeyOf,          \* the raw request each of them is
    Chain,          \* the middlewares: global first, then per upstream
    RedactBy,       \* redact_request_for_snapshot of each middleware
    WayIn,          \* what each middleware may do with the request
    WayOut,         \* what each may do with the result of next.run
    Rewrite,        \* what a rewriting middleware hands to next.run
    Truncate,       \* the request with an empty body
    Stubs,          \* ids of the stubs the harness registers, once each
    StubMatches,    \* per stub, the raw requests its matcher accepts
    StubTimes,      \* per stub, its initial times
    Configs,        \* the configurations a cluster is started with
    MaxRestarts,    \* bound: how often the cluster is started again
    Nobody          \* no response yet

Middlewares == {Chain[i] : i \in 1..Len(Chain)}

ASSUME ProxyAssumption ==
    /\ KeyOf \in [Requests -> Keys]
    /\ Chain \in Seq(Middlewares)
    /\ RedactBy \in [Middlewares -> [Keys -> Keys]]
    /\ Rewrite \in [Keys -> Keys]
    /\ Truncate \in [Keys -> Keys]
    /\ WayIn \in [Middlewares -> SUBSET {"pass", "rewrite", "shortCircuit", "reject"}]
    /\ WayOut \in [Middlewares -> SUBSET {"pass", "transform", "recover", "reject"}]
    /\ StubMatches \in [Stubs -> SUBSET Keys]
    /\ StubTimes \in [Stubs -> Nat \cup {Unlimited}]
    /\ Unlimited \notin Nat
    /\ Configs \subseteq [mode: {"Record", "Replay"},
                          recording: BOOLEAN, storage: BOOLEAN]
    /\ MaxRestarts \in Nat

VARIABLES
    phase,      \* "running" or "draining"
    config,     \* Mode, RecordingConfig::enabled and storage of this run
    restarts,   \* starts of the cluster after the first
    paused,     \* UpstreamRuntime::pause
    stubs,      \* UpstreamRuntime::stubs
    registered, \* stubs the harness has registered so far
    fired,      \* history: how often each stub has fired
    replay,     \* UpstreamRuntime::replay
    medium,     \* the storage medium, in append order; survives restarts
    pc,         \* lifecycle stage of each request
    original,   \* original_request: the request as it arrived
    inner,      \* the request as the next layer of the chain sees it
    depth,      \* the middleware whose handle() is running; 0 outside the chain
    source,     \* RequestContext's ResponseSource
    out,        \* the Result travelling back through the chain
    rejected    \* requests whose record() failed (a warning) or was cancelled

requestVars == <<pc, original, inner, depth, source, out, rejected>>
serverVars == <<phase, config, restarts, paused>>
stubVars == <<stubs, registered, fired>>
sharedVars == <<serverVars, stubVars, replay, medium>>
vars == <<sharedVars, requestVars>>

\* The stages of handle_request. Those in Awaits suspend the task.
Awaits == {"gate", "body", "chain", "stub", "delay", "forward", "unwind", "record"}
Ended == {"idle", "done", "aborted", "past"}
Stages == Awaits \cup {"lookup", "finish"} \cup Ended

Sources == {"none", "Stub", "Snapshot", "ReplayMiss", "Upstream"}

\* What a request or a stub produced. raw: the middlewares whose
\* redact_response_for_snapshot it has not been through.
Result(kind, by) == [kind |-> kind, of |-> by, raw |-> Middlewares]

Results == [kind : {"upstream", "stub", "miss", "middleware", "error"},
            of : Requests \cup Stubs, raw : SUBSET Middlewares]

NoResult == [kind |-> "none", of |-> Nobody, raw |-> {}]

Exchanges == [key : Keys, outcome : Results, by : Requests]

EmptySource == [exchanges |-> <<>>, index |-> NoEntries]

TypeOK ==
    /\ phase \in {"running", "draining"}
    /\ config \in Configs
    /\ restarts \in 0..MaxRestarts
    /\ paused \in BOOLEAN
    /\ stubs \in Seq([id : Stubs, matches : SUBSET Keys, times : Nat \cup {Unlimited}])
    /\ registered \in SUBSET Stubs
    /\ fired \in [Stubs -> Nat]
    /\ replay \in [exchanges : Seq(Exchanges), index : [Keys -> Nat]]
    /\ medium \in Seq(Exchanges)
    /\ pc \in [Requests -> Stages]
    /\ original \in [Requests -> Keys]
    /\ inner \in [Requests -> Keys]
    /\ depth \in [Requests -> 0..Len(Chain)]
    /\ source \in [Requests -> Sources]
    /\ out \in [Requests -> Results \cup {NoResult}]
    /\ rejected \in SUBSET Requests

Init ==
    /\ phase = "running"
    /\ config \in Configs
    /\ restarts = 0
    /\ paused = FALSE
    /\ stubs = <<>>
    /\ registered = {}
    /\ fired = [s \in Stubs |-> 0]
    /\ replay = EmptySource
    /\ medium = <<>>
    /\ pc = [r \in Requests |-> "idle"]
    /\ original = KeyOf
    /\ inner = KeyOf
    /\ depth = [r \in Requests |-> 0]
    /\ source = [r \in Requests |-> "none"]
    /\ out = [r \in Requests |-> NoResult]
    /\ rejected = {}

----------------------------------------------------------------------------
\* Stages 1 to 4: accept, pause gate, body collection.

\* A request arrives on a new connection, which the accept loop hands to serve_one,
\* or on one that is open: a draining connection that still serves a request takes
\* others until its client has seen the GOAWAY.
Accept(r) ==
    /\ phase = "running" \/ \E q \in Requests : pc[q] \notin Ended
    /\ pc[r] = "idle"
    /\ pc' = [pc EXCEPT ![r] = "gate"]
    /\ UNCHANGED <<sharedVars, original, inner, depth, source, out, rejected>>

\* pause_gate re-reads the flag whenever it changes, and lets go when it is off.
PassGate(r) ==
    /\ pc[r] = "gate"
    /\ ~paused
    /\ pc' = [pc EXCEPT ![r] = "body"]
    /\ UNCHANGED <<sharedVars, original, inner, depth, source, out, rejected>>

\* run_chain starts with the first middleware, or with the terminal.
BodyOk(r) ==
    /\ pc[r] = "body"
    /\ pc' = [pc EXCEPT ![r] = IF Chain = <<>> THEN "stub" ELSE "chain"]
    /\ depth' = [depth EXCEPT ![r] = IF Chain = <<>> THEN 0 ELSE 1]
    /\ UNCHANGED <<sharedVars, original, inner, source, out, rejected>>

\* The inbound body cannot be read: an error exchange for the request with an
\* empty body, then 502. The middleware chain does not run.
BodyErr(r) ==
    /\ pc[r] = "body"
    /\ original' = [original EXCEPT ![r] = Truncate[@]]
    /\ out' = [out EXCEPT ![r] = Result("error", r)]
    /\ pc' = [pc EXCEPT ![r] = IF config.recording THEN "record" ELSE "done"]
    /\ UNCHANGED <<sharedVars, inner, depth, source, rejected>>

----------------------------------------------------------------------------
\* Stage 5: the middleware chain on the way in. Next is consumed by the call of
\* run, so each layer, and the terminal, is entered at most once.

\* The running middleware calls next.run: the rest of the chain, or the terminal
\* once split_first finds nothing left.
CallNext(r) ==
    /\ pc[r] = "chain"
    /\ LET ways == WayIn[Chain[depth[r]]] IN
         \/ "pass" \in ways /\ UNCHANGED inner
         \/ "rewrite" \in ways /\ inner' = [inner EXCEPT ![r] = Rewrite[@]]
    /\ IF depth[r] = Len(Chain)
       THEN pc' = [pc EXCEPT ![r] = "stub"] /\ UNCHANGED depth
       ELSE depth' = [depth EXCEPT ![r] = @ + 1] /\ UNCHANGED pc
    /\ UNCHANGED <<sharedVars, original, source, out, rejected>>

\* Where a result goes that leaves the layer inside middleware i: to that
\* middleware, or to handle_request when there is none.
Outward(i) == IF i = 0 THEN "finish" ELSE "unwind"

\* A middleware answers without calling next: the layers inside it never run, and
\* no ResponseSource is set.
SkipNext(r) ==
    /\ pc[r] = "chain"
    /\ LET ways == WayIn[Chain[depth[r]]] IN
         \/ "shortCircuit" \in ways /\ out' = [out EXCEPT ![r] = Result("middleware", r)]
         \/ "reject" \in ways /\ out' = [out EXCEPT ![r] = Result("error", r)]
    /\ depth' = [depth EXCEPT ![r] = @ - 1]
    /\ pc' = [pc EXCEPT ![r] = Outward(depth[r] - 1)]
    /\ UNCHANGED <<sharedVars, original, inner, source, rejected>>

----------------------------------------------------------------------------
\* Stages 6 to 8: LiveTerminal::invoke.

\* take_match fires the first matching stub.
StubHit(r) ==
    /\ pc[r] = "stub"
    /\ LET i == FirstMatch(stubs, inner[r]) IN
         /\ i # 0
         /\ out' = [out EXCEPT ![r] = Result("stub", stubs[i].id)]
         /\ stubs' = AfterFire(stubs, i)
         /\ fired' = [fired EXCEPT ![stubs[i].id] = @ + 1]
    /\ pc' = [pc EXCEPT ![r] = "delay"]
    /\ UNCHANGED <<serverVars, registered, replay, medium, original, inner, depth, source, rejected>>

\* The artificial delay is over; only now is the source stamped.
StubAnswers(r) ==
    /\ pc[r] = "delay"
    /\ source' = [source EXCEPT ![r] = "Stub"]
    /\ pc' = [pc EXCEPT ![r] = Outward(depth[r])]
    /\ UNCHANGED <<sharedVars, original, inner, depth, out, rejected>>

StubMiss(r) ==
    /\ pc[r] = "stub"
    /\ FirstMatch(stubs, inner[r]) = 0
    /\ pc' = [pc EXCEPT ![r] = "lookup"]
    /\ UNCHANGED <<sharedVars, original, inner, depth, source, out, rejected>>

\* Mutant of Redact: the first redaction is applied last.
RedactReversed ==
    LET by[i \in 0..Len(Chain)] ==
            [k \in Keys |-> IF i = 0 THEN k
                            ELSE by[i - 1][RedactBy[Chain[i]][k]]]
    IN  by[Len(Chain)]

\* redact_request: every middleware's redaction, in registration order.
Redact ==
    LET by[i \in 0..Len(Chain)] ==
            [k \in Keys |-> IF i = 0 THEN k
                            ELSE RedactBy[Chain[i]][by[i - 1][k]]]
    IN  by[Len(Chain)]

\* Redactions that go together: each is idempotent, and a later one keeps what an
\* earlier one is done with. The code leaves that to whoever writes them.
RedactionsCompose ==
    /\ \A m \in Middlewares, k \in Keys : RedactBy[m][RedactBy[m][k]] = RedactBy[m][k]
    /\ \A i, j \in 1..Len(Chain), k \in Keys :
         i < j /\ RedactBy[Chain[i]][k] = k =>
            RedactBy[Chain[i]][RedactBy[Chain[j]][k]] = RedactBy[Chain[j]][k]

\* The key a lookup uses: the request the terminal got, redacted.
LookupKey(r) == Redact[inner[r]]

Snapshotted(r) == config.storage /\ Hit(replay, LookupKey(r))

ReplayHit(r) ==
    /\ pc[r] = "lookup"
    /\ Snapshotted(r)
    /\ source' = [source EXCEPT ![r] = "Snapshot"]
    /\ out' = [out EXCEPT ![r] = Lookup(replay, LookupKey(r))]
    /\ pc' = [pc EXCEPT ![r] = Outward(depth[r])]
    /\ UNCHANGED <<sharedVars, original, inner, depth, rejected>>

\* Mutant of ReplayMiss: an upstream without a replay source is forgotten.
ReplayMissIfStored(r) ==
    /\ pc[r] = "lookup"
    /\ ~Snapshotted(r)
    /\ config.mode = "Replay" /\ config.storage
    /\ source' = [source EXCEPT ![r] = "ReplayMiss"]
    /\ out' = [out EXCEPT ![r] = Result("miss", r)]
    /\ pc' = [pc EXCEPT ![r] = Outward(depth[r])]
    /\ UNCHANGED <<sharedVars, original, inner, depth, rejected>>

\* Mode::Replay: the replay miss handler answers, the upstream is not dialled.
ReplayMiss(r) ==
    /\ pc[r] = "lookup"
    /\ ~Snapshotted(r)
    /\ config.mode = "Replay"
    /\ source' = [source EXCEPT ![r] = "ReplayMiss"]
    /\ out' = [out EXCEPT ![r] = Result("miss", r)]
    /\ pc' = [pc EXCEPT ![r] = Outward(depth[r])]
    /\ UNCHANGED <<sharedVars, original, inner, depth, rejected>>

\* Mode::Record: the source is stamped before the forward is awaited.
Dial(r) ==
    /\ pc[r] = "lookup"
    /\ ~Snapshotted(r)
    /\ config.mode = "Record"
    /\ source' = [source EXCEPT ![r] = "Upstream"]
    /\ pc' = [pc EXCEPT ![r] = "forward"]
    /\ UNCHANGED <<sharedVars, original, inner, depth, out, rejected>>

\* The upstream answers, fails, or the request timeout elapses.
Forwarded(r) ==
    /\ pc[r] = "forward"
    /\ \E kind \in {"upstream", "error"} : out' = [out EXCEPT ![r] = Result(kind, r)]
    /\ pc' = [pc EXCEPT ![r] = Outward(depth[r])]
    /\ UNCHANGED <<sharedVars, original, inner, depth, source, rejected>>

----------------------------------------------------------------------------
\* Stage 5 again: the chain on the way out, innermost middleware first. Each may
\* replace a response, recover from an error, or turn anything into an error.

Unwind(r) ==
    /\ pc[r] = "unwind"
    /\ LET ways == WayOut[Chain[depth[r]]] IN
         \/ "pass" \in ways /\ UNCHANGED out
         \/ "transform" \in ways /\ IsResponse(out[r])
              /\ out' = [out EXCEPT ![r] = Result("middleware", r)]
         \/ "recover" \in ways /\ ~IsResponse(out[r])
              /\ out' = [out EXCEPT ![r] = Result("middleware", r)]
         \/ "reject" \in ways /\ out' = [out EXCEPT ![r] = Result("error", r)]
    /\ depth' = [depth EXCEPT ![r] = @ - 1]
    /\ pc' = [pc EXCEPT ![r] = Outward(depth[r] - 1)]
    /\ UNCHANGED <<sharedVars, original, inner, source, rejected>>

----------------------------------------------------------------------------
\* Stage 9: record.

\* redact_response: every middleware of the chain, whichever of them the response
\* passed. An error has none to redact, only a message.
RedactOutcome(result) ==
    IF IsResponse(result) THEN [result EXCEPT !.raw = @ \ Middlewares] ELSE result

\* Mutant of Exchange: the rewritten request is recorded.
ExchangeOfInner(r) ==
    [key |-> Redact[inner[r]], outcome |-> RedactOutcome(out[r]), by |-> r]

\* The exchange is built from the request as it arrived, not as the terminal
\* saw it.
Exchange(r) ==
    [key |-> Redact[original[r]], outcome |-> RedactOutcome(out[r]), by |-> r]

\* Mutant of Unrecorded: snapshot hits are recorded again.
UnrecordedIfOff(r) == ~config.recording

\* record_success_exchange and record_error_exchange return early: recording is
\* off, or the response came from the snapshot. The reply is sent.
Unrecorded(r) ==
    ~config.recording \/ (IsResponse(out[r]) /\ source[r] = "Snapshot")

FinishUnrecorded(r) ==
    /\ pc[r] = "finish"
    /\ Unrecorded(r)
    /\ pc' = [pc EXCEPT ![r] = "done"]
    /\ UNCHANGED <<sharedVars, original, inner, depth, source, out, rejected>>

Promoted(r) == IsResponse(out[r]) /\ source[r] = "Upstream" /\ config.storage

\* Otherwise a forwarded response is promoted into the live index, and only
\* then does the task await the recorder.
Promote(r) ==
    /\ pc[r] = "finish"
    /\ ~Unrecorded(r)
    /\ replay' = IF Promoted(r) THEN Insert(replay, Exchange(r)) ELSE replay
    /\ pc' = [pc EXCEPT ![r] = "record"]
    /\ UNCHANGED <<serverVars, stubVars, medium, original, inner, depth, source, out, rejected>>

\* The medium of this upstream, if it has one, once r's exchange is on it.
Landed(r) == IF config.storage THEN Append(medium, Exchange(r)) ELSE medium

\* recorder.record() returned Ok, one atomic append (AtomicRecorder!Record); the
\* reply is sent.
RecordOk(r) ==
    /\ pc[r] = "record"
    /\ medium' = Landed(r)
    /\ pc' = [pc EXCEPT ![r] = "done"]
    /\ UNCHANGED <<serverVars, stubVars, replay, original, inner, depth, source, out, rejected>>

\* recorder.record() returned Err (AtomicRecorder!Abandon): a warning, and the
\* reply is sent all the same.
RecordErr(r) ==
    /\ pc[r] = "record"
    /\ config.storage
    /\ medium' \in {medium, Landed(r)}
    /\ rejected' = rejected \cup {r}
    /\ pc' = [pc EXCEPT ![r] = "done"]
    /\ UNCHANGED <<serverVars, stubVars, replay, original, inner, depth, source, out>>

\* Mutant of Abort: a request waiting at the pause gate is not cut.
AbortUngated(r) ==
    /\ pc[r] \in Awaits \ {"gate"}
    /\ IF pc[r] = "record"
       THEN medium' \in {medium, Landed(r)} /\ rejected' = rejected \cup {r}
       ELSE UNCHANGED <<medium, rejected>>
    /\ pc' = [pc EXCEPT ![r] = "aborted"]
    /\ depth' = [depth EXCEPT ![r] = 0]
    /\ UNCHANGED <<serverVars, stubVars, replay, original, inner, source, out>>

\* The request's future is dropped at an await. A record() under way is
\* cancelled, before or after its append landed.
Abort(r) ==
    /\ pc[r] \in Awaits
    /\ IF pc[r] = "record"
       THEN medium' \in {medium, Landed(r)} /\ rejected' = rejected \cup {r}
       ELSE UNCHANGED <<medium, rejected>>
    /\ pc' = [pc EXCEPT ![r] = "aborted"]
    /\ depth' = [depth EXCEPT ![r] = 0]
    /\ UNCHANGED <<serverVars, stubVars, replay, original, inner, source, out>>

----------------------------------------------------------------------------
\* Commands of the harness (the command plane serialises them).

AddStub(s) ==
    /\ s \notin registered
    /\ registered' = registered \cup {s}
    /\ stubs' = Append(stubs, [id |-> s, matches |-> StubMatches[s],
                               times |-> StubTimes[s]])
    /\ UNCHANGED <<fired, serverVars, replay, medium, requestVars>>

ClearStubs ==
    /\ stubs # <<>>
    /\ stubs' = <<>>
    /\ UNCHANGED <<fired, serverVars, registered, replay, medium, requestVars>>

SetPause(on) ==
    /\ paused # on
    /\ paused' = on
    /\ UNCHANGED <<phase, config, restarts, stubVars, replay, medium, requestVars>>

----------------------------------------------------------------------------
\* Shutdown and restart.

\* The accept loop sees the shutdown signal: it stops accepting, lifts the
\* pause and starts draining.
Shutdown ==
    /\ phase = "running"
    /\ phase' = "draining"
    /\ paused' = FALSE
    /\ UNCHANGED <<config, restarts, stubVars, replay, medium, requestVars>>

\* Once every connection ended, run() may start a new cluster on the same
\* medium: fresh stubs and pause flag, and the replay index rebuilt by load().
Restart ==
    /\ phase = "draining"
    /\ restarts < MaxRestarts
    /\ \A r \in Requests : pc[r] \in Ended
    /\ phase' = "running"
    /\ config' \in Configs
    /\ restarts' = restarts + 1
    /\ paused' = FALSE
    /\ stubs' = <<>>
    /\ replay' = IF config'.storage THEN FromStorage(medium) ELSE EmptySource
    /\ pc' = [r \in Requests |-> IF pc[r] = "idle" THEN "idle" ELSE "past"]
    /\ UNCHANGED <<registered, fired, medium, original, inner, depth, source, out, rejected>>

RequestStep(r) ==
    \/ PassGate(r) \/ BodyOk(r) \/ BodyErr(r)
    \/ CallNext(r) \/ SkipNext(r)
    \/ StubHit(r) \/ StubAnswers(r) \/ StubMiss(r)
    \/ ReplayHit(r) \/ ReplayMiss(r) \/ Dial(r) \/ Forwarded(r)
    \/ Unwind(r)
    \/ FinishUnrecorded(r) \/ Promote(r) \/ RecordOk(r) \/ RecordErr(r)

Next ==
    \/ \E r \in Requests : Accept(r) \/ RequestStep(r) \/ Abort(r)
    \/ \E s \in Stubs : AddStub(s)
    \/ ClearStubs
    \/ \E on \in BOOLEAN : SetPause(on)
    \/ Shutdown
    \/ Restart

Spec == Init /\ [][Next]_vars

\* The awaits whose end is up to somebody else: the client sending its body, the
\* user's middleware, the upstream. Each may take longer than any drain deadline.
Outside == {"body", "chain", "forward", "unwind"}

\* A task that waits for nobody else is polled to its next await. The drain
\* deadline of a shutdown passes, and what is still suspended is aborted.
Fairness ==
    \A r \in Requests :
        /\ WF_vars(pc[r] \notin Outside /\ RequestStep(r))
        /\ WF_vars(phase = "draining" /\ Abort(r))

FairSpec == Spec /\ Fairness

----------------------------------------------------------------------------
\* Properties.

\* The replay index never dangles or lies: every indexed position holds a
\* response recorded for exactly that key, after any mix of loads and live
\* promotions (replay.rs keeps positions, not exchanges, in its map).
IndexSound ==
    \A k \in Keys :
        replay.index[k] # 0 =>
            /\ Hit(replay, k)
            /\ replay.exchanges[replay.index[k]].key = k

\* Within one run the answer a key replays never changes or disappears once
\* there is one: concurrent promotions of the same key do not overwrite it.
FirstWriteWins ==
    [][restarts' = restarts =>
        \A k \in Keys :
            Hit(replay, k) =>
                Hit(replay', k) /\ Lookup(replay', k) = Lookup(replay, k)]_vars

\* The deduplicating cache: once a forwarded response has been sent to its
\* client, no later lookup of the key it was recorded under dials the upstream
\* again in the same run, even if storage rejected the exchange.
SeenNotForwarded ==
    [][\A r, q \in Requests :
        /\ pc[r] = "lookup" /\ pc'[r] = "forward"
        /\ config.recording /\ config.storage
        /\ pc[q] = "done" /\ source[q] = "Upstream" /\ IsResponse(out[q])
        => LookupKey(r) # Redact[original[q]]]_vars

\* A restart loses no replayable key: what could be replayed before it can be
\* replayed after it, unless recording the exchange was rejected or cut short.
ReloadKeepsKeys ==
    [][restarts' # restarts /\ config.storage /\ config'.storage =>
        \A k \in Keys :
            /\ Hit(replay, k)
            /\ replay.exchanges[replay.index[k]].by \notin rejected
            => Hit(replay', k)]_vars

\* No request is appended twice, and none that was answered from the snapshot is
\* appended again.
AppendedOnce ==
    /\ \A i, j \in 1..Len(medium) : medium[i].by = medium[j].by => i = j
    /\ \A i \in 1..Len(medium) :
         IsResponse(medium[i].outcome) => source[medium[i].by] # "Snapshot"

\* Nothing unredacted is ever persisted or replayed: medium and index hold only
\* requests and responses that every middleware of the chain has redacted, also
\* when an outer one short-circuits and the inner ones never see the exchange.
\* (Of middlewares whose redactions go together, RedactionsCompose.)
RedactedAtRest ==
    \A e \in Range(medium) \cup Range(replay.exchanges) :
        /\ IsResponse(e.outcome) => e.outcome.raw = {}
        /\ \A m \in Middlewares : RedactBy[m][e.key] = e.key

\* "`Some(n)` => fires at most `n` times before auto-removal" (stub.rs:178): a limited
\* stub fires at most as often as it was registered for, under any interleaving of
\* concurrent requests, clears and restarts. (Not so of a stub registered with
\* times = 0: take_match removes a stub only after a fire.)
StubFireLimit ==
    \A s \in Stubs : StubTimes[s] # Unlimited => fired[s] <= StubTimes[s]

\* Shutdown terminates: every request ends even if upstreams hang, bodies never
\* arrive or the upstream is paused again while it drains.
DrainCompletes ==
    phase = "draining" ~> \A r \in Requests : pc[r] \in Ended

\* A request whose client, middleware and upstream each answer in the end, ends,
\* in every configuration, if the pause is eventually lifted for good: the
\* lifecycle itself has no dead end.
EveryRequestEnds ==
    \A r \in Requests :
        /\ <>[](~paused)
        /\ []<>(pc[r] \notin Outside)
        => (pc[r] = "gate" ~> pc[r] \in Ended)
============================================================================
