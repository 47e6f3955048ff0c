------------------------------ MODULE Control -------------------------------
(***************************************************************************)
(* A test harness at work: it configures a cluster through the builder,    *)
(* runs it, sends command lines to the control plane                       *)
(* (control_plane.rs, wire.rs, command.rs) and requests to the upstreams,  *)
(* and asks what was recorded.                                             *)
(*                                                                         *)
(* The command processor dispatches one command at a time; ClearStubs for  *)
(* all upstreams takes their locks one after the other, and requests are   *)
(* served in between. Here a request is served in one step: how the stages *)
(* of concurrent requests interleave is Proxy's subject, how an assertion  *)
(* waits WaitFor's (the ones here have a timeout of zero), and middleware  *)
(* that changes anything is left to Proxy as well.                         *)
(***************************************************************************)
EXTENDS FiniteSets, Traffic, Builder, StubStore, ReplaySource

CONSTANTS
    BuilderCalls,   \* the calls the harness may make on the builder
    WireLines,      \* the lines it may send to the control plane
    MaxOps,         \* bound: how many calls and lines there are together
    Requests,       \* requests it sends, once each
    LiveRequest,    \* what each of them is
    TargetOf,       \* the upstream each is sent to
    Answers,        \* the responses a real upstream may give
    Idle            \* no command is being dispatched

\* The builder's methods that add an upstream.
AddCalls == {"add_upstream_with", "add_upstream_with_mode", "add_stub"}

ASSUME ControlAssumption ==
    /\ MaxOps \in Nat
    /\ Keys = {LiveKey(LiveRequest[r]) : r \in Requests}
              \cup {RecordedKey(RecordedRequest(LiveRequest[r])) : r \in Requests}
    /\ \A c \in BuilderCalls :
         /\ c.call \in {"recording", "default_mode", "on_replay_miss", "add_middleware"}
                        \cup AddCalls
         /\ c.call = "add_middleware" => c.middleware \in STRING
         /\ c.call \in AddCalls => c.middleware \in Seq(STRING)
         /\ c.call \in AddCalls \ {"add_stub"} => WellFormed(c.base)
         /\ c.call = "recording" => c.cfg.max \in Nat
    /\ DefaultCap \in Nat
    /\ \A r \in Requests : WellFormed(LiveRequest[r].uri)

\* The literals the URIs are built from are strings: TLC knows it, the provers
\* have to be told.
ASSUME LiteralAssumption == {"/", "http", "://", "stub.internal:0"} \subseteq STRING

VARIABLES
    phase,      \* "building", "running", or "refused" by run()
    builder,    \* the ProxyClusterBuilder
    calls,      \* history: the calls made on it
    registry,   \* the upstreams by name: mode, base, chain, handler, storage
    stubs,      \* per upstream, its stub list
    paused,     \* per upstream, its pause flag
    replay,     \* per upstream, its replay source
    ring,       \* the recorder's ring
    lines,      \* how many lines were sent
    dispatch,   \* the command being dispatched and the upstreams it has left
    answer,     \* the reply to the last line
    served,     \* per request, where its response came from and what it was
    dialled     \* per request, the URI it was forwarded to

clusterVars == <<registry, stubs, paused, replay, ring, served, dialled>>
commandVars == <<lines, dispatch, answer>>
vars == <<phase, builder, calls, clusterVars, commandVars>>

Names == DOMAIN registry

Unserved == [source |-> "none"]

Init ==
    /\ phase = "building"
    /\ builder = NewBuilder
    /\ calls = <<>>
    /\ registry = <<>> /\ stubs = <<>> /\ paused = <<>> /\ replay = <<>>
    /\ ring = <<>>
    /\ lines = 0
    /\ dispatch = Idle
    /\ answer = "none"
    /\ served = [r \in Requests |-> Unserved]
    /\ dialled = [r \in Requests |-> <<>>]

----------------------------------------------------------------------------
\* Configuration and run().

Configure(c) ==
    /\ phase = "building"
    /\ Len(calls) < MaxOps
    /\ builder' = Apply(builder, c)
    /\ calls' = Append(calls, c)
    /\ UNCHANGED <<phase, clusterVars, commandVars>>

Specs == builder.upstreams

\* The runtime of an upstream (Forwarder::new and UpstreamRuntime::new).
Runtime(spec) ==
    [mode |-> spec.mode, base |-> ParseBaseUrl(spec.base), storage |-> spec.storage,
     chain |-> ChainOf(builder, spec), handler |-> spec.replay_miss_handler]

EmptySource == [exchanges |-> <<>>, index |-> NoEntries]

\* run(): every upstream gets a runtime, unless one cannot be set up.
Run ==
    /\ phase = "building"
    /\ IF NamesUnique(builder) /\ \A i \in DOMAIN Specs : UsableBase(Specs[i].base)
       THEN LET names == {Specs[i].name : i \in DOMAIN Specs}
                of(n) == Specs[CHOOSE i \in DOMAIN Specs : Specs[i].name = n]
            IN  /\ phase' = "running"
                /\ registry' = [n \in names |-> Runtime(of(n))]
                /\ stubs' = [n \in names |-> <<>>]
                /\ paused' = [n \in names |-> FALSE]
                /\ replay' = [n \in names |-> EmptySource]
       ELSE /\ phase' = "refused"
            /\ UNCHANGED <<registry, stubs, paused, replay>>
    /\ UNCHANGED <<builder, calls, ring, served, dialled, commandVars>>

----------------------------------------------------------------------------
\* The control plane.

\* handle_line refuses what is not JSON, and into_command a method or a status
\* that http does not accept.
Valid(line) ==
    /\ line.type # "garbage"
    /\ line.type = "Stub" => line.method # "bad method" /\ line.status \in 100..999

\* into_command: the matcher of a Stub line.
MatcherOf(line) ==
    [method |-> line.method, path |-> line.path, headers |-> line.headers,
     body |-> line.body]

\* into_filter
FilterOf(line) ==
    [upstream |-> line.upstream, method |-> line.method, path |-> line.path,
     status |-> line.status, labels |-> line.labels]

\* A line is read. An invalid one is answered by the connection itself.
HandleLine(line) ==
    /\ phase = "running" /\ dispatch = Idle
    /\ Len(calls) + lines < MaxOps
    /\ lines' = lines + 1
    /\ IF Valid(line)
       THEN dispatch' = [line |-> line, left |-> Names] /\ answer' = "none"
       ELSE answer' = "Error" /\ UNCHANGED dispatch
    /\ UNCHANGED <<phase, builder, calls, clusterVars>>

\* The command is answered.
Reply(a) == answer' = a /\ dispatch' = Idle

Dispatching(type) == dispatch # Idle /\ dispatch.line.type = type

\* Mutant of Resolve: without a name the first upstream is taken.
ResolveFirst(name) ==
    IF name # Any THEN {name} \cap Names
    ELSE IF Names = {} THEN {} ELSE {CHOOSE n \in Names : TRUE}

\* resolve_upstream: the upstream named, or the only one there is.
Resolve(name) == IF name # Any THEN {name} \cap Names ELSE {n \in Names : Names = {n}}

\* The stub a line describes. The wire hands over response headers by name, so no
\* name repeats.
StubOf(line) ==
    [id |-> line.id,
     matches |-> {r \in Requests : Matches(MatcherOf(line), LiveRequest[r])},
     response |-> [status |-> line.status, headers |-> line.response_headers],
     times |-> line.times]

DispatchStub ==
    /\ Dispatching("Stub")
    /\ LET target == Resolve(dispatch.line.upstream) IN
         /\ stubs' = [n \in Names |->
                        IF n \in target THEN Append(stubs[n], StubOf(dispatch.line))
                                        ELSE stubs[n]]
         /\ Reply(IF target = {} THEN "Error" ELSE "Ok")
    /\ UNCHANGED <<phase, builder, calls, registry, paused, replay, ring, served, dialled,
                   lines>>

\* The upstreams a ClearStubs, Pause or Resume is for.
Scope(name) == IF name = Any THEN Names ELSE {name} \cap Names

\* ClearStubs takes one lock at a time, in the order of the registry.
ClearNext ==
    /\ Dispatching("ClearStubs")
    /\ LET left == Scope(dispatch.line.upstream) \cap dispatch.left IN
       \E n \in left :
         /\ stubs' = [stubs EXCEPT ![n] = <<>>]
         /\ dispatch' = [dispatch EXCEPT !.left = @ \ {n}]
    /\ UNCHANGED <<phase, builder, calls, registry, paused, replay, ring, served, dialled,
                   lines, answer>>

ClearDone ==
    /\ Dispatching("ClearStubs")
    /\ LET name == dispatch.line.upstream IN
         /\ Scope(name) \cap dispatch.left = {}
         /\ Reply(IF name # Any /\ Scope(name) = {} THEN "Error" ELSE "Ok")
    /\ UNCHANGED <<phase, builder, calls, clusterVars, lines>>

\* set_pause
DispatchPause ==
    /\ Dispatching("Pause") \/ Dispatching("Resume")
    /\ LET name == dispatch.line.upstream
           on   == dispatch.line.type = "Pause" IN
         /\ paused' = [n \in Names |-> IF n \in Scope(name) THEN on ELSE paused[n]]
         /\ Reply(IF name # Any /\ Scope(name) = {} THEN "Error" ELSE "Ok")
    /\ UNCHANGED <<phase, builder, calls, registry, stubs, replay, ring, served, dialled,
                   lines>>

Matched(filter) == SelectSeq(ring, LAMBDA x : FilterMatches(filter, x))

\* QueryTraffic, and the single evaluation of an assertion with no timeout.
DispatchQuery ==
    /\ \E type \in {"QueryTraffic", "AssertSeen", "AssertCount"} : Dispatching(type)
    /\ LET line == dispatch.line
           n    == Len(Matched(FilterOf(line))) IN
       Reply(CASE line.type = "QueryTraffic" -> Matched(FilterOf(line))
               [] line.type = "AssertSeen"   -> IF n >= 1 THEN "Passed" ELSE "Failed"
               [] line.type = "AssertCount"  -> IF n = line.expected THEN "Passed"
                                                ELSE "Failed")
    /\ UNCHANGED <<phase, builder, calls, clusterVars, lines>>

DispatchClearRecordings ==
    /\ Dispatching("ClearRecordings")
    /\ ring' = <<>>
    /\ Reply("Ok")
    /\ UNCHANGED <<phase, builder, calls, registry, stubs, paused, replay, served, dialled,
                   lines>>

----------------------------------------------------------------------------
\* Requests.

\* The exchange of a request that was answered, as the recorder keeps it.
ExchangeOf(r, outcome) ==
    LET recorded == RecordedRequest(LiveRequest[r]) IN
    [upstream |-> TargetOf[r], request |-> recorded, key |-> RecordedKey(recorded),
     outcome |-> outcome, of |-> r]

Bounded(buffer) ==
    LET extra == Len(buffer) - builder.recording.max
    IN  IF extra > 0 THEN SubSeq(buffer, extra + 1, Len(buffer)) ELSE buffer

\* Everything a request does once it has a response or an error: the exchange is
\* recorded unless recording is off or it came from the snapshot, a forwarded
\* response is promoted into the replay source, and the client is answered.
Finish(r, source, kind, response) ==
    LET u        == TargetOf[r]
        answered == RecordedResponse(response)
        outcome  == IF kind = "error" THEN [kind |-> kind]
                    ELSE [kind |-> kind, status |-> answered.status,
                          headers |-> answered.headers]
        exchange == ExchangeOf(r, outcome)
        recorded == builder.recording.enabled /\ (kind = "error" \/ source # "Snapshot")
    IN  /\ ring' = IF recorded THEN Bounded(Append(ring, exchange)) ELSE ring
        /\ replay' = IF recorded /\ source = "Upstream" /\ registry[u].storage # NoStorage
                     THEN [replay EXCEPT ![u] = Insert(@, exchange)] ELSE replay
        /\ served' = [served EXCEPT ![r] = [source |-> source, kind |-> kind,
                                            response |-> IntoHyper(response)]]

\* A response of the proxy's own: the miss handler's, and the 502 for an error.
Plain(status) == [status |-> status, headers |-> [n \in {"content-type"} |-> <<"json">>]]

Arrives(r) ==
    /\ phase = "running"
    /\ TargetOf[r] \in Names
    /\ ~paused[TargetOf[r]]
    /\ served[r] = Unserved
    /\ UNCHANGED <<phase, builder, calls, registry, paused, commandVars>>

StubFor(r) == FirstMatch(stubs[TargetOf[r]], r)
KeyFor(r) == LiveKey(LiveRequest[r])
Known(r) == registry[TargetOf[r]].storage # NoStorage /\ Hit(replay[TargetOf[r]], KeyFor(r))

ServeStub(r) ==
    /\ Arrives(r)
    /\ StubFor(r) # 0
    /\ stubs' = [stubs EXCEPT ![TargetOf[r]] = AfterFire(@, StubFor(r))]
    /\ Finish(r, "Stub", "stub", IntoProxy(stubs[TargetOf[r]][StubFor(r)].response))
    /\ UNCHANGED dialled

ServeSnapshot(r) ==
    /\ Arrives(r)
    /\ StubFor(r) = 0 /\ Known(r)
    /\ Finish(r, "Snapshot", "upstream", IntoProxy(Lookup(replay[TargetOf[r]], KeyFor(r))))
    /\ UNCHANGED <<stubs, dialled>>

ServeMiss(r) ==
    /\ Arrives(r)
    /\ StubFor(r) = 0 /\ ~Known(r)
    /\ registry[TargetOf[r]].mode = "Replay"
    /\ Finish(r, "ReplayMiss", "miss", Plain(registry[TargetOf[r]].handler))
    /\ UNCHANGED <<stubs, dialled>>

Forward(r) ==
    /\ Arrives(r)
    /\ StubFor(r) = 0 /\ ~Known(r)
    /\ registry[TargetOf[r]].mode = "Record"
    /\ dialled' = [dialled EXCEPT ![r] =
                     OutboundUri(registry[TargetOf[r]].base, LiveRequest[r].uri)]
    /\ \/ \E response \in Answers : Finish(r, "Upstream", "upstream", response)
       \/ Finish(r, "Upstream", "error", Plain(502))
    /\ UNCHANGED stubs

Next ==
    \/ \E c \in BuilderCalls : Configure(c)
    \/ Run
    \/ \E line \in WireLines : HandleLine(line)
    \/ DispatchStub \/ ClearNext \/ ClearDone \/ DispatchPause \/ DispatchQuery
    \/ DispatchClearRecordings
    \/ \E r \in Requests : ServeStub(r) \/ ServeSnapshot(r) \/ ServeMiss(r) \/ Forward(r)

Spec == Init /\ [][Next]_vars

----------------------------------------------------------------------------
\* Properties.

\* The calls of some setters before position j, and the last of them; 0 if none.
Before(j, setters) == {i \in 1..(j - 1) : calls[i].call \in setters}

LastOf(is) == IF is = {} THEN 0 ELSE CHOOSE i \in is : \A k \in is : k <= i

\* The mode the call at position j registers its upstream in.
DefaultAsked(j) ==
    LET i == LastOf(Before(j, {"default_mode"}))
    IN  IF i = 0 THEN "Record" ELSE calls[i].mode

ModeAsked(j) ==
    CASE calls[j].call = "add_upstream_with_mode" -> calls[j].mode
      [] calls[j].call = "add_stub"               -> "Replay"
      [] OTHER                                    -> DefaultAsked(j)

HandlerAsked(j) ==
    LET i == LastOf(Before(j, {"on_replay_miss"}))
    IN  IF i = 0 THEN 503 ELSE calls[i].handler

RecordingAsked ==
    LET i == LastOf(Before(Len(calls) + 1, {"recording", "default_mode"}))
    IN  IF i = 0 THEN DefaultRecording
        ELSE IF calls[i].call = "recording" THEN calls[i].cfg
        ELSE RecordingOf(calls[i].mode)

\* How many global middlewares are added up to position j.
Globals(j) == Cardinality(Before(j + 1, {"add_middleware"}))

\* A chain of all global middlewares, in the order of their calls, and own.
ChainAsked(chain, own) ==
    LET n == Globals(Len(calls)) IN
    /\ Len(chain) = n + Len(own)
    /\ \A j \in Before(Len(calls) + 1, {"add_middleware"}) :
         chain[Globals(j)] = calls[j].middleware
    /\ \A k \in 1..Len(own) : chain[n + k] = own[k]

\* Every order of setter calls means what the builder's documentation says: an
\* upstream's mode and miss handler are decided when it is added, recording by the
\* last call that touches it, and all global middleware comes before an upstream's
\* own, also middleware added later. No upstream is lost.
BuiltAsAsked ==
    phase = "running" =>
        /\ builder.recording = RecordingAsked
        /\ \A j \in Before(Len(calls) + 1, AddCalls) :
             LET up == registry[calls[j].name] IN
             /\ up.mode = ModeAsked(j)
             /\ up.handler = HandlerAsked(j)
             /\ ChainAsked(up.chain, calls[j].middleware)

\* Commands keep to their scope: outside of serving requests, stubs and pause
\* flags change only on upstreams the command is for, where a Stub without a name
\* is for nobody when there are several; and once ClearStubs is answered with Ok
\* none of its upstreams has a stub left, though requests ran in between.
CommandsKeepToScope ==
    [][phase = "running" /\ served' = served =>
        /\ \A n \in Names :
             stubs'[n] # stubs[n] \/ paused'[n] # paused[n] =>
                /\ dispatch # Idle
                /\ dispatch.line.upstream \in {Any, n}
                /\ dispatch.line.type = "Stub" /\ dispatch.line.upstream = Any
                     => Names = {n}
        /\ Dispatching("ClearStubs") /\ answer' = "Ok" =>
             \A n \in Scope(dispatch.line.upstream) : stubs'[n] = <<>>]_vars

\* An exchange is found again by what its request was: a TrafficFilter sees it
\* exactly when a RequestMatcher with the same method and pattern would have matched
\* the request, for every form of URI, and it replays under the key the live request
\* is looked up with, for every form but "http://h?q". The live key of that one is
\* "?q" and the recorded one "/?q" (path_and_query_of_uri, RecordedRequest), so it is
\* recorded and never replayed.
FoundAsSent ==
    \A i \in 1..Len(ring) :
        LET x == ring[i]
            live == LiveRequest[x.of]
        IN  /\ live.uri.path # <<>> \/ live.uri.query = <<>> => x.key = LiveKey(live)
            /\ \A line \in {l \in WireLines : l.type = "Stub"} :
                 LET m == [MatcherOf(line) EXCEPT !.headers = <<>>, !.body = Any]
                     f == [upstream |-> Any, method |-> m.method, path |-> m.path,
                           status |-> Any, labels |-> {}]
                 IN  Matches(m, live) <=> FilterMatches(f, x)

\* A forwarded request goes to the authority of the base URL, under its prefix and
\* with its own path and query behind it; the seam doubles no slash.
ForwardedUnderPrefix ==
    \A r \in Requests :
        dialled[r] # <<>> =>
            LET path == dialled[r].path
                base == registry[TargetOf[r]].base
                live == LiveRequest[r].uri
            IN  /\ dialled[r].authority = base.authority
                /\ dialled[r].query = live.query
                /\ SubSeq(path, 1, Len(base.path)) = base.path
                /\ HasPathAndQuery(live) =>
                     SubSeq(path, Len(base.path) + 1, Len(path)) = live.path
                /\ base.path # <<>> => path[Len(base.path)] # "/"
============================================================================
