------------------------------ MODULE Builder -------------------------------
(***************************************************************************)
(* ProxyClusterBuilder (partly-proxy-lib/src/builder.rs) and the           *)
(* configuration it collects (config.rs): each setter as an operator from  *)
(* builder to builder. A call is a record naming the setter and its        *)
(* arguments. A middleware or a backend is known by its name, a miss       *)
(* handler by the status of its response.                                  *)
(***************************************************************************)
EXTENDS Naturals, Sequences

CONSTANTS
    DefaultCap,   \* RecordingConfig's default max_in_memory
    NoStorage     \* an upstream without a storage backend

\* RecordingConfig::default and ::disabled.
DefaultRecording == [enabled |-> TRUE, max |-> DefaultCap]
DisabledRecording == [DefaultRecording EXCEPT !.enabled = FALSE]

\* ProxyClusterBuilder::default
NewBuilder ==
    [recording |-> DefaultRecording, default_mode |-> "Record", upstreams |-> <<>>,
     global_middleware |-> <<>>, replay_miss_handler |-> 503]

\* recording(cfg): the last call wins.
Recording(b, cfg) == [b EXCEPT !.recording = cfg]

RecordingOf(mode) == IF mode = "Record" THEN DefaultRecording ELSE DisabledRecording

\* Mutant of DefaultMode: upstreams that are already there follow.
DefaultModeForAll(b, mode) ==
    [b EXCEPT !.recording = RecordingOf(mode), !.default_mode = mode,
              !.upstreams = [i \in DOMAIN @ |-> [@[i] EXCEPT !.mode = mode]]]

\* default_mode(mode): for upstreams still to come, and the recording with it.
DefaultMode(b, mode) ==
    [b EXCEPT !.recording = RecordingOf(mode), !.default_mode = mode]

\* on_replay_miss(handler): for upstreams still to come.
OnReplayMiss(b, handler) == [b EXCEPT !.replay_miss_handler = handler]

\* The push all add_upstream methods share.
Push(b, name, base, middleware, storage, mode) ==
    [b EXCEPT !.upstreams = Append(@,
        [name |-> name, base |-> base, middleware |-> middleware, storage |-> storage,
         mode |-> mode, replay_miss_handler |-> b.replay_miss_handler])]

\* add_upstream, add_upstream_with_middleware and add_upstream_with.
AddUpstream(b, c) == Push(b, c.name, c.base, c.middleware, c.storage, b.default_mode)

AddUpstreamWithMode(b, c) == Push(b, c.name, c.base, c.middleware, c.storage, c.mode)

StubTarget == [scheme |-> <<"http", "://">>, authority |-> <<"stub.internal:0">>,
               path |-> <<"/">>, query |-> <<>>]

AddStubUpstream(b, c) == Push(b, c.name, StubTarget, c.middleware, NoStorage, "Replay")

\* add_middleware and add_shared_middleware
AddMiddleware(b, m) == [b EXCEPT !.global_middleware = Append(@, m)]

Apply(b, c) ==
    CASE c.call = "recording"              -> Recording(b, c.cfg)
      [] c.call = "default_mode"           -> DefaultMode(b, c.mode)
      [] c.call = "on_replay_miss"         -> OnReplayMiss(b, c.handler)
      [] c.call = "add_upstream_with"      -> AddUpstream(b, c)
      [] c.call = "add_upstream_with_mode" -> AddUpstreamWithMode(b, c)
      [] c.call = "add_stub"               -> AddStubUpstream(b, c)
      [] c.call = "add_middleware"         -> AddMiddleware(b, c.middleware)

\* run() refuses two upstreams of one name.
NamesUnique(b) ==
    \A i, j \in DOMAIN b.upstreams : b.upstreams[i].name = b.upstreams[j].name => i = j

\* spawn_listener: the chain of an upstream.
ChainOf(b, spec) == b.global_middleware \o spec.middleware
============================================================================
