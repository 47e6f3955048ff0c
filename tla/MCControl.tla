----------------------------- MODULE MCControl ------------------------------
(* A bounded instance of Control for TLC.                                     *)
EXTENDS Control

CONSTANTS r1, r2, r3, r4, s1, s2

Names2 == {"content-type", "cookie", "content-length"}
NoHeaders == [n \in Names2 |-> <<>>]

Live(method, uri, headers) ==
    [method |-> method, uri |-> uri, headers |-> headers, body |-> "x"]

Slash == <<"/", "a">>

\* r1 and r2 are the same request in origin and in absolute form; r3 and r4 have no
\* ordinary path, one in authority form and the other as in "http://h?q".
MCLiveRequest == [r \in Requests |->
    CASE r = r1 -> Live("GET", Uri(<<>>, <<>>, Slash, <<"?", "q">>),
                        [NoHeaders EXCEPT !["cookie"] = <<"v1", "v2">>])
      [] r = r2 -> Live("GET", Uri(<<"http", "://">>, <<"h">>, Slash, <<"?", "q">>), NoHeaders)
      [] r = r3 -> Live("CONNECT", Uri(<<>>, <<"h:1">>, <<>>, <<>>),
                        [NoHeaders EXCEPT !["cookie"] = <<Binary, "v1">>])
      [] r = r4 -> Live("GET", Uri(<<"http", "://">>, <<"h">>, <<>>, <<"?", "q">>), NoHeaders)]
MCTargetOf == [r \in Requests |-> IF r \in {r1, r2, r4} THEN "api" ELSE "auth"]
MCKeys == {LiveKey(MCLiveRequest[r]) : r \in Requests}
          \cup {RecordedKey(RecordedRequest(MCLiveRequest[r])) : r \in Requests}

\* An upstream that sets two cookies.
MCAnswers == {[status |-> 200,
               headers |-> [NoHeaders EXCEPT !["cookie"] = <<"c1", "c2">>,
                                             !["content-length"] = <<"7">>]]}

Base(prefix) == Uri(<<"http", "://">>, <<"up">>, prefix, <<>>)

Add(call, name, prefix, storage) ==
    [call |-> call, name |-> name, base |-> Base(prefix), middleware |-> <<"own">>,
     storage |-> storage, mode |-> "Record"]

MCBuilderCalls ==
    {[call |-> "recording", cfg |-> [enabled |-> TRUE, max |-> 1]],
     [call |-> "default_mode", mode |-> "Record"],
     [call |-> "default_mode", mode |-> "Replay"],
     [call |-> "on_replay_miss", handler |-> 404],
     [call |-> "add_middleware", middleware |-> "global"],
     Add("add_upstream_with", "api", <<"/", "v1", "/">>, "store"),
     [call |-> "add_upstream_with", name |-> "bad", base |-> Uri(<<>>, <<"up">>, <<>>, <<>>),
      middleware |-> <<>>, storage |-> NoStorage],
     Add("add_upstream_with_mode", "auth", <<"/", "v1">>, NoStorage),
     [call |-> "add_stub", name |-> "auth", middleware |-> <<>>]}

Regex(paths) == [compiles |-> TRUE, accepts |-> paths]
Literal(path) == [compiles |-> FALSE, text |-> path]

StubLine(id, upstream, method, path, headers, status, times) ==
    [type |-> "Stub", id |-> id, upstream |-> upstream, method |-> method, path |-> path,
     headers |-> headers, body |-> Any, status |-> status,
     response_headers |-> [n \in {"cookie"} |-> <<"stub">>], times |-> times]

FilterLine(type, path, status) ==
    [type |-> type, upstream |-> "api", method |-> "GET", path |-> path, status |-> status,
     labels |-> {}, expected |-> 1]

MCWireLines ==
    {[type |-> "garbage"],
     StubLine(s1, Any, Any, Regex({Slash, <<"/">>, <<>>}), <<>>, 200, 1),
     StubLine(s2, "api", "GET", Literal(Slash), [cookie |-> {"v1"}], 200, Unlimited),
     StubLine(s2, "api", Any, Any, <<>>, 99, Unlimited),
     [type |-> "ClearStubs", upstream |-> Any],
     [type |-> "ClearStubs", upstream |-> "api"],
     [type |-> "Pause", upstream |-> Any],
     [type |-> "Pause", upstream |-> "auth"],
     [type |-> "Resume", upstream |-> Any],
     [type |-> "ClearRecordings"],
     FilterLine("QueryTraffic", Regex({Slash}), 200),
     FilterLine("AssertSeen", Any, Any),
     FilterLine("AssertCount", Literal(Slash), Any)}
============================================================================
