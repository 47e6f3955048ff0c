------------------------------ MODULE Traffic -------------------------------
(***************************************************************************)
(* What a request, a response and a recorded exchange look like, and the   *)
(* conversions between them: recorded.rs, the key and header conversions   *)
(* of replay.rs, RequestMatcher (stub.rs), TrafficFilter (assertions.rs)   *)
(* and the outbound URI of forwarder.rs.                                   *)
(*                                                                         *)
(* A string that is taken apart or put together is a sequence of tokens: a *)
(* URI "http://h/a?q" is <<"http", "://", "h", "/", "a", "?", "q">>. A     *)
(* parsed http::Uri is [scheme, authority, path, query], each a token      *)
(* sequence with its own delimiter, empty when absent. A HeaderMap gives   *)
(* every name the sequence of its values. A body stands for its hash.      *)
(***************************************************************************)
EXTENDS Naturals, Sequences

CONSTANTS
    Any,      \* an unset field of a matcher or filter
    Binary    \* a header value that is not visible ASCII

----------------------------------------------------------------------------
\* http::Uri.

Uri(scheme, authority, path, query) ==
    [scheme |-> scheme, authority |-> authority, path |-> path, query |-> query]

\* Only an authority-form URI ("h:1") has no PathAndQuery.
HasPathAndQuery(uri) == uri.scheme # <<>> \/ uri.authority = <<>>

\* PathAndQuery::as_str: the text as it came, "?q" for "http://h?q".
PathAndQuery(uri) == uri.path \o uri.query

\* Uri::path: a PathAndQuery with an empty path has the path "/".
Path(uri) == IF uri.path = <<>> /\ HasPathAndQuery(uri) THEN <<"/">> ELSE uri.path

\* What a parsed Uri is: origin form or the asterisk, absolute form, or authority
\* form. In absolute form the path may be missing before a query; "http://h", with
\* neither, reads as "http://h/" everywhere and is written so here.
WellFormed(uri) ==
    /\ uri \in [scheme : Seq(STRING), authority : Seq(STRING), path : Seq(STRING),
                query : Seq(STRING)]
    /\ \A i \in 1..Len(uri.path) : uri.path[i] \notin {"?", "://"}
    /\ uri.query # <<>> => uri.query[1] = "?"
    /\ \/ /\ uri.scheme = <<>> /\ uri.authority = <<>>
          /\ uri.path # <<>> /\ uri.path[1] \in {"/", "*"}
       \/ /\ Len(uri.scheme) = 2 /\ uri.scheme[2] = "://"
          /\ Len(uri.authority) = 1
          /\ uri.path # <<>> \/ uri.query # <<>>
       \/ /\ uri.scheme = <<>> /\ Len(uri.authority) = 1
          /\ uri.authority[1] \notin {"/", "*"}
          /\ uri.path = <<>> /\ uri.query = <<>>

\* PathAndQuery's FromStr: the query starts at the first question mark.
SplitQuery(text) ==
    LET marks == {i \in 1..Len(text) : text[i] = "?"}
        end   == IF marks = {} THEN Len(text)
                 ELSE (CHOOSE i \in marks : \A j \in marks : i <= j) - 1
    IN  [path |-> SubSeq(text, 1, end), query |-> SubSeq(text, end + 1, Len(text))]

\* Uri's Display, which writes path() and not the text it came with, and FromStr.
ToString(uri) == (uri.scheme \o uri.authority) \o (Path(uri) \o uri.query)

FromString(text) ==
    IF Len(text) > 1 /\ text[2] = "://"
    THEN LET rest == SplitQuery(SubSeq(text, 4, Len(text)))
         IN  Uri(SubSeq(text, 1, 2), SubSeq(text, 3, 3), rest.path, rest.query)
    ELSE LET rest == SplitQuery(text)
         IN  IF text[1] \in {"/", "*"} THEN Uri(<<>>, <<>>, rest.path, rest.query)
             ELSE Uri(<<>>, text, <<>>, <<>>)

----------------------------------------------------------------------------
\* Recording and replaying.

\* header_pairs: values that are not text are replaced.
HeaderPairs(headers) ==
    [n \in DOMAIN headers |->
        [i \in 1..Len(headers[n]) |->
            IF headers[n][i] = Binary THEN "<binary>" ELSE headers[n][i]]]

\* build_header_map, and StubbedResponse::into_proxy: HeaderMap::insert drops what
\* the name had before.
BuildHeaderMap(pairs) ==
    [n \in DOMAIN pairs |->
        IF pairs[n] = <<>> THEN <<>> ELSE <<pairs[n][Len(pairs[n])]>>]

\* RecordedRequest::from_parts
RecordedRequest(request) ==
    [method |-> request.method, uri |-> ToString(request.uri),
     headers |-> HeaderPairs(request.headers), body |-> request.body]

\* RecordedResponse::from_parts
RecordedResponse(response) ==
    [status |-> response.status, headers |-> HeaderPairs(response.headers)]

\* The key of a live request: path_and_query_of_uri falls back to the path of a
\* URI without a PathAndQuery, which is empty then.
LiveKey(request) == <<request.method, PathAndQuery(request.uri), request.body>>

\* The key of a recorded request: path_and_query_of_str.
RecordedKey(recorded) ==
    <<recorded.method, PathAndQuery(FromString(recorded.uri)), recorded.body>>

\* What lookup makes of a recorded response, and into_proxy of a stubbed one.
IntoProxy(recorded) ==
    [status |-> recorded.status, headers |-> BuildHeaderMap(recorded.headers)]

\* into_hyper: hyper writes the framing headers itself.
IntoHyper(response) ==
    [response EXCEPT !.headers =
        [n \in DOMAIN @ |-> IF n \in {"content-length", "transfer-encoding"}
                            THEN <<>> ELSE @[n]]]

----------------------------------------------------------------------------
\* Matching.

\* A path pattern is a regex if it compiles, known by the paths it accepts, and a
\* literal otherwise.
AcceptsPath(pattern, path) ==
    IF pattern.compiles THEN path \in pattern.accepts ELSE path = pattern.text

\* RequestMatcher::matches. A header constraint looks at the first value of its
\* name; header and body constraints are the values that contain the needle.
Matches(matcher, request) ==
    /\ matcher.method \in {Any, request.method}
    /\ matcher.path = Any \/ AcceptsPath(matcher.path, Path(request.uri))
    /\ \A n \in DOMAIN matcher.headers :
         /\ request.headers[n] # <<>>
         /\ Head(request.headers[n]) \in matcher.headers[n] \ {Binary}
    /\ matcher.body = Any \/ request.body \in matcher.body

\* Mutant of PathOf: the recorded URI is matched as it is.
PathOfVerbatim(text) == text

\* parse_path
PathOf(text) == Path(FromString(text))

\* TrafficFilter::matches. Only a response has a status; the proxy sets no labels.
FilterMatches(filter, exchange) ==
    /\ filter.upstream \in {Any, exchange.upstream}
    /\ filter.method \in {Any, exchange.request.method}
    /\ filter.path = Any \/ AcceptsPath(filter.path, PathOf(exchange.request.uri))
    /\ \/ filter.status = Any
       \/ exchange.outcome.kind # "error" /\ exchange.outcome.status = filter.status
    /\ filter.labels = {}

----------------------------------------------------------------------------
\* Forwarding.

\* trim_end_matches('/')
TrimSlashes(path) ==
    LET keep == {i \in 1..Len(path) : path[i] # "/"}
    IN  SubSeq(path, 1, IF keep = {} THEN 0
                        ELSE CHOOSE i \in keep : \A j \in keep : j <= i)

\* Mutant of ParseBaseUrl: the path prefix keeps its trailing slash.
ParseBaseUrlUntrimmed(url) == url

\* parse_base_url of a URL with a usable scheme and an authority.
ParseBaseUrl(url) == [url EXCEPT !.path = TrimSlashes(Path(url))]

UsableBase(url) ==
    url.scheme \in {<<"http", "://">>, <<"https", "://">>} /\ url.authority # <<>>

\* build_outbound_uri
OutboundUri(base, uri) ==
    LET rest == SplitQuery(base.path \o (IF HasPathAndQuery(uri) THEN PathAndQuery(uri)
                                         ELSE <<"/">>))
    IN  Uri(base.scheme, base.authority, rest.path, rest.query)
============================================================================
