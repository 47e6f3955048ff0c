------------------------------ MODULE MCProxy -------------------------------
(* Bounded instances of Proxy for TLC. plain and secret are the same request  *)
(* but for two parts that redaction removes, in half only one is left;        *)
(* rewritten is what a middleware turns them into; bare is a request without  *)
(* a body.                                                                    *)
EXTENDS Proxy, TLC

CONSTANTS r1, r2, r3, plain, secret, half, rewritten, bare, s1, s2, s3, m1, m2

MCKeys == {plain, secret, half, rewritten, bare}
MCKeyOf == [r \in Requests |-> IF r = r2 THEN secret ELSE plain]

\* r1 and r3 are the same request sent twice.
MCSymmetry == Permutations({r1, r3})

\* One middleware that lets everything pass and redacts both parts.
MCPlainChain == <<m1>>
MCPlainRedact == [m \in {m1} |-> [k \in Keys |-> IF k \in {secret, half} THEN plain ELSE k]]
MCPlainWays == [m \in {m1} |-> {"pass"}]

\* Two that redact one part each, the second only what the first has left of a
\* request. The outer one may answer by itself and recovers from errors; the
\* inner one rewrites, rejects and transforms.
MCFullChain == <<m1, m2>>
MCFullRedact == [m \in {m1, m2} |->
    [k \in Keys |-> CASE m = m1 /\ k = secret -> half
                      [] m = m2 /\ k = half   -> plain
                      [] OTHER                -> k]]
MCFullWayIn == [m \in {m1, m2} |->
    IF m = m1 THEN {"pass", "shortCircuit"} ELSE {"pass", "rewrite", "reject"}]
MCFullWayOut == [m \in {m1, m2} |->
    IF m = m1 THEN {"pass", "recover"} ELSE {"pass", "transform", "reject"}]

ASSUME RedactionsCompose

MCRewrite == [k \in Keys |-> rewritten]
MCTruncate == [k \in Keys |-> bare]

\* s1 fires twice, for either request; s2 without limit, for plain only; s3 is
\* registered with times = 0.
MCStubMatches == [s \in Stubs |-> IF s = s2 THEN {plain} ELSE {plain, secret}]
MCStubTimes == [s \in Stubs |-> CASE s = s1 -> 2
                                  [] s = s2 -> Unlimited
                                  [] s = s3 -> 0]

Cfg(mode, recording, storage) ==
    [mode |-> mode, recording |-> recording, storage |-> storage]

\* Either mode with everything on; recording off; no storage.
MCMixedConfigs == {Cfg("Record", TRUE, TRUE), Cfg("Replay", TRUE, TRUE),
                   Cfg("Record", FALSE, TRUE), Cfg("Replay", TRUE, FALSE)}
MCRecordThenReplay == {Cfg("Record", TRUE, TRUE), Cfg("Replay", TRUE, TRUE)}
MCRecordOnly == {Cfg("Record", TRUE, TRUE)}
============================================================================
