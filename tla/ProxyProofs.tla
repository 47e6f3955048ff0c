---------------------------- MODULE ProxyProofs -----------------------------
(***************************************************************************)
(* Proofs about module Proxy, for any requests, stubs, middleware chain    *)
(* and configurations and any number of restarts.                          *)
(***************************************************************************)
EXTENDS Proxy, Induction, SequenceTheorems

\* The stages in which a request is inside a middleware, and in which it has a result.
StageInv ==
    \A r \in Requests :
        /\ pc[r] \in {"chain", "unwind"} => depth[r] # 0
        /\ pc[r] \in {"delay", "unwind", "finish", "record"} => out[r] # NoResult

\* A stub is removed only after a fire: one registered for zero fires has one.
Allowed(s) == IF StubTimes[s] = 0 THEN 1 ELSE StubTimes[s]

WithinAllowed == \A s \in Stubs : StubTimes[s] # Unlimited => fired[s] <= Allowed(s)

\* What is left of a stub and how often it fired add up.
StubInv ==
    /\ \A i, j \in 1..Len(stubs) : stubs[i].id = stubs[j].id => i = j
    /\ \A i \in 1..Len(stubs) : stubs[i].id \in registered
    /\ \A s \in Stubs \ registered : fired[s] = 0
    /\ \A i \in 1..Len(stubs) :
         LET s == stubs[i].id IN
         StubTimes[s] # Unlimited =>
            /\ stubs[i].times \in Nat
            /\ fired[s] + (IF stubs[i].times = 0 THEN 1 ELSE stubs[i].times) <= Allowed(s)

\* The exchanges at rest have been redacted by the whole chain.
RedactInv ==
    \A e \in Range(medium) \cup Range(replay.exchanges) :
        /\ IsResponse(e.outcome) => e.outcome.raw = {}
        /\ \E k \in Keys : e.key = Redact[k]

\* A request is on the medium only once it is through with record(), and does not
\* come that far with a response from the snapshot.
OnceInv ==
    /\ \A i \in 1..Len(medium) : pc[medium[i].by] \in {"done", "aborted", "past"}
    /\ \A r \in Requests :
         pc[r] = "record" /\ IsResponse(out[r]) => source[r] # "Snapshot"

\* A forwarded response that is being recorded, or was, is in the live index.
SeenInv ==
    \A r \in Requests :
        /\ pc[r] \in {"record", "done"}
        /\ source[r] = "Upstream" /\ IsResponse(out[r])
        /\ config.recording /\ config.storage
        => replay.index[Redact[original[r]]] # 0

\* Where an exchange x of the live index comes from: the medium, or a request whose
\* record() is under way, failed or was cut short.
From(x) ==
    \/ x \in Range(medium)
    \/ x.by \in rejected
    \/ pc[x.by] = "record" /\ x = Exchange(x.by)

OriginInv ==
    /\ ~config.storage => replay = EmptySource
    /\ \A i \in 1..Len(replay.exchanges) : From(replay.exchanges[i])

----------------------------------------------------------------------------
\* The replay source.

\* f is the loop of build_index over the first n exchanges, round by round.
IsIndexing(f, exchanges, n) ==
    f = [i \in 0..n |-> IF i = 0 THEN NoEntries ELSE OrInsert(f[i - 1], exchanges[i], i)]

Indexing(exchanges) == CHOOSE f : IsIndexing(f, exchanges, Len(exchanges))

\* The loop is well defined for any number of rounds.
LEMMA IndexingExists ==
    ASSUME NEW exchanges, NEW n \in Nat
    PROVE  \E f : IsIndexing(f, exchanges, n)
<1> DEFINE S == {m \in Nat : \E f : IsIndexing(f, exchanges, m)}
<1>1. 0 \in S
  <2> DEFINE g == [i \in 0..0 |-> NoEntries]
  <2>1. IsIndexing(g, exchanges, 0)
    BY DEF IsIndexing
  <2> QED BY <2>1
<1>2. ASSUME NEW m \in Nat, m \in S PROVE m + 1 \in S
  <2>1. PICK f : IsIndexing(f, exchanges, m)
    BY <1>2
  <2> DEFINE g == [i \in 0..(m + 1) |-> IF i = m + 1 THEN OrInsert(f[m], exchanges[m + 1], m + 1)
                                                     ELSE f[i]]
  <2>2. \A i \in 0..(m + 1) :
            g[i] = IF i = 0 THEN NoEntries ELSE OrInsert(g[i - 1], exchanges[i], i)
    BY <2>1 DEF IsIndexing
  <2>3. g = [i \in 0..(m + 1) |-> g[i]]
    OBVIOUS
  <2> HIDE DEF g
  <2>4. IsIndexing(g, exchanges, m + 1)
    BY <2>2, <2>3 DEF IsIndexing
  <2> QED BY <2>4
<1> HIDE DEF S
<1>3. n \in S
  BY <1>1, <1>2, NatSetInduction
<1> QED BY <1>3 DEF S

\* BuildIndex is the last round of it.
LEMMA BuildIndexIsLoop ==
    ASSUME NEW X, NEW exchanges \in Seq(X)
    PROVE  /\ IsIndexing(Indexing(exchanges), exchanges, Len(exchanges))
           /\ BuildIndex(exchanges) = Indexing(exchanges)[Len(exchanges)]
<1>1. IsIndexing(Indexing(exchanges), exchanges, Len(exchanges))
  BY IndexingExists DEF Indexing
<1>2. BuildIndex(exchanges) = Indexing(exchanges)[Len(exchanges)]
  BY DEF BuildIndex, Indexing, IsIndexing
<1> QED BY <1>1, <1>2

\* The responses for a key among the first n exchanges.
Responses(exchanges, n, k) ==
    {i \in 1..n : IsResponse(exchanges[i].outcome) /\ exchanges[i].key = k}

\* index finds the first response of each key among the first n exchanges.
FindsFirst(index, exchanges, n) ==
    /\ index \in [Keys -> 0..n]
    /\ \A k \in Keys : index[k] = 0 => Responses(exchanges, n, k) = {}
    /\ \A k \in Keys : index[k] # 0 =>
         /\ index[k] \in Responses(exchanges, n, k)
         /\ \A j \in Responses(exchanges, n, k) : index[k] <= j

\* One round keeps that.
LEMMA OrInsertStep ==
    ASSUME NEW exchanges, NEW n \in Nat, NEW index, exchanges[n + 1].key \in Keys,
           FindsFirst(index, exchanges, n)
    PROVE  FindsFirst(OrInsert(index, exchanges[n + 1], n + 1), exchanges, n + 1)
<1> DEFINE x == exchanges[n + 1]
           new == OrInsert(index, x, n + 1)
<1>1. \A k \in Keys : Responses(exchanges, n + 1, k) =
          Responses(exchanges, n, k) \cup
             IF IsResponse(x.outcome) /\ x.key = k THEN {n + 1} ELSE {}
  BY DEF Responses
<1>2. \A k \in Keys : Responses(exchanges, n, k) \subseteq 1..n
  BY DEF Responses
<1>3. new \in [Keys -> 0..(n + 1)]
  BY DEF OrInsert, FindsFirst
<1>4. ASSUME NEW k \in Keys
      PROVE  new[k] = IF IsResponse(x.outcome) /\ x.key = k /\ index[k] = 0
                      THEN n + 1 ELSE index[k]
  BY DEF OrInsert, FindsFirst
<1> HIDE DEF new, x
<1>5. \A k \in Keys : new[k] = 0 => Responses(exchanges, n + 1, k) = {}
  BY <1>1, <1>4 DEF FindsFirst
<1>6. ASSUME NEW k \in Keys, new[k] # 0
      PROVE  /\ new[k] \in Responses(exchanges, n + 1, k)
             /\ \A j \in Responses(exchanges, n + 1, k) : new[k] <= j
  <2>1. index[k] \in 0..n
    BY DEF FindsFirst
  <2> QED BY <1>1, <1>2, <1>4, <1>6, <2>1 DEF FindsFirst
<1>7. FindsFirst(new, exchanges, n + 1)
  BY <1>3, <1>5, <1>6 DEF FindsFirst
<1> QED BY <1>7 DEF new, x

\* build_index finds the first response of every key, for a medium of any length.
THEOREM FirstOnMediumWins ==
    ASSUME NEW X, NEW exchanges \in Seq(X), \A i \in 1..Len(exchanges) : exchanges[i].key \in Keys
    PROVE  FindsFirst(BuildIndex(exchanges), exchanges, Len(exchanges))
<1> DEFINE f == Indexing(exchanges)
           S == {m \in Nat : m <= Len(exchanges) => FindsFirst(f[m], exchanges, m)}
<1>1. \A i \in 0..Len(exchanges) :
          f[i] = IF i = 0 THEN NoEntries ELSE OrInsert(f[i - 1], exchanges[i], i)
  BY BuildIndexIsLoop DEF IsIndexing
<1> HIDE DEF f
<1>2. 0 \in S
  <2>1. f[0] = NoEntries
    BY <1>1
  <2> QED BY <2>1 DEF FindsFirst, NoEntries, Responses
<1>3. ASSUME NEW m \in Nat, m \in S PROVE m + 1 \in S
  <2>1. SUFFICES ASSUME m + 1 <= Len(exchanges)
                 PROVE  FindsFirst(f[m + 1], exchanges, m + 1)
    OBVIOUS
  <2>2. m <= Len(exchanges) /\ m + 1 \in 1..Len(exchanges)
    BY <2>1
  <2>3. FindsFirst(f[m], exchanges, m)
    BY <1>3, <2>2
  <2>4. f[m + 1] = OrInsert(f[m], exchanges[m + 1], m + 1)
    BY <1>1, <2>2
  <2> QED BY <2>2, <2>3, <2>4, OrInsertStep
<1> HIDE DEF S
<1>4. Len(exchanges) \in S
  BY <1>2, <1>3, NatSetInduction
<1>5. FindsFirst(f[Len(exchanges)], exchanges, Len(exchanges))
  BY <1>4 DEF S
<1> QED BY <1>5, BuildIndexIsLoop DEF f

----------------------------------------------------------------------------
\* The redaction of a request.

\* What middleware i makes of each key after the ones before it made done of it.
RedactRound(done, i) == [k \in Keys |-> IF i = 0 THEN k ELSE RedactBy[Chain[i]][done[k]]]

\* f is redact_request through the first n middlewares, one after the other.
IsRedacting(f, n) == f = [i \in 0..n |-> RedactRound(f[i - 1], i)]

Redacting == CHOOSE f : IsRedacting(f, Len(Chain))

\* It is well defined for a chain of any length.
LEMMA RedactingExists ==
    ASSUME NEW n \in Nat
    PROVE  \E f : IsRedacting(f, n)
<1> DEFINE S == {m \in Nat : \E f : IsRedacting(f, m)}
<1>1. 0 \in S
  <2> DEFINE g == [i \in 0..0 |-> [k \in Keys |-> k]]
  <2>1. \A i \in 0..0 : g[i] = RedactRound(g[i - 1], i)
    BY DEF RedactRound
  <2>2. g = [i \in 0..0 |-> g[i]]
    OBVIOUS
  <2> HIDE DEF g
  <2>3. IsRedacting(g, 0)
    BY <2>1, <2>2 DEF IsRedacting
  <2> QED BY <2>3
<1>2. ASSUME NEW m \in Nat, m \in S PROVE m + 1 \in S
  <2>1. PICK f : IsRedacting(f, m)
    BY <1>2
  <2> DEFINE g == [i \in 0..(m + 1) |-> IF i = m + 1 THEN RedactRound(f[m], m + 1) ELSE f[i]]
  <2>2. \A d, e : RedactRound(d, 0) = RedactRound(e, 0)
    BY DEF RedactRound
  <2>3. \A i \in 0..m : f[i] = RedactRound(f[i - 1], i)
    BY <2>1 DEF IsRedacting
  <2>4. \A i \in 0..(m + 1) : g[i] = RedactRound(g[i - 1], i)
    BY <2>2, <2>3
  <2>5. g = [i \in 0..(m + 1) |-> g[i]]
    OBVIOUS
  <2> HIDE DEF g
  <2>6. IsRedacting(g, m + 1)
    BY <2>4, <2>5 DEF IsRedacting
  <2> QED BY <2>6
<1> HIDE DEF S
<1>3. n \in S
  BY <1>1, <1>2, NatSetInduction
<1> QED BY <1>3 DEF S

\* The chain is a sequence and its members have redactions.
LEMMA ChainFacts ==
    /\ Len(Chain) \in Nat
    /\ \A i \in 1..Len(Chain) : Chain[i] \in Middlewares
    /\ \A m \in Middlewares : \E i \in 1..Len(Chain) : m = Chain[i]
    /\ \A m \in Middlewares : RedactBy[m] \in [Keys -> Keys]
<1>1. Chain \in Seq(Middlewares) /\ RedactBy \in [Middlewares -> [Keys -> Keys]]
  BY ProxyAssumption
<1>2. Len(Chain) \in Nat
  BY <1>1
<1>3. \A i \in 1..Len(Chain) : Chain[i] \in Middlewares
  BY DEF Middlewares
<1>4. \A m \in Middlewares : \E i \in 1..Len(Chain) : m = Chain[i]
  BY DEF Middlewares
<1>5. \A m \in Middlewares : RedactBy[m] \in [Keys -> Keys]
  BY <1>1
<1> QED BY <1>2, <1>3, <1>4, <1>5

\* Redact is the last of them, and what each makes of a key is a key.
LEMMA RedactIsLoop ==
    /\ IsRedacting(Redacting, Len(Chain))
    /\ Redact = Redacting[Len(Chain)]
    /\ \A i \in 0..Len(Chain), k \in Keys :
         Redacting[i][k] = IF i = 0 THEN k ELSE RedactBy[Chain[i]][Redacting[i - 1][k]]
<1>1. IsRedacting(Redacting, Len(Chain))
  BY RedactingExists, ChainFacts DEF Redacting
<1>2. Redact = Redacting[Len(Chain)]
  BY DEF Redact, Redacting, IsRedacting, RedactRound
<1>3. \A i \in 0..Len(Chain), k \in Keys :
         Redacting[i][k] = IF i = 0 THEN k ELSE RedactBy[Chain[i]][Redacting[i - 1][k]]
  <2>1. \A i \in 0..Len(Chain) : Redacting[i] = RedactRound(Redacting[i - 1], i)
    BY <1>1 DEF IsRedacting
  <2>2. \A done, i : \A k \in Keys :
            RedactRound(done, i)[k] = IF i = 0 THEN k ELSE RedactBy[Chain[i]][done[k]]
    BY DEF RedactRound
  <2> QED BY <2>1, <2>2
<1> QED BY <1>1, <1>2, <1>3

\* The redaction of a key is a key.
LEMMA RedactType == \A k \in Keys : Redact[k] \in Keys
<1> DEFINE S == {n \in Nat : n <= Len(Chain) => \A k \in Keys : Redacting[n][k] \in Keys}
<1>1. 0 \in S
  BY RedactIsLoop, ChainFacts
<1>2. ASSUME NEW n \in Nat, n \in S PROVE n + 1 \in S
  <2>1. SUFFICES ASSUME n + 1 <= Len(Chain), NEW k \in Keys
                 PROVE  Redacting[n + 1][k] \in Keys
    OBVIOUS
  <2>2. n <= Len(Chain) /\ n + 1 \in 1..Len(Chain) /\ n + 1 \in 0..Len(Chain)
    BY <2>1, ChainFacts
  <2>3. Redacting[n + 1][k] = RedactBy[Chain[n + 1]][Redacting[n][k]]
    BY <2>2, RedactIsLoop
  <2>4. Redacting[n][k] \in Keys
    BY <1>2, <2>2
  <2>5. RedactBy[Chain[n + 1]] \in [Keys -> Keys]
    BY <2>2, ChainFacts
  <2> QED BY <2>3, <2>4, <2>5
<1> HIDE DEF S
<1>3. Len(Chain) \in S
  BY <1>1, <1>2, NatSetInduction, ChainFacts
<1> QED BY <1>3, RedactIsLoop, ChainFacts DEF S

\* Redactions that go together leave nothing to redact for any of them: the loop
\* keeps, after n middlewares, what each of these n is done with.
LEMMA RedactIsStable ==
    ASSUME RedactionsCompose, NEW m \in Middlewares, NEW k \in Keys
    PROVE  RedactBy[m][Redact[k]] = Redact[k]
<1> DEFINE Done(n) == /\ Redacting[n][k] \in Keys
                      /\ \A i \in 1..n : RedactBy[Chain[i]][Redacting[n][k]] = Redacting[n][k]
           S == {n \in Nat : n <= Len(Chain) => Done(n)}
<1>1. 0 \in S
  BY RedactIsLoop, ChainFacts
<1>2. ASSUME NEW n \in Nat, n \in S PROVE n + 1 \in S
  <2>1. SUFFICES ASSUME n + 1 <= Len(Chain) PROVE Done(n + 1)
    OBVIOUS
  <2>2. n <= Len(Chain) /\ n + 1 \in 1..Len(Chain) /\ n + 1 \in 0..Len(Chain)
    BY <2>1, ChainFacts
  <2> DEFINE old == Redacting[n][k]
             new == Redacting[n + 1][k]
  <2>3. new = RedactBy[Chain[n + 1]][old]
    BY <2>2, RedactIsLoop
  <2>4. old \in Keys /\ \A i \in 1..n : RedactBy[Chain[i]][old] = old
    BY <1>2, <2>2
  <2> HIDE DEF old, new
  <2>5. new \in Keys
    BY <2>2, <2>3, <2>4, ChainFacts
  <2>6. RedactBy[Chain[n + 1]][new] = new
    BY <2>2, <2>3, <2>4, ChainFacts DEF RedactionsCompose
  <2>7. ASSUME NEW i \in 1..n PROVE RedactBy[Chain[i]][new] = new
    <3>1. i \in 1..Len(Chain) /\ i < n + 1
      BY <2>2, ChainFacts
    <3> QED BY <2>2, <2>3, <2>4, <3>1 DEF RedactionsCompose
  <2> QED BY <2>5, <2>6, <2>7 DEF new
<1> HIDE DEF S
<1>3. Len(Chain) \in S
  BY <1>1, <1>2, NatSetInduction, ChainFacts
<1>4. Done(Len(Chain))
  BY <1>3, ChainFacts DEF S
<1>5. PICK i \in 1..Len(Chain) : m = Chain[i]
  BY ChainFacts
<1> QED BY <1>4, <1>5, RedactIsLoop

----------------------------------------------------------------------------
\* The stub store.

StubEntries == [id : Stubs, matches : SUBSET Keys, times : Nat \cup {Unlimited}]

\* take_match finds a position of the list, or none.
LEMMA FirstMatchRange ==
    ASSUME NEW X, NEW list \in Seq(X), NEW k
    PROVE  FirstMatch(list, k) \in 0..Len(list)
<1> DEFINE hits == {i \in 1..Len(list) : k \in list[i].matches}
<1>1. CASE hits = {}
  BY <1>1 DEF FirstMatch
<1>2. CASE hits # {}
  <2>1. \E i \in hits : \A j \in hits : i <= j
    <3>1. hits \in SUBSET Nat
      OBVIOUS
    <3> HIDE DEF hits
    <3> QED BY <1>2, <3>1, LeastElement
  <2>2. (CHOOSE i \in hits : \A j \in hits : i <= j) \in hits
    BY <2>1
  <2>3. FirstMatch(list, k) \in hits
    BY <1>2, <2>2 DEF FirstMatch
  <2> QED BY <2>3
<1> QED BY <1>1, <1>2

\* Removing a stub moves the ones behind it up.
LEMMA WithoutAtSpec ==
    ASSUME NEW X, NEW list \in Seq(X), NEW i \in 1..Len(list)
    PROVE  /\ WithoutAt(list, i) \in Seq(X)
           /\ Len(WithoutAt(list, i)) = Len(list) - 1
           /\ \A j \in 1..(Len(list) - 1) :
                WithoutAt(list, i)[j] = list[IF j < i THEN j ELSE j + 1]
<1> DEFINE front == SubSeq(list, 1, i - 1)
           back == SubSeq(list, i + 1, Len(list))
<1>1. front \in Seq(X) /\ Len(front) = i - 1 /\ \A j \in 1..(i - 1) : front[j] = list[j]
  BY SubSeqProperties
<1>2. /\ back \in Seq(X) /\ Len(back) = Len(list) - i
      /\ \A j \in 1..(Len(list) - i) : back[j] = list[i + j]
  BY SubSeqProperties
<1> HIDE DEF front, back
<1>3. /\ front \o back \in Seq(X)
      /\ Len(front \o back) = Len(list) - 1
      /\ \A j \in 1..(Len(list) - 1) :
           (front \o back)[j] = IF j <= i - 1 THEN front[j] ELSE back[j - (i - 1)]
  <2>1. Len(front) + Len(back) = Len(list) - 1
    BY <1>1, <1>2
  <2>2. /\ front \o back \in Seq(X)
        /\ Len(front \o back) = Len(front) + Len(back)
        /\ \A j \in 1..(Len(front) + Len(back)) :
             (front \o back)[j] = IF j <= Len(front) THEN front[j] ELSE back[j - Len(front)]
    BY <1>1, <1>2, ConcatProperties
  <2> QED BY <1>1, <2>1, <2>2
<1>4. ASSUME NEW j \in 1..(Len(list) - 1)
      PROVE  (front \o back)[j] = list[IF j < i THEN j ELSE j + 1]
  BY <1>1, <1>2, <1>3
<1> QED BY <1>3, <1>4 DEF WithoutAt, front, back

\* The three outcomes of a fire.
LEMMA AfterFireCases ==
    ASSUME NEW list \in Seq(StubEntries), NEW i \in 1..Len(list)
    PROVE  /\ list[i].times = Unlimited => AfterFire(list, i) = list
           /\ list[i].times \in Nat /\ list[i].times <= 1 => AfterFire(list, i) = WithoutAt(list, i)
           /\ list[i].times \in Nat /\ list[i].times > 1 =>
                AfterFire(list, i) = [list EXCEPT ![i].times = list[i].times - 1]
           /\ list[i].times \in Nat \cup {Unlimited}
<1>0. list[i] \in StubEntries
  OBVIOUS
<1>1. list[i].times \in Nat \cup {Unlimited}
  BY <1>0 DEF StubEntries
<1>2. Unlimited \notin Nat
  BY ProxyAssumption
<1>3. list[i].times = Unlimited => AfterFire(list, i) = list
  BY DEF AfterFire
<1>4. list[i].times \in Nat /\ list[i].times <= 1 => AfterFire(list, i) = WithoutAt(list, i)
  BY <1>2 DEF AfterFire, FiresLeft, SaturatingDec
<1>5. ASSUME list[i].times \in Nat, list[i].times > 1
      PROVE  AfterFire(list, i) = [list EXCEPT ![i].times = list[i].times - 1]
  <2>1. FiresLeft(list[i]) = list[i].times - 1 /\ FiresLeft(list[i]) # 0
    BY <1>5 DEF FiresLeft, SaturatingDec
  <2>2. list[i].times # Unlimited
    BY <1>2, <1>5
  <2>3. AfterFire(list, i) = [list EXCEPT ![i].times = FiresLeft(list[i])]
    BY <2>1, <2>2 DEF AfterFire
  <2> QED BY <2>1, <2>3
<1> QED BY <1>1, <1>3, <1>4, <1>5

\* What is left is a list of stubs.
LEMMA AfterFireType ==
    ASSUME NEW list \in Seq(StubEntries), NEW i \in 1..Len(list)
    PROVE  AfterFire(list, i) \in Seq(StubEntries)
<1>1. CASE list[i].times = Unlimited
  BY <1>1, AfterFireCases
<1>2. CASE list[i].times \in Nat /\ list[i].times <= 1
  BY <1>2, AfterFireCases, WithoutAtSpec
<1>3. CASE list[i].times \in Nat /\ list[i].times > 1
  <2>1. list[i] \in StubEntries
    OBVIOUS
  <2>2. [list[i] EXCEPT !.times = list[i].times - 1] \in StubEntries
    BY <1>3, <2>1 DEF StubEntries
  <2> DEFINE e == [list[i] EXCEPT !.times = list[i].times - 1]
  <2>3. AfterFire(list, i) = [list EXCEPT ![i] = e]
    BY <1>3, AfterFireCases
  <2> HIDE DEF e
  <2>4. [list EXCEPT ![i] = e] \in Seq(StubEntries)
    BY <2>2 DEF e
  <2> QED BY <2>3, <2>4
<1> QED BY <1>1, <1>2, <1>3, AfterFireCases

----------------------------------------------------------------------------
\* Types.

\* The constants that requests are made of.
LEMMA RequestConstants ==
    /\ KeyOf \in [Requests -> Keys]
    /\ Rewrite \in [Keys -> Keys]
    /\ Truncate \in [Keys -> Keys]
BY ProxyAssumption

\* What a request, a stub or a middleware produces is a result, and not NoResult.
LEMMA ResultType ==
    ASSUME NEW kind \in {"upstream", "stub", "miss", "middleware", "error"},
           NEW by \in Requests \cup Stubs
    PROVE  Result(kind, by) \in Results /\ Result(kind, by) # NoResult
BY DEF Result, Results, NoResult

\* A result is never taken for the absence of one.
LEMMA ResultsReal == \A x \in Results : x # NoResult
BY DEF Results, NoResult

TypeInv == TypeOK /\ StageInv

\* A request with a result makes a well-formed exchange that has been redacted.
LEMMA ExchangeType ==
    ASSUME TypeOK, NEW r \in Requests, out[r] # NoResult
    PROVE  /\ Exchange(r) \in Exchanges
           /\ Exchange(r).by = r
           /\ Exchange(r).key = Redact[original[r]]
           /\ IsResponse(Exchange(r).outcome) => Exchange(r).outcome.raw = {}
           /\ IsResponse(Exchange(r).outcome) <=> IsResponse(out[r])
<1>1. out[r] \in Results /\ original[r] \in Keys
  BY DEF TypeOK
<1>2. RedactOutcome(out[r]) \in Results
  BY <1>1 DEF RedactOutcome, Results
<1>3. /\ IsResponse(RedactOutcome(out[r])) => RedactOutcome(out[r]).raw = {}
      /\ RedactOutcome(out[r]).kind = out[r].kind
  BY <1>1 DEF RedactOutcome, Results, IsResponse
<1>4. Redact[original[r]] \in Keys
  BY <1>1, RedactType
<1> QED BY <1>2, <1>3, <1>4 DEF Exchange, Exchanges, IsResponse

\* Every variable starts within its type.
LEMMA TypeInit == Init => TypeInv
<1> SUFFICES ASSUME Init PROVE TypeInv
  OBVIOUS
<1>1. EmptySource \in [exchanges : Seq(Exchanges), index : [Keys -> Nat]]
  BY DEF EmptySource, NoEntries
<1> USE ProxyAssumption, ChainFacts DEF Init
<1>2. /\ phase \in {"running", "draining"} /\ config \in Configs /\ restarts \in 0..MaxRestarts
      /\ registered \in SUBSET Stubs /\ rejected \in SUBSET Requests /\ fired \in [Stubs -> Nat]
  <2>1. MaxRestarts \in Nat
    BY ProxyAssumption
  <2> QED BY <2>1
<1>p. paused \in BOOLEAN
  OBVIOUS
<1>3. stubs \in Seq(StubEntries) /\ medium \in Seq(Exchanges)
      /\ replay \in [exchanges : Seq(Exchanges), index : [Keys -> Nat]]
  BY <1>1
<1>4. pc \in [Requests -> Stages] /\ source \in [Requests -> Sources]
  BY DEF Stages, Awaits, Ended, Sources
<1>5. original \in [Requests -> Keys] /\ inner \in [Requests -> Keys]
      /\ depth \in [Requests -> 0..Len(Chain)] /\ out \in [Requests -> Results \cup {NoResult}]
  OBVIOUS
<1>6. TypeOK
  BY <1>2, <1>p, <1>3, <1>4, <1>5 DEF TypeOK, StubEntries
<1>7. StageInv
  BY DEF StageInv
<1> QED BY <1>6, <1>7 DEF TypeInv

\* The two halves of TypeOK: what the requests share, and what each has of its own.
SharedType ==
    /\ phase \in {"running", "draining"}
    /\ config \in Configs
    /\ restarts \in 0..MaxRestarts
    /\ paused \in BOOLEAN
    /\ stubs \in Seq(StubEntries)
    /\ registered \in SUBSET Stubs
    /\ fired \in [Stubs -> Nat]
    /\ replay \in [exchanges : Seq(Exchanges), index : [Keys -> Nat]]
    /\ medium \in Seq(Exchanges)

RequestType ==
    /\ pc \in [Requests -> Stages]
    /\ original \in [Requests -> Keys]
    /\ inner \in [Requests -> Keys]
    /\ depth \in [Requests -> 0..Len(Chain)]
    /\ source \in [Requests -> Sources]
    /\ out \in [Requests -> Results \cup {NoResult}]
    /\ rejected \in SUBSET Requests
    /\ StageInv

\* Together they are the type invariant, before a step and after it.
LEMMA TypeSplit == TypeInv <=> SharedType /\ RequestType
BY DEF TypeInv, TypeOK, SharedType, RequestType, StubEntries

\* (The same, of the state after a step.)
LEMMA TypeSplitNext == TypeInv' <=> SharedType' /\ RequestType'
BY DEF TypeInv, TypeOK, SharedType, RequestType, StubEntries

\* A stub that fires is one of the list.
LEMMA FiringStub ==
    ASSUME SharedType, NEW k, FirstMatch(stubs, k) # 0
    PROVE  /\ FirstMatch(stubs, k) \in 1..Len(stubs)
           /\ stubs[FirstMatch(stubs, k)] \in StubEntries
           /\ stubs[FirstMatch(stubs, k)].id \in Stubs
<1>1. stubs \in Seq(StubEntries)
  BY DEF SharedType
<1>2. FirstMatch(stubs, k) \in 1..Len(stubs)
  BY <1>1, FirstMatchRange
<1>3. stubs[FirstMatch(stubs, k)] \in StubEntries
  BY <1>1, <1>2
<1> QED BY <1>2, <1>3 DEF StubEntries

\* A lookup that hits finds an exchange of the source, and its result.
LEMMA HitType ==
    ASSUME SharedType, NEW k \in Keys, Hit(replay, k)
    PROVE  /\ replay.index[k] \in 1..Len(replay.exchanges)
           /\ replay.exchanges[replay.index[k]] \in Exchanges
           /\ Lookup(replay, k) \in Results
<1>1. replay.exchanges \in Seq(Exchanges)
  BY DEF SharedType
<1>2. replay.index[k] \in 1..Len(replay.exchanges)
  BY DEF Hit
<1>3. replay.exchanges[replay.index[k]] \in Exchanges
  BY <1>1, <1>2
<1> QED BY <1>2, <1>3 DEF Lookup, Exchanges

\* The requests' own variables keep their types in every step of a request.
LEMMA RequestTypeStep ==
    ASSUME TypeInv, NEW r \in Requests, Accept(r) \/ RequestStep(r) \/ Abort(r)
    PROVE  RequestType'
<1>t. /\ SharedType /\ RequestType
      /\ inner[r] \in Keys /\ original[r] \in Keys /\ depth[r] \in 0..Len(Chain)
  BY TypeSplit DEF RequestType
<1>u. \A kind \in {"upstream", "stub", "miss", "middleware", "error"} :
          Result(kind, r) \in Results /\ Result(kind, r) # NoResult
  BY ResultType
<1>c. Len(Chain) \in Nat
  BY ChainFacts
<1> USE <1>t, <1>u, <1>c DEF RequestType, StageInv, Stages, Awaits, Ended, Sources
<1>1. CASE Accept(r)
  BY <1>1 DEF Accept
<1>2. CASE PassGate(r)
  BY <1>2 DEF PassGate
<1>3. CASE BodyOk(r)
  BY <1>3 DEF BodyOk
<1>4. CASE BodyErr(r)
  BY <1>4, RequestConstants DEF BodyErr
<1>5. CASE CallNext(r)
  <2>0. inner' = inner \/ inner' = [inner EXCEPT ![r] = Rewrite[inner[r]]]
    BY <1>5 DEF CallNext
  <2>1. inner' \in [Requests -> Keys]
    BY <2>0, RequestConstants
  <2>2. depth[r] \in 1..Len(Chain)
    BY <1>5 DEF CallNext
  <2>3. /\ pc' \in [Requests -> Stages] /\ depth' \in [Requests -> 0..Len(Chain)]
        /\ \A q \in Requests : pc'[q] \in {"chain", "unwind"} => depth'[q] # 0
    <3>1. CASE depth[r] = Len(Chain)
      BY <1>5, <2>2, <3>1 DEF CallNext
    <3>2. CASE depth[r] # Len(Chain)
      <4>1. depth' = [depth EXCEPT ![r] = depth[r] + 1] /\ pc' = pc
        BY <1>5, <3>2 DEF CallNext
      <4>2. depth[r] + 1 \in 1..Len(Chain)
        BY <2>2, <3>2
      <4> QED BY <4>1, <4>2
    <3> QED BY <3>1, <3>2
  <2>4. StageInv'
    BY <1>5, <2>3 DEF CallNext
  <2> QED BY <1>5, <2>1, <2>3, <2>4 DEF CallNext
<1>6. CASE SkipNext(r)
  <2>1. depth[r] \in 1..Len(Chain)
    BY <1>6 DEF SkipNext
  <2>0. \E kind \in {"middleware", "error"} : out' = [out EXCEPT ![r] = Result(kind, r)]
    BY <1>6 DEF SkipNext
  <2>2. out' \in [Requests -> Results \cup {NoResult}] /\ out'[r] # NoResult
        /\ \A q \in Requests \ {r} : out'[q] = out[q]
    BY <1>6, <2>0 DEF SkipNext
  <2>3. /\ pc' \in [Requests -> Stages] /\ depth' \in [Requests -> 0..Len(Chain)]
        /\ \A q \in Requests : pc'[q] \in {"chain", "unwind"} => depth'[q] # 0
    BY <1>6, <2>1 DEF SkipNext, Outward
  <2>4. StageInv'
    BY <1>6, <2>2, <2>3 DEF SkipNext
  <2> QED BY <1>6, <2>2, <2>3, <2>4 DEF SkipNext
<1>7. CASE StubHit(r)
  <2> DEFINE s == stubs[FirstMatch(stubs, inner[r])].id
  <2>1. s \in Stubs
    BY <1>7, FiringStub DEF StubHit
  <2>2. out' = [out EXCEPT ![r] = Result("stub", s)]
    BY <1>7 DEF StubHit
  <2> HIDE DEF s
  <2>3. out' \in [Requests -> Results \cup {NoResult}] /\ out'[r] # NoResult
        /\ \A q \in Requests \ {r} : out'[q] = out[q]
    BY <2>1, <2>2, ResultType
  <2>4. /\ pc' = [pc EXCEPT ![r] = "delay"]
        /\ UNCHANGED <<original, inner, depth, source, rejected>>
    BY <1>7 DEF StubHit
  <2> QED BY <2>3, <2>4
<1>8. CASE StubAnswers(r)
  BY <1>8 DEF StubAnswers, Outward
<1>9. CASE StubMiss(r)
  BY <1>9 DEF StubMiss
<1>10. CASE ReplayHit(r)
  <2>1. LookupKey(r) \in Keys
    BY RedactType DEF LookupKey
  <2>2. Lookup(replay, LookupKey(r)) \in Results
    BY <1>10, <2>1, HitType DEF ReplayHit, Snapshotted
  <2>3. out' = [out EXCEPT ![r] = Lookup(replay, LookupKey(r))]
    BY <1>10 DEF ReplayHit
  <2>4. out' \in [Requests -> Results \cup {NoResult}] /\ out'[r] # NoResult
        /\ \A q \in Requests \ {r} : out'[q] = out[q]
    BY <2>2, <2>3, ResultsReal
  <2> QED BY <1>10, <2>4 DEF ReplayHit, Outward
<1>11. CASE ReplayMiss(r)
  BY <1>11 DEF ReplayMiss, Outward
<1>12. CASE Dial(r)
  BY <1>12 DEF Dial
<1>13. CASE Forwarded(r)
  BY <1>13 DEF Forwarded, Outward
<1>14. CASE Unwind(r)
  <2>1. depth[r] \in 1..Len(Chain)
    BY <1>14 DEF Unwind
  <2>0. out' = out \/ \E kind \in {"middleware", "error"} : out' = [out EXCEPT ![r] = Result(kind, r)]
    BY <1>14 DEF Unwind
  <2>2. out' \in [Requests -> Results \cup {NoResult}] /\ out'[r] # NoResult
        /\ \A q \in Requests \ {r} : out'[q] = out[q]
    BY <1>14, <2>0 DEF Unwind
  <2>3. /\ pc' \in [Requests -> Stages] /\ depth' \in [Requests -> 0..Len(Chain)]
        /\ \A q \in Requests : pc'[q] \in {"chain", "unwind"} => depth'[q] # 0
    BY <1>14, <2>1 DEF Unwind, Outward
  <2>4. StageInv'
    BY <1>14, <2>2, <2>3 DEF Unwind
  <2> QED BY <1>14, <2>2, <2>3, <2>4 DEF Unwind
<1>15. CASE FinishUnrecorded(r)
  BY <1>15 DEF FinishUnrecorded
<1>16. CASE Promote(r)
  BY <1>16 DEF Promote
<1>17. CASE RecordOk(r)
  BY <1>17 DEF RecordOk
<1>18. CASE RecordErr(r)
  BY <1>18 DEF RecordErr
<1>19. CASE Abort(r)
  BY <1>19 DEF Abort
<1> QED
  BY <1>1, <1>2, <1>3, <1>4, <1>5, <1>6, <1>7, <1>8, <1>9, <1>10, <1>11, <1>12, <1>13, <1>14,
     <1>15, <1>16, <1>17, <1>18, <1>19 DEF RequestStep

\* An append of an exchange keeps the type of a sequence of exchanges.
LEMMA LandedType ==
    ASSUME TypeInv, NEW r \in Requests, pc[r] = "record"
    PROVE  Landed(r) \in Seq(Exchanges)
<1>1. out[r] # NoResult /\ TypeOK /\ medium \in Seq(Exchanges)
  BY DEF TypeInv, TypeOK, StageInv
<1>2. Exchange(r) \in Exchanges
  BY <1>1, ExchangeType
<1> QED BY <1>1, <1>2 DEF Landed

\* A promotion keeps the type of the source.
LEMMA InsertType ==
    ASSUME NEW old \in [exchanges : Seq(Exchanges), index : [Keys -> Nat]], NEW x \in Exchanges
    PROVE  Insert(old, x) \in [exchanges : Seq(Exchanges), index : [Keys -> Nat]]
<1>1. /\ old.exchanges \in Seq(Exchanges) /\ old.index \in [Keys -> Nat]
      /\ Len(old.exchanges) + 1 \in Nat /\ x.key \in Keys
  BY DEF Exchanges
<1>2. [old.index EXCEPT ![x.key] = Len(old.exchanges) + 1] \in [Keys -> Nat]
  BY <1>1
<1>3. Append(old.exchanges, x) \in Seq(Exchanges)
  BY <1>1
<1> QED BY <1>2, <1>3 DEF Insert

\* What the requests share keeps its type in every step of a request.
LEMMA SharedTypeStep ==
    ASSUME TypeInv, NEW r \in Requests, Accept(r) \/ RequestStep(r) \/ Abort(r)
    PROVE  SharedType'
<1>t. SharedType /\ TypeOK /\ StageInv
  BY TypeSplit DEF TypeInv
<1>1. CASE UNCHANGED sharedVars
  BY <1>t, <1>1 DEF SharedType, sharedVars, serverVars, stubVars
<1>2. CASE StubHit(r)
  <2> DEFINE i == FirstMatch(stubs, inner[r])
  <2>1. i \in 1..Len(stubs) /\ stubs[i].id \in Stubs
    BY <1>t, <1>2, FiringStub DEF StubHit
  <2>2. /\ stubs' = AfterFire(stubs, i)
        /\ fired' = [fired EXCEPT ![stubs[i].id] = fired[stubs[i].id] + 1]
        /\ UNCHANGED <<serverVars, registered, replay, medium>>
    BY <1>2 DEF StubHit
  <2> HIDE DEF i
  <2>3. stubs' \in Seq(StubEntries)
    BY <1>t, <2>1, <2>2, AfterFireType DEF SharedType
  <2>4. fired' \in [Stubs -> Nat]
    BY <1>t, <2>1, <2>2 DEF SharedType
  <2> QED BY <1>t, <2>2, <2>3, <2>4 DEF SharedType, serverVars
<1>3. CASE Promote(r)
  <2>1. Exchange(r) \in Exchanges
    BY <1>t, <1>3, ExchangeType DEF Promote, StageInv
  <2>2. replay' \in [exchanges : Seq(Exchanges), index : [Keys -> Nat]]
    BY <1>t, <1>3, <2>1, InsertType DEF Promote, SharedType
  <2>3. UNCHANGED <<serverVars, stubVars, medium>>
    BY <1>3 DEF Promote
  <2> QED BY <1>t, <2>2, <2>3 DEF SharedType, serverVars, stubVars
<1>4. CASE RecordOk(r) \/ RecordErr(r) \/ Abort(r)
  <2>1. medium' = medium \/ (pc[r] = "record" /\ medium' = Landed(r))
    BY <1>4 DEF RecordOk, RecordErr, Abort
  <2>2. medium' \in Seq(Exchanges)
    BY <1>t, <2>1, LandedType DEF SharedType
  <2>3. UNCHANGED <<serverVars, stubVars, replay>>
    BY <1>4 DEF RecordOk, RecordErr, Abort
  <2> QED BY <1>t, <2>2, <2>3 DEF SharedType, serverVars, stubVars
<1> QED
  BY <1>1, <1>2, <1>3, <1>4
  DEF Accept, RequestStep, PassGate, BodyOk, BodyErr, CallNext, SkipNext, StubAnswers, StubMiss,
      ReplayHit, ReplayMiss, Dial, Forwarded, Unwind, FinishUnrecorded

\* The index that load() rebuilds has its type.
LEMMA FromStorageType ==
    ASSUME medium \in Seq(Exchanges)
    PROVE  FromStorage(medium) \in [exchanges : Seq(Exchanges), index : [Keys -> Nat]]
<1>1. ASSUME NEW i \in 1..Len(medium) PROVE medium[i].key \in Keys
  <2>1. medium[i] \in Exchanges
    OBVIOUS
  <2> QED BY <2>1 DEF Exchanges
<1>2. BuildIndex(medium) \in [Keys -> Nat]
  BY <1>1, FirstOnMediumWins DEF FindsFirst
<1> QED BY <1>2 DEF FromStorage

\* Types are kept by every step.
LEMMA TypeStep == TypeInv /\ [Next]_vars => TypeInv'
<1> SUFFICES ASSUME TypeInv, [Next]_vars PROVE SharedType' /\ RequestType'
  BY TypeSplitNext
<1>t. SharedType /\ RequestType
  BY TypeSplit
<1>1. ASSUME NEW r \in Requests, Accept(r) \/ RequestStep(r) \/ Abort(r)
      PROVE  SharedType' /\ RequestType'
  BY <1>1, SharedTypeStep, RequestTypeStep
<1>r. ASSUME UNCHANGED requestVars PROVE RequestType'
  BY <1>t, <1>r DEF RequestType, StageInv, requestVars
<1>2. ASSUME NEW s \in Stubs, AddStub(s) PROVE SharedType' /\ RequestType'
  <2>1. [id |-> s, matches |-> StubMatches[s], times |-> StubTimes[s]] \in StubEntries
    BY ProxyAssumption DEF StubEntries
  <2>2. stubs' \in Seq(StubEntries) /\ registered' \in SUBSET Stubs
    BY <1>t, <1>2, <2>1 DEF AddStub, SharedType
  <2>3. UNCHANGED <<fired, serverVars, replay, medium, requestVars>>
    BY <1>2 DEF AddStub
  <2>4. SharedType'
    BY <1>t, <2>2, <2>3 DEF SharedType, serverVars
  <2> QED BY <1>r, <2>3, <2>4
<1>3. CASE ClearStubs
  BY <1>t, <1>r, <1>3 DEF ClearStubs, SharedType, serverVars
<1>4. ASSUME NEW on \in BOOLEAN, SetPause(on) PROVE SharedType' /\ RequestType'
  <2>1. paused' \in BOOLEAN
    BY <1>4, Zenon DEF SetPause
  <2> QED BY <1>t, <1>r, <1>4, <2>1 DEF SetPause, SharedType, stubVars
<1>5. CASE Shutdown
  <2>1. paused' \in BOOLEAN
    BY <1>5, Zenon DEF Shutdown
  <2> QED BY <1>t, <1>r, <1>5, <2>1 DEF Shutdown, SharedType, stubVars
<1>6. CASE Restart
  <2>1. paused' \in BOOLEAN
    BY <1>6, Zenon DEF Restart
  <2>2. EmptySource \in [exchanges : Seq(Exchanges), index : [Keys -> Nat]]
    BY DEF EmptySource, NoEntries
  <2>3. replay' \in [exchanges : Seq(Exchanges), index : [Keys -> Nat]]
    BY <1>t, <1>6, <2>2, FromStorageType DEF Restart, SharedType
  <2>4. restarts' \in 0..MaxRestarts
    BY <1>t, <1>6, ProxyAssumption DEF Restart, SharedType
  <2>5. SharedType'
    BY <1>t, <1>6, <2>1, <2>3, <2>4 DEF Restart, SharedType
  <2>6. RequestType'
    BY <1>t, <1>6 DEF Restart, RequestType, StageInv, Stages, Ended
  <2> QED BY <2>5, <2>6
<1>7. CASE UNCHANGED vars
  BY <1>t, <1>r, <1>7 DEF vars, SharedType, sharedVars, serverVars, stubVars
<1> QED BY <1>1, <1>2, <1>3, <1>4, <1>5, <1>6, <1>7 DEF Next

\* Every variable keeps its type: requests, stubs, configurations and restarts in
\* any number, and a chain of any length.
THEOREM ProxyTypeOK == Spec => []TypeOK
<1>1. TypeInv => TypeOK
  BY DEF TypeInv
<1> QED BY TypeInit, TypeStep, <1>1, PTL DEF Spec

----------------------------------------------------------------------------
\* Who changes what.

\* A step of a request changes nothing shared, or fires a stub, promotes a
\* response, or ends its record().
LEMMA RequestSteps ==
    ASSUME NEW r \in Requests, Accept(r) \/ RequestStep(r) \/ Abort(r)
    PROVE  \/ UNCHANGED sharedVars
           \/ StubHit(r)
           \/ Promote(r)
           \/ RecordOk(r) \/ RecordErr(r) \/ Abort(r)
BY DEF Accept, RequestStep, PassGate, BodyOk, BodyErr, CallNext, SkipNext, StubAnswers, StubMiss,
       ReplayHit, ReplayMiss, Dial, Forwarded, Unwind, FinishUnrecorded

\* The stubs change when one fires or is registered, and when all are dropped.
LEMMA StubSteps ==
    ASSUME [Next]_vars
    PROVE  \/ UNCHANGED stubVars
           \/ \E r \in Requests : StubHit(r)
           \/ \E s \in Stubs : AddStub(s)
           \/ stubs' = <<>> /\ UNCHANGED <<registered, fired>>
<1>1. ASSUME NEW r \in Requests, Accept(r) \/ RequestStep(r) \/ Abort(r)
      PROVE  UNCHANGED stubVars \/ StubHit(r)
  BY <1>1, RequestSteps DEF sharedVars, Promote, RecordOk, RecordErr, Abort
<1>2. CASE UNCHANGED vars
  BY <1>2 DEF vars, sharedVars
<1> QED BY <1>1, <1>2 DEF Next, ClearStubs, SetPause, Shutdown, Restart

----------------------------------------------------------------------------
\* Stubs fire as often as they may.

\* A limited stub may fire some number of times.
LEMMA AllowedType ==
    ASSUME NEW s \in Stubs, StubTimes[s] # Unlimited
    PROVE  Allowed(s) \in Nat /\ StubTimes[s] \in Nat
BY ProxyAssumption DEF Allowed

\* A fire uses up one of what is left.
LEMMA StubHitStep ==
    ASSUME TypeInv, StubInv, WithinAllowed, NEW r \in Requests, StubHit(r)
    PROVE  (StubInv /\ WithinAllowed)'
<1> DEFINE i == FirstMatch(stubs, inner[r])
           t == stubs[i].id
<1>t. SharedType /\ stubs \in Seq(StubEntries) /\ fired \in [Stubs -> Nat] /\ Len(stubs) \in Nat
  BY TypeSplit DEF SharedType
<1>1. i \in 1..Len(stubs) /\ t \in Stubs
  BY <1>t, FiringStub DEF StubHit
<1>2. /\ stubs' = AfterFire(stubs, i)
      /\ fired' = [fired EXCEPT ![t] = fired[t] + 1]
      /\ registered' = registered
  BY DEF StubHit
<1> HIDE DEF i
<1>e. \A j \in 1..Len(stubs) : stubs[j] \in StubEntries
  BY <1>t
<1>i. \A j \in 1..Len(stubs) : stubs[j].id \in Stubs
  BY <1>e DEF StubEntries
<1>3. t \in registered
  BY <1>1 DEF StubInv
<1>4. StubTimes[t] # Unlimited => fired[t] + 1 <= Allowed(t)
  <2>1. SUFFICES ASSUME StubTimes[t] # Unlimited PROVE fired[t] + 1 <= Allowed(t)
    OBVIOUS
  <2>2. /\ stubs[i].times \in Nat
        /\ fired[t] + (IF stubs[i].times = 0 THEN 1 ELSE stubs[i].times) <= Allowed(t)
    BY <1>1, <2>1 DEF StubInv
  <2> QED BY <1>t, <1>1, <2>1, <2>2, AllowedType
<1>5. WithinAllowed'
  BY <1>t, <1>1, <1>2, <1>4 DEF WithinAllowed, Allowed
<1>6. \A s \in Stubs \ registered' : fired'[s] = 0
  BY <1>t, <1>1, <1>2, <1>3 DEF StubInv
<1>a. \A s \in Stubs : fired'[s] = IF s = t THEN fired[t] + 1 ELSE fired[s]
  BY <1>t, <1>1, <1>2
<1>7. CASE stubs[i].times = Unlimited
  <2>1. stubs' = stubs
    BY <1>1, <1>2, <1>7, <1>t, AfterFireCases
  <2>2. StubTimes[t] = Unlimited
    BY <1>1, <1>7, ProxyAssumption DEF StubInv
  <2>3. StubInv'
    BY <1>2, <1>6, <1>a, <1>i, <2>1, <2>2 DEF StubInv, Allowed
  <2> QED BY <1>5, <2>3
<1>8. CASE stubs[i].times \in Nat /\ stubs[i].times <= 1
  <2> DEFINE at(j) == IF j < i THEN j ELSE j + 1
  <2>1. /\ Len(stubs') = Len(stubs) - 1
        /\ \A j \in 1..Len(stubs') : stubs'[j] = stubs[at(j)]
    BY <1>t, <1>1, <1>2, <1>8, AfterFireCases, WithoutAtSpec
  <2>2. /\ \A j \in 1..Len(stubs') : at(j) \in 1..Len(stubs) /\ at(j) # i
        /\ \A j, k \in 1..Len(stubs') : at(j) = at(k) => j = k
    BY <1>t, <1>1, <2>1
  <2> HIDE DEF at
  <2>3. \A j \in 1..Len(stubs') : stubs'[j].id # t /\ stubs'[j].id \in Stubs
    <3>1. \A j \in 1..Len(stubs) : stubs[j].id \in Stubs /\ (stubs[j].id = t => j = i)
      BY <1>i, <1>1 DEF StubInv
    <3> QED BY <2>1, <2>2, <3>1
  <2>4. StubInv'
    <3>1. \A j, k \in 1..Len(stubs') : stubs'[j].id = stubs'[k].id => j = k
      <4> SUFFICES ASSUME NEW j \in 1..Len(stubs'), NEW k \in 1..Len(stubs'),
                          stubs'[j].id = stubs'[k].id
                   PROVE  j = k
        OBVIOUS
      <4>1. PICK a \in 1..Len(stubs) : a = at(j)
        BY <2>2
      <4>2. PICK b \in 1..Len(stubs) : b = at(k)
        BY <2>2
      <4>3. stubs[a].id = stubs[b].id
        BY <2>1, <4>1, <4>2
      <4>4. a = b
        BY <4>3 DEF StubInv
      <4> QED BY <2>2, <4>1, <4>2, <4>4
    <3>2. \A j \in 1..Len(stubs') : stubs'[j].id \in registered'
      BY <1>2, <2>1, <2>2 DEF StubInv
    <3>3. ASSUME NEW j \in 1..Len(stubs'), StubTimes[stubs'[j].id] # Unlimited
          PROVE  /\ stubs'[j].times \in Nat
                 /\ fired'[stubs'[j].id] + (IF stubs'[j].times = 0 THEN 1 ELSE stubs'[j].times)
                       <= Allowed(stubs'[j].id)
      <4>1. fired'[stubs'[j].id] = fired[stubs'[j].id]
        BY <1>a, <2>3
      <4>2. stubs'[j] = stubs[at(j)] /\ at(j) \in 1..Len(stubs)
        BY <2>1, <2>2
      <4> QED BY <3>3, <4>1, <4>2 DEF StubInv
    <3> QED BY <3>1, <3>2, <3>3, <1>6 DEF StubInv, Allowed
  <2> QED BY <1>5, <2>4
<1>9. CASE stubs[i].times \in Nat /\ stubs[i].times > 1
  <2>1. stubs' = [stubs EXCEPT ![i].times = stubs[i].times - 1]
    BY <1>1, <1>2, <1>9, <1>t, AfterFireCases
  <2>2. \A j \in 1..Len(stubs) : stubs[j] \in StubEntries /\ stubs[j].id \in Stubs
    BY <1>e, <1>i
  <2>3. /\ Len(stubs') = Len(stubs)
        /\ \A j \in 1..Len(stubs) :
             /\ stubs'[j].id = stubs[j].id
             /\ stubs'[j].times = IF j = i THEN stubs[i].times - 1 ELSE stubs[j].times
    BY <1>t, <1>1, <2>1, <2>2 DEF StubEntries
  <2>4. ASSUME NEW j \in 1..Len(stubs), StubTimes[stubs[j].id] # Unlimited
        PROVE  /\ stubs'[j].times \in Nat
               /\ fired'[stubs[j].id] + (IF stubs'[j].times = 0 THEN 1 ELSE stubs'[j].times)
                     <= Allowed(stubs[j].id)
    <3>1. /\ stubs[j].times \in Nat
          /\ fired[stubs[j].id] + (IF stubs[j].times = 0 THEN 1 ELSE stubs[j].times)
                <= Allowed(stubs[j].id)
      BY <2>4 DEF StubInv
    <3>2. CASE j = i
      <4>1. fired'[stubs[j].id] = fired[stubs[j].id] + 1 /\ fired[stubs[j].id] \in Nat
            /\ Allowed(stubs[j].id) \in Nat
        BY <1>1, <1>a, <1>t, <2>4, <3>2, AllowedType
      <4>2. stubs'[j].times = stubs[j].times - 1 /\ stubs[j].times > 1
        BY <1>9, <2>3, <3>2
      <4> QED BY <3>1, <4>1, <4>2
    <3>3. CASE j # i
      <4>1. stubs[j].id # t
        BY <1>1, <3>3 DEF StubInv
      <4>2. fired'[stubs[j].id] = fired[stubs[j].id] /\ stubs'[j].times = stubs[j].times
        BY <1>a, <2>2, <2>3, <3>3, <4>1
      <4> QED BY <3>1, <4>2
    <3> QED BY <3>2, <3>3
  <2>5. StubInv'
    BY <1>2, <1>6, <2>3, <2>4 DEF StubInv, Allowed
  <2> QED BY <1>5, <2>5
<1> QED BY <1>1, <1>7, <1>8, <1>9, <1>t, AfterFireCases

\* A registration comes with all its fires, and is the stub's only one.
LEMMA AddStubStep ==
    ASSUME TypeInv, StubInv, WithinAllowed, NEW s \in Stubs, AddStub(s)
    PROVE  (StubInv /\ WithinAllowed)'
<1> DEFINE e == [id |-> s, matches |-> StubMatches[s], times |-> StubTimes[s]]
<1>t. stubs \in Seq(StubEntries) /\ fired \in [Stubs -> Nat] /\ Len(stubs) \in Nat
  BY TypeSplit DEF SharedType
<1>1. /\ Len(stubs') = Len(stubs) + 1
      /\ \A j \in 1..Len(stubs) : stubs'[j] = stubs[j]
      /\ stubs'[Len(stubs) + 1] = e
  <2>1. stubs' = Append(stubs, e)
    BY DEF AddStub
  <2>2. e \in StubEntries
    BY ProxyAssumption DEF StubEntries
  <2> HIDE DEF e
  <2> QED BY <1>t, <2>1, <2>2, AppendProperties
<1>2. e.id = s /\ e.times = StubTimes[s]
  OBVIOUS
<1> HIDE DEF e
<1>3. s \notin registered /\ registered' = registered \cup {s} /\ fired' = fired
  BY DEF AddStub
<1>4. \A j \in 1..Len(stubs) : stubs[j].id # s
  BY <1>3 DEF StubInv
<1>5. ASSUME NEW j \in 1..Len(stubs'), StubTimes[stubs'[j].id] # Unlimited
      PROVE  /\ stubs'[j].times \in Nat
             /\ fired'[stubs'[j].id] + (IF stubs'[j].times = 0 THEN 1 ELSE stubs'[j].times)
                   <= Allowed(stubs'[j].id)
  <2>1. CASE j \in 1..Len(stubs)
    BY <1>1, <1>3, <1>5, <2>1 DEF StubInv
  <2>2. CASE j = Len(stubs) + 1
    <3>1. stubs'[j].id = s /\ stubs'[j].times = StubTimes[s] /\ fired'[s] = 0
      BY <1>1, <1>2, <1>3, <2>2 DEF StubInv
    <3> QED BY <1>5, <3>1, AllowedType DEF Allowed
  <2> QED BY <1>t, <1>1, <2>1, <2>2
<1>6. \A j, k \in 1..Len(stubs') : stubs'[j].id = stubs'[k].id => j = k
  BY <1>t, <1>1, <1>2, <1>4 DEF StubInv
<1>7. \A j \in 1..Len(stubs') : stubs'[j].id \in registered'
  BY <1>t, <1>1, <1>2, <1>3 DEF StubInv
<1>8. \A u \in Stubs \ registered' : fired'[u] = 0
  BY <1>3 DEF StubInv
<1>9. StubInv'
  BY <1>5, <1>6, <1>7, <1>8 DEF StubInv, Allowed
<1> QED BY <1>3, <1>9 DEF WithinAllowed, Allowed

\* The stub part of the invariant is kept.
LEMMA StubStep == TypeInv /\ StubInv /\ WithinAllowed /\ [Next]_vars => (StubInv /\ WithinAllowed)'
<1> SUFFICES ASSUME TypeInv, StubInv, WithinAllowed, [Next]_vars PROVE (StubInv /\ WithinAllowed)'
  OBVIOUS
<1>1. CASE UNCHANGED stubVars
  BY <1>1 DEF StubInv, WithinAllowed, Allowed, stubVars
<1>2. CASE \E r \in Requests : StubHit(r)
  BY <1>2, StubHitStep
<1>3. CASE \E s \in Stubs : AddStub(s)
  BY <1>3, AddStubStep
<1>4. CASE stubs' = <<>> /\ UNCHANGED <<registered, fired>>
  BY <1>4 DEF StubInv, WithinAllowed, Allowed
<1> QED BY <1>1, <1>2, <1>3, <1>4, StubSteps

\* No interleaving of requests, registrations, clears and restarts makes a stub fire
\* more often than its times allow, if it was registered for a fire at all.
THEOREM ProxyStubFireLimit ==
    ASSUME \A s \in Stubs : StubTimes[s] # 0
    PROVE  Spec => []StubFireLimit
<1>1. Init => StubInv /\ WithinAllowed
  <2> SUFFICES ASSUME Init PROVE StubInv /\ WithinAllowed
    OBVIOUS
  <2>1. StubInv
    BY DEF Init, StubInv
  <2>2. WithinAllowed
    BY AllowedType DEF Init, WithinAllowed
  <2> QED BY <2>1, <2>2
<1>2. WithinAllowed => StubFireLimit
  BY DEF WithinAllowed, StubFireLimit, Allowed
<1> QED BY TypeInit, TypeStep, StubStep, <1>1, <1>2, PTL DEF Spec

----------------------------------------------------------------------------
\* How far a request is.

\* The stages from record() on.
FromRecord == {"record", "done", "aborted", "past"}

\* A step of r before its exchange is built: nothing at rest changes.
Quiet(r) ==
    /\ pc[r] \notin FromRecord /\ pc'[r] \notin FromRecord
    /\ UNCHANGED <<config, restarts, replay, medium, rejected, original>>

\* A step of r is quiet, or one of those that end in or come after record().
LEMMA QuietSteps ==
    ASSUME TypeInv, NEW r \in Requests, Accept(r) \/ RequestStep(r) \/ Abort(r)
    PROVE  \/ Quiet(r)
           \/ BodyErr(r) \/ FinishUnrecorded(r) \/ Promote(r)
           \/ RecordOk(r) \/ RecordErr(r) \/ Abort(r)
<1>t. pc \in [Requests -> Stages]
  BY TypeSplit DEF RequestType
<1>1. CASE Accept(r) \/ PassGate(r) \/ BodyOk(r) \/ CallNext(r) \/ SkipNext(r)
  BY <1>t, <1>1 DEF Accept, PassGate, BodyOk, CallNext, SkipNext, Outward, Quiet, FromRecord,
                    sharedVars, serverVars
<1>2. CASE StubHit(r) \/ StubAnswers(r) \/ StubMiss(r)
  BY <1>t, <1>2 DEF StubHit, StubAnswers, StubMiss, Outward, Quiet, FromRecord, sharedVars, serverVars
<1>3. CASE ReplayHit(r) \/ ReplayMiss(r) \/ Dial(r) \/ Forwarded(r) \/ Unwind(r)
  BY <1>t, <1>3 DEF ReplayHit, ReplayMiss, Dial, Forwarded, Unwind, Outward, Quiet, FromRecord,
                    sharedVars, serverVars
<1> QED BY <1>1, <1>2, <1>3 DEF RequestStep

\* A step of r leaves the other requests where they are.
Others(r) ==
    /\ \A q \in Requests \ {r} :
         pc'[q] = pc[q] /\ original'[q] = original[q] /\ source'[q] = source[q] /\ out'[q] = out[q]
    /\ UNCHANGED <<config, restarts>>

\* Requests interfere only through what they share.
LEMMA OthersStay ==
    ASSUME TypeInv, NEW r \in Requests, Accept(r) \/ RequestStep(r) \/ Abort(r)
    PROVE  Others(r)
<1> USE TypeSplit DEF RequestType, Others, sharedVars, serverVars
<1>1. CASE Accept(r) \/ PassGate(r) \/ BodyOk(r)
  BY <1>1 DEF Accept, PassGate, BodyOk
<1>2. CASE BodyErr(r)
  BY <1>2 DEF BodyErr
<1>3. CASE CallNext(r)
  BY <1>3 DEF CallNext
<1>4. CASE SkipNext(r)
  BY <1>4 DEF SkipNext
<1>5. CASE StubHit(r)
  BY <1>5 DEF StubHit
<1>6. CASE StubAnswers(r) \/ StubMiss(r)
  BY <1>6 DEF StubAnswers, StubMiss
<1>7. CASE ReplayHit(r)
  BY <1>7 DEF ReplayHit
<1>8. CASE ReplayMiss(r) \/ Dial(r)
  BY <1>8 DEF ReplayMiss, Dial
<1>9. CASE Forwarded(r)
  BY <1>9 DEF Forwarded
<1>10. CASE Unwind(r)
  BY <1>10 DEF Unwind
<1>11. CASE FinishUnrecorded(r) \/ Promote(r) \/ RecordOk(r) \/ RecordErr(r) \/ Abort(r)
  BY <1>11 DEF FinishUnrecorded, Promote, RecordOk, RecordErr, Abort
<1> QED
  BY <1>1, <1>2, <1>3, <1>4, <1>5, <1>6, <1>7, <1>8, <1>9, <1>10, <1>11 DEF RequestStep

\* Steps that are nobody's request leave the requests and what is at rest alone,
\* but for a restart.
LEMMA HarnessSteps ==
    ASSUME [Next]_vars
    PROVE  \/ \E r \in Requests : Accept(r) \/ RequestStep(r) \/ Abort(r)
           \/ UNCHANGED <<requestVars, config, restarts, replay, medium>>
           \/ Restart
BY DEF Next, AddStub, ClearStubs, SetPause, Shutdown, vars, sharedVars, serverVars, stubVars

----------------------------------------------------------------------------
\* The live index.

ReplaySources == [exchanges : Seq(Exchanges), index : [Keys -> Nat]]

\* insert keeps what the source has, and adds the exchange where its key was free.
LEMMA InsertSpec ==
    ASSUME NEW old \in ReplaySources, NEW x \in Exchanges
    PROVE  \/ /\ Insert(old, x) = old
              /\ IsResponse(x.outcome) => old.index[x.key] # 0
           \/ /\ IsResponse(x.outcome) /\ old.index[x.key] = 0
              /\ Insert(old, x) \in ReplaySources
              /\ Len(Insert(old, x).exchanges) = Len(old.exchanges) + 1
              /\ \A i \in 1..Len(old.exchanges) : Insert(old, x).exchanges[i] = old.exchanges[i]
              /\ Insert(old, x).exchanges[Len(old.exchanges) + 1] = x
              /\ \A k \in Keys : Insert(old, x).index[k] =
                                    IF k = x.key THEN Len(old.exchanges) + 1 ELSE old.index[k]
<1>1. old.exchanges \in Seq(Exchanges) /\ old.index \in [Keys -> Nat] /\ x.key \in Keys
  BY DEF ReplaySources, Exchanges
<1>2. CASE ~IsResponse(x.outcome) \/ old.index[x.key] # 0
  BY <1>2 DEF Insert
<1>3. CASE IsResponse(x.outcome) /\ old.index[x.key] = 0
  <2>1. /\ Insert(old, x).exchanges = Append(old.exchanges, x)
        /\ Insert(old, x).index = [old.index EXCEPT ![x.key] = Len(old.exchanges) + 1]
    BY <1>3 DEF Insert
  <2>2. /\ Len(Append(old.exchanges, x)) = Len(old.exchanges) + 1
        /\ \A i \in 1..Len(old.exchanges) : Append(old.exchanges, x)[i] = old.exchanges[i]
        /\ Append(old.exchanges, x)[Len(old.exchanges) + 1] = x
    BY <1>1, AppendProperties
  <2>3. Insert(old, x) \in ReplaySources
    BY InsertType DEF ReplaySources
  <2> QED BY <1>1, <1>3, <2>1, <2>2, <2>3
<1> QED BY <1>2, <1>3

\* Between restarts the source only changes by insert, of the exchange of a request
\* that got its response from the upstream.
LEMMA ReplaySteps ==
    ASSUME TypeInv, [Next]_vars
    PROVE  \/ UNCHANGED <<replay, restarts>>
           \/ \E r \in Requests : /\ Promote(r) /\ Promoted(r)
                                   /\ Exchange(r) \in Exchanges
                                   /\ Exchange(r).key = Redact[original[r]]
                                   /\ replay' = Insert(replay, Exchange(r))
                                   /\ restarts' = restarts
           \/ Restart
<1>1. ASSUME NEW r \in Requests, Accept(r) \/ RequestStep(r) \/ Abort(r)
      PROVE  \/ UNCHANGED <<replay, restarts>>
             \/ /\ Promote(r) /\ Promoted(r)
                /\ Exchange(r) \in Exchanges
                /\ Exchange(r).key = Redact[original[r]]
                /\ replay' = Insert(replay, Exchange(r))
                /\ restarts' = restarts
  <2>1. CASE Promote(r) /\ Promoted(r)
    <3>1. Exchange(r) \in Exchanges /\ Exchange(r).key = Redact[original[r]]
      BY <2>1, ExchangeType DEF TypeInv, StageInv, Promote
    <3> QED BY <2>1, <3>1 DEF Promote, serverVars
  <2>2. CASE ~(Promote(r) /\ Promoted(r))
    BY <1>1, <2>2, RequestSteps
    DEF Promote, StubHit, RecordOk, RecordErr, Abort, sharedVars, serverVars
  <2> QED BY <2>1, <2>2
<1> QED BY <1>1, HarnessSteps

\* A loaded index is sound.
LEMMA LoadedSound ==
    ASSUME TypeInv, NEW k \in Keys, FromStorage(medium).index[k] # 0
    PROVE  /\ Hit(FromStorage(medium), k)
           /\ FromStorage(medium).exchanges[FromStorage(medium).index[k]].key = k
<1>1. medium \in Seq(Exchanges)
  BY TypeSplit DEF SharedType
<1>2. ASSUME NEW i \in 1..Len(medium) PROVE medium[i].key \in Keys
  <2>1. medium[i] \in Exchanges
    BY <1>1
  <2> QED BY <2>1 DEF Exchanges
<1>3. FromStorage(medium).exchanges = medium /\ FromStorage(medium).index = BuildIndex(medium)
  BY DEF FromStorage
<1>4. BuildIndex(medium)[k] \in Responses(medium, Len(medium), k)
  BY <1>1, <1>2, <1>3, FirstOnMediumWins DEF FindsFirst
<1> QED BY <1>3, <1>4 DEF Hit, Responses

\* An empty source has nothing.
LEMMA EmptyFacts == EmptySource.exchanges = <<>> /\ \A k \in Keys : EmptySource.index[k] = 0
BY DEF EmptySource, NoEntries

\* The index stays sound, under promotions and reloads.
LEMMA IndexStep == TypeInv /\ IndexSound /\ [Next]_vars => IndexSound'
<1> SUFFICES ASSUME TypeInv, IndexSound, [Next]_vars, NEW k \in Keys, replay'.index[k] # 0
             PROVE  Hit(replay', k) /\ replay'.exchanges[replay'.index[k]].key = k
  BY DEF IndexSound
<1>t. replay \in ReplaySources /\ Len(replay.exchanges) \in Nat
  BY TypeSplit DEF SharedType, ReplaySources
<1>1. CASE UNCHANGED replay
  BY <1>1 DEF IndexSound
<1>2. ASSUME NEW r \in Requests, Exchange(r) \in Exchanges, replay' = Insert(replay, Exchange(r))
      PROVE  Hit(replay', k) /\ replay'.exchanges[replay'.index[k]].key = k
  <2> DEFINE x == Exchange(r)
  <2>1. CASE replay' = replay
    BY <2>1 DEF IndexSound
  <2>2. CASE replay' # replay
    <3>1. /\ IsResponse(x.outcome)
          /\ Len(replay'.exchanges) = Len(replay.exchanges) + 1
          /\ \A i \in 1..Len(replay.exchanges) : replay'.exchanges[i] = replay.exchanges[i]
          /\ replay'.exchanges[Len(replay.exchanges) + 1] = x
          /\ replay'.index[k] = IF k = x.key THEN Len(replay.exchanges) + 1 ELSE replay.index[k]
      BY <1>t, <1>2, <2>2, InsertSpec
    <3> HIDE DEF x
    <3>2. CASE k = x.key
      BY <1>t, <3>1, <3>2 DEF Hit
    <3>3. CASE k # x.key
      <4>1. Hit(replay, k) /\ replay.exchanges[replay.index[k]].key = k
        BY <3>1, <3>3 DEF IndexSound
      <4> QED BY <1>t, <3>1, <3>3, <4>1 DEF Hit
    <3> QED BY <3>2, <3>3
  <2> QED BY <2>1, <2>2
<1>3. CASE Restart
  <2>1. replay' = FromStorage(medium) \/ replay' = EmptySource
    BY <1>3 DEF Restart
  <2> QED BY <2>1, LoadedSound, EmptyFacts
<1> QED BY <1>1, <1>2, <1>3, ReplaySteps

\* The replay index never dangles and never answers for another key.
THEOREM ProxyIndexSound == Spec => []IndexSound
<1>1. Init => IndexSound
  BY EmptyFacts DEF Init, IndexSound
<1> QED BY TypeInit, TypeStep, IndexStep, <1>1, PTL DEF Spec

\* Between restarts a key that has an answer keeps it.
LEMMA AnswerKept ==
    ASSUME TypeInv, [Next]_vars, restarts' = restarts, NEW k \in Keys
    PROVE  /\ replay.index[k] # 0 => replay'.index[k] = replay.index[k]
           /\ Hit(replay, k) => Hit(replay', k) /\ Lookup(replay', k) = Lookup(replay, k)
<1>t. replay \in ReplaySources /\ Len(replay.exchanges) \in Nat /\ restarts \in Nat
  BY TypeSplit, ProxyAssumption DEF SharedType, ReplaySources
<1>1. CASE UNCHANGED replay
  BY <1>1
<1>2. ASSUME NEW r \in Requests, Exchange(r) \in Exchanges, replay' = Insert(replay, Exchange(r)),
             replay' # replay
      PROVE  /\ replay.index[k] # 0 => replay'.index[k] = replay.index[k]
             /\ Hit(replay, k) => Hit(replay', k) /\ Lookup(replay', k) = Lookup(replay, k)
  <2> DEFINE x == Exchange(r)
  <2>1. /\ replay.index[x.key] = 0
        /\ Len(replay'.exchanges) = Len(replay.exchanges) + 1
        /\ \A i \in 1..Len(replay.exchanges) : replay'.exchanges[i] = replay.exchanges[i]
        /\ replay'.index[k] = IF k = x.key THEN Len(replay.exchanges) + 1 ELSE replay.index[k]
    BY <1>t, <1>2, InsertSpec
  <2> HIDE DEF x
  <2>2. CASE replay.index[k] = 0
    BY <2>2 DEF Hit
  <2>3. CASE replay.index[k] # 0
    <3>1. replay'.index[k] = replay.index[k]
      BY <2>1, <2>3
    <3>2. ASSUME Hit(replay, k) PROVE Hit(replay', k) /\ Lookup(replay', k) = Lookup(replay, k)
      BY <1>t, <2>1, <3>1, <3>2 DEF Hit, Lookup
    <3> QED BY <3>1, <3>2
  <2> QED BY <2>2, <2>3
<1>3. CASE Restart
  BY <1>t, <1>3 DEF Restart
<1> QED BY <1>1, <1>2, <1>3, ReplaySteps

\* Within one run the first answer of a key wins: no later promotion, of any number
\* of concurrent requests, replaces it.
THEOREM ProxyFirstWriteWins == Spec => FirstWriteWins
<1>1. TypeInv /\ [Next]_vars =>
        [restarts' = restarts =>
            \A k \in Keys :
                Hit(replay, k) =>
                    Hit(replay', k) /\ Lookup(replay', k) = Lookup(replay, k)]_vars
  BY AnswerKept
<1> QED BY TypeInit, TypeStep, <1>1, PTL DEF Spec, FirstWriteWins

----------------------------------------------------------------------------
\* What is at rest.

\* The medium only grows, by the exchange of a request that is in record().
LEMMA MediumSteps ==
    ASSUME TypeInv, [Next]_vars
    PROVE  \/ medium' = medium
           \/ \E r \in Requests :
                /\ RecordOk(r) \/ RecordErr(r) \/ Abort(r)
                /\ pc[r] = "record"
                /\ Exchange(r) \in Exchanges
                /\ medium' = Append(medium, Exchange(r))
<1>1. ASSUME NEW r \in Requests, RecordOk(r) \/ RecordErr(r) \/ Abort(r), medium' # medium
      PROVE  /\ pc[r] = "record"
             /\ Exchange(r) \in Exchanges
             /\ medium' = Append(medium, Exchange(r))
  <2>1. pc[r] = "record" /\ medium' = Landed(r)
    BY <1>1 DEF RecordOk, RecordErr, Abort
  <2>2. medium' = Append(medium, Exchange(r))
    BY <1>1, <2>1 DEF Landed
  <2>3. Exchange(r) \in Exchanges
    BY <2>1, ExchangeType DEF TypeInv, StageInv
  <2> QED BY <2>1, <2>2, <2>3
<1>2. ASSUME NEW r \in Requests, Accept(r) \/ RequestStep(r) \/ Abort(r),
             ~(RecordOk(r) \/ RecordErr(r) \/ Abort(r))
      PROVE  medium' = medium
  BY <1>2, RequestSteps DEF StubHit, Promote, sharedVars
<1>3. CASE Restart
  BY <1>3 DEF Restart
<1> QED BY <1>1, <1>2, <1>3, HarnessSteps

\* An append adds one exchange at the end.
LEMMA AppendSpec ==
    ASSUME NEW list \in Seq(Exchanges), NEW x \in Exchanges
    PROVE  /\ Len(Append(list, x)) = Len(list) + 1 /\ Len(list) \in Nat
           /\ \A i \in 1..Len(list) : Append(list, x)[i] = list[i]
           /\ Append(list, x)[Len(list) + 1] = x
           /\ Range(Append(list, x)) = Range(list) \cup {x}
<1>1. /\ Len(Append(list, x)) = Len(list) + 1 /\ Len(list) \in Nat
      /\ \A i \in 1..Len(list) : Append(list, x)[i] = list[i]
      /\ Append(list, x)[Len(list) + 1] = x
  BY AppendProperties
<1>2. DOMAIN list = 1..Len(list) /\ DOMAIN Append(list, x) = 1..(Len(list) + 1)
  BY <1>1
<1>3. Range(Append(list, x)) = Range(list) \cup {x}
  BY <1>1, <1>2 DEF Range
<1> QED BY <1>1, <1>3

\* The exchange a request leaves behind has been redacted by the whole chain.
LEMMA ExchangeRedacted ==
    ASSUME TypeInv, NEW r \in Requests, out[r] # NoResult
    PROVE  (IsResponse(Exchange(r).outcome) => Exchange(r).outcome.raw = {}) /\ \E k \in Keys : Exchange(r).key = Redact[k]
<1>1. original[r] \in Keys /\ TypeOK
  BY DEF TypeInv, TypeOK
<1> QED BY <1>1, ExchangeType

\* What comes to rest has been redacted.
LEMMA RedactStep == TypeInv /\ RedactInv /\ [Next]_vars => RedactInv'
<1> SUFFICES ASSUME TypeInv, RedactInv, [Next]_vars, NEW e,
                    e \in Range(medium') \/ e \in Range(replay'.exchanges)
             PROVE  (IsResponse(e.outcome) => e.outcome.raw = {}) /\ \E k \in Keys : e.key = Redact[k]
  BY DEF RedactInv
<1>t. medium \in Seq(Exchanges) /\ replay \in ReplaySources /\ replay.exchanges \in Seq(Exchanges)
  BY TypeSplit DEF SharedType, ReplaySources
<1>1. CASE e \in Range(medium) \/ e \in Range(replay.exchanges)
  BY <1>1 DEF RedactInv
<1>2. CASE e \in Range(medium') /\ e \notin Range(medium)
  <2>1. PICK r \in Requests : /\ pc[r] = "record"
                              /\ Exchange(r) \in Exchanges
                              /\ medium' = Append(medium, Exchange(r))
    BY <1>2, MediumSteps
  <2>2. e = Exchange(r)
    BY <1>t, <1>2, <2>1, AppendSpec
  <2> QED BY <2>1, <2>2, ExchangeRedacted DEF TypeInv, StageInv
<1>3. CASE e \in Range(replay'.exchanges) /\ e \notin Range(replay.exchanges)
  <2>1. ASSUME NEW r \in Requests, Promote(r), Exchange(r) \in Exchanges,
               replay' = Insert(replay, Exchange(r))
        PROVE  e = Exchange(r) /\ pc[r] = "finish"
    <3>1. replay'.exchanges = replay.exchanges
            \/ replay'.exchanges = Append(replay.exchanges, Exchange(r))
      BY <2>1 DEF Insert
    <3>2. pc[r] = "finish"
      BY <2>1 DEF Promote
    <3>3. Range(Append(replay.exchanges, Exchange(r))) = Range(replay.exchanges) \cup {Exchange(r)}
      BY <1>t, <2>1, AppendSpec
    <3>4. e = Exchange(r)
      BY <1>3, <3>1, <3>3
    <3> QED BY <3>2, <3>4
  <2>2. ASSUME NEW r \in Requests, e = Exchange(r), pc[r] = "finish"
        PROVE  (IsResponse(e.outcome) => e.outcome.raw = {}) /\ \E k \in Keys : e.key = Redact[k]
    BY <2>2, ExchangeRedacted DEF TypeInv, StageInv
  <2>3. CASE Restart
    <3>1. replay'.exchanges = medium \/ replay'.exchanges = <<>>
      BY <2>3, EmptyFacts DEF Restart, FromStorage
    <3>2. Range(<<>>) = {}
      BY DEF Range
    <3> QED BY <1>3, <3>1, <3>2 DEF RedactInv
  <2> QED BY <1>3, <2>1, <2>2, <2>3, ReplaySteps
<1> QED BY <1>1, <1>2, <1>3

\* If the redactions go together, nothing a middleware would still redact is ever on
\* the medium or in the index: of the request or of the response, whichever
\* middlewares the exchange passed.
THEOREM ProxyRedactedAtRest ==
    ASSUME RedactionsCompose
    PROVE  Spec => []RedactedAtRest
<1>1. Init => RedactInv
  <2>1. Range(<<>>) = {}
    BY DEF Range
  <2> QED BY <2>1, EmptyFacts DEF Init, RedactInv
<1>2. RedactInv => RedactedAtRest
  BY RedactIsStable DEF RedactInv, RedactedAtRest
<1> QED BY TypeInit, TypeStep, RedactStep, <1>1, <1>2, PTL DEF Spec

----------------------------------------------------------------------------
\* Each exchange once.

\* A request that is at record() with a response did not get it from the snapshot.
LEMMA RecordEntry ==
    ASSUME TypeInv, OnceInv, [Next]_vars, NEW q \in Requests, pc'[q] = "record", IsResponse(out'[q])
    PROVE  source'[q] # "Snapshot"
<1>t. pc \in [Requests -> Stages] /\ out \in [Requests -> Results \cup {NoResult}]
  BY TypeSplit DEF RequestType
<1>o. pc[q] = "record" /\ IsResponse(out[q]) => source[q] # "Snapshot"
  BY DEF OnceInv
<1>1. ASSUME NEW r \in Requests, Accept(r) \/ RequestStep(r) \/ Abort(r)
      PROVE  source'[q] # "Snapshot"
  <2>1. CASE q # r
    BY <1>1, <1>o, <2>1, OthersStay DEF Others
  <2>2. CASE q = r
    <3>1. CASE Promote(r)
      BY <2>2, <3>1 DEF Promote, Unrecorded
    <3>2. CASE BodyErr(r)
      <4>1. out'[r] = Result("error", r)
        BY <1>t, <3>2 DEF BodyErr
      <4> QED BY <2>2, <4>1 DEF Result, IsResponse
    <3>3. pc'[r] # "record"
          \/ Promote(r) \/ BodyErr(r)
      BY <1>1, <1>t, QuietSteps DEF Quiet, FromRecord, FinishUnrecorded, RecordOk, RecordErr, Abort
    <3> QED BY <2>2, <3>1, <3>2, <3>3
  <2> QED BY <2>1, <2>2
<1>2. CASE UNCHANGED <<requestVars, config, restarts, replay, medium>>
  BY <1>2, <1>o DEF requestVars
<1>3. CASE Restart
  BY <1>3 DEF Restart
<1> QED BY <1>1, <1>2, <1>3, HarnessSteps

\* A request that is through with its exchange stays so, and keeps its source.
LEMMA SettledStays ==
    ASSUME TypeInv, [Next]_vars, NEW q \in Requests, pc[q] \in {"done", "aborted", "past"}
    PROVE  pc'[q] \in {"done", "aborted", "past"} /\ source'[q] = source[q]
<1>1. ASSUME NEW r \in Requests, Accept(r) \/ RequestStep(r) \/ Abort(r)
      PROVE  pc'[q] = pc[q] /\ source'[q] = source[q]
  <2>1. q # r
    BY <1>1, QuietSteps
    DEF Quiet, FromRecord, BodyErr, FinishUnrecorded, Promote, RecordOk, RecordErr, Abort, Awaits
  <2> QED BY <1>1, <2>1, OthersStay DEF Others
<1>2. CASE UNCHANGED <<requestVars, config, restarts, replay, medium>>
  BY <1>2 DEF requestVars
<1>3. CASE Restart
  BY <1>3 DEF Restart
<1> QED BY <1>1, <1>2, <1>3, HarnessSteps

\* An append is the request's first, and its last.
LEMMA OnceStep ==
    TypeInv /\ OnceInv /\ AppendedOnce /\ [Next]_vars => (OnceInv /\ AppendedOnce)'
<1> SUFFICES ASSUME TypeInv, OnceInv, AppendedOnce, [Next]_vars PROVE (OnceInv /\ AppendedOnce)'
  OBVIOUS
<1>t. medium \in Seq(Exchanges) /\ Len(medium) \in Nat
  BY TypeSplit DEF SharedType
<1>e. ASSUME NEW i \in 1..Len(medium) PROVE medium[i].by \in Requests
  <2>1. medium[i] \in Exchanges
    BY <1>t
  <2> QED BY <2>1 DEF Exchanges
<1>o. ASSUME NEW i \in 1..Len(medium)
      PROVE  /\ pc'[medium[i].by] \in {"done", "aborted", "past"}
             /\ source'[medium[i].by] = source[medium[i].by]
  BY <1>e, SettledStays DEF OnceInv
<1>r. \A q \in Requests : pc'[q] = "record" /\ IsResponse(out'[q]) => source'[q] # "Snapshot"
  BY RecordEntry
<1>1. CASE medium' = medium
  BY <1>1, <1>o, <1>r DEF OnceInv, AppendedOnce
<1>2. ASSUME NEW r \in Requests, RecordOk(r) \/ RecordErr(r) \/ Abort(r), pc[r] = "record",
             Exchange(r) \in Exchanges, medium' = Append(medium, Exchange(r))
      PROVE  (OnceInv /\ AppendedOnce)'
  <2> DEFINE x == Exchange(r)
             n == Len(medium) + 1
  <2>1. /\ x.by = r
        /\ IsResponse(x.outcome) => IsResponse(out[r])
    BY <1>2, ExchangeType DEF TypeInv, StageInv
  <2>2. /\ Len(medium') = n
        /\ \A i \in 1..Len(medium) : medium'[i] = medium[i]
        /\ medium'[n] = x
    BY <1>t, <1>2, AppendSpec
  <2>3. pc'[r] \in {"done", "aborted", "past"} /\ source'[r] = source[r]
    BY <1>2, TypeSplit DEF RecordOk, RecordErr, Abort, RequestType
  <2>4. IsResponse(out[r]) => source[r] # "Snapshot"
    BY <1>2 DEF OnceInv
  <2>5. \A i \in 1..Len(medium) : medium[i].by # r
    BY <1>2 DEF OnceInv
  <2> HIDE DEF x, n
  <2>6. \A i \in 1..Len(medium') : i \in 1..Len(medium) \/ i = n
    BY <1>t, <2>2 DEF n
  <2>7. \A i \in 1..Len(medium') : pc'[medium'[i].by] \in {"done", "aborted", "past"}
    BY <1>o, <2>1, <2>2, <2>3, <2>6
  <2>8. \A i, j \in 1..Len(medium') : medium'[i].by = medium'[j].by => i = j
    BY <2>1, <2>2, <2>5, <2>6 DEF AppendedOnce
  <2>9. \A i \in 1..Len(medium') :
            IsResponse(medium'[i].outcome) => source'[medium'[i].by] # "Snapshot"
    BY <1>o, <2>1, <2>2, <2>3, <2>4, <2>6 DEF AppendedOnce
  <2> QED BY <1>r, <2>7, <2>8, <2>9 DEF OnceInv, AppendedOnce
<1> QED BY <1>1, <1>2, MediumSteps

\* No request is appended twice, and none answered from the snapshot is appended
\* again, across aborts, failed appends and restarts.
THEOREM ProxyAppendedOnce == Spec => []AppendedOnce
<1>1. Init => OnceInv /\ AppendedOnce
  BY DEF Init, OnceInv, AppendedOnce
<1> QED BY TypeInit, TypeStep, OnceStep, <1>1, PTL DEF Spec

----------------------------------------------------------------------------
\* The deduplicating cache.

\* A forwarded response is in the index before its client has it.
LEMMA SeenStep == TypeInv /\ SeenInv /\ [Next]_vars => SeenInv'
<1> SUFFICES ASSUME TypeInv, SeenInv, [Next]_vars, NEW q \in Requests,
                    pc'[q] \in {"record", "done"},
                    source'[q] = "Upstream", IsResponse(out'[q]),
                    config'.recording, config'.storage
             PROVE  replay'.index[Redact[original'[q]]] # 0
  BY DEF SeenInv
<1>t. /\ pc \in [Requests -> Stages] /\ out \in [Requests -> Results \cup {NoResult}]
      /\ original[q] \in Keys /\ replay \in ReplaySources
  BY TypeSplit DEF RequestType, SharedType, ReplaySources
<1>k. Redact[original[q]] \in Keys
  BY <1>t, RedactType
<1>1. ASSUME UNCHANGED <<config, restarts>>, pc[q] \in {"record", "done"},
             original'[q] = original[q], source'[q] = source[q], out'[q] = out[q]
      PROVE  replay'.index[Redact[original'[q]]] # 0
  <2>1. replay.index[Redact[original[q]]] # 0
    BY <1>1 DEF SeenInv
  <2> QED BY <1>1, <1>k, <2>1, AnswerKept
<1>2. ASSUME NEW r \in Requests, Accept(r) \/ RequestStep(r) \/ Abort(r)
      PROVE  replay'.index[Redact[original'[q]]] # 0
  <2>1. CASE q # r
    BY <1>1, <1>2, <2>1, OthersStay DEF Others
  <2>2. CASE q = r
    <3>1. CASE RecordOk(r) \/ RecordErr(r)
      BY <1>1, <2>2, <3>1 DEF RecordOk, RecordErr, serverVars
    <3>2. CASE Promote(r)
      <4>1. /\ Promoted(r) /\ original'[r] = original[r]
            /\ replay' = Insert(replay, Exchange(r))
        BY <2>2, <3>2 DEF Promote, Promoted, serverVars
      <4>2. /\ Exchange(r) \in Exchanges /\ Exchange(r).key = Redact[original[r]]
            /\ IsResponse(Exchange(r).outcome)
        BY <3>2, <4>1, ExchangeType DEF TypeInv, StageInv, Promote, Promoted
      <4>3. Len(replay.exchanges) \in Nat
        BY <1>t DEF ReplaySources
      <4> QED BY <1>t, <1>k, <2>2, <4>1, <4>2, <4>3, InsertSpec
    <3>3. CASE FinishUnrecorded(r)
      BY <2>2, <3>3 DEF FinishUnrecorded, Unrecorded, sharedVars, serverVars
    <3>4. CASE BodyErr(r)
      <4>1. out'[r] = Result("error", r)
        BY <1>t, <3>4 DEF BodyErr
      <4> QED BY <2>2, <4>1 DEF Result, IsResponse
    <3>5. CASE Quiet(r)
      BY <2>2, <3>5 DEF Quiet, FromRecord
    <3>6. CASE Abort(r)
      BY <1>t, <2>2, <3>6 DEF Abort
    <3> QED BY <1>2, <3>1, <3>2, <3>3, <3>4, <3>5, <3>6, QuietSteps
  <2> QED BY <2>1, <2>2
<1>3. CASE UNCHANGED <<requestVars, config, restarts, replay, medium>>
  BY <1>1, <1>3 DEF requestVars
<1>4. CASE Restart
  BY <1>4 DEF Restart
<1> QED BY <1>2, <1>3, <1>4, HarnessSteps

\* A request starts to be forwarded only by Dial, after a lookup that missed.
LEMMA ForwardIsDial ==
    ASSUME TypeInv, [Next]_vars, NEW r \in Requests, pc[r] = "lookup", pc'[r] = "forward"
    PROVE  ~Snapshotted(r)
<1>t. pc \in [Requests -> Stages]
  BY TypeSplit DEF RequestType
<1>1. ASSUME NEW q \in Requests, Accept(q) \/ RequestStep(q) \/ Abort(q)
      PROVE  ~Snapshotted(r)
  <2>1. q = r
    BY <1>1, OthersStay DEF Others
  <2>2. CASE ReplayMiss(r) \/ Dial(r)
    BY <2>2 DEF ReplayMiss, Dial
  <2>3. CASE ReplayHit(r)
    BY <1>t, <2>3 DEF ReplayHit, Outward
  <2>4. ReplayHit(r) \/ ReplayMiss(r) \/ Dial(r)
    BY <1>1, <2>1
    DEF Accept, RequestStep, Abort, Awaits, PassGate, BodyOk, BodyErr, CallNext, SkipNext, StubHit,
        StubAnswers, StubMiss, Forwarded, Unwind, FinishUnrecorded, Promote, RecordOk, RecordErr
  <2> QED BY <2>2, <2>3, <2>4
<1>2. CASE UNCHANGED <<requestVars, config, restarts, replay, medium>>
  BY <1>2 DEF requestVars
<1>3. CASE Restart
  BY <1>3 DEF Restart
<1> QED BY <1>1, <1>2, <1>3, HarnessSteps

\* Once the client of a forwarded response has it, no lookup of its key in the same
\* run reaches the upstream again, whatever became of the append.
THEOREM ProxySeenNotForwarded == Spec => SeenNotForwarded
<1>1. Init => IndexSound /\ SeenInv
  BY EmptyFacts DEF Init, IndexSound, SeenInv
<1>2. TypeInv /\ IndexSound /\ SeenInv /\ [Next]_vars =>
        [\A r, q \in Requests :
            /\ pc[r] = "lookup" /\ pc'[r] = "forward"
            /\ config.recording /\ config.storage
            /\ pc[q] = "done" /\ source[q] = "Upstream" /\ IsResponse(out[q])
            => LookupKey(r) # Redact[original[q]]]_vars
  <2> SUFFICES ASSUME TypeInv, IndexSound, SeenInv, [Next]_vars, NEW r \in Requests, NEW q \in Requests,
                      pc[r] = "lookup", pc'[r] = "forward",
                      config.recording, config.storage,
                      pc[q] = "done", source[q] = "Upstream", IsResponse(out[q])
               PROVE  LookupKey(r) # Redact[original[q]]
    OBVIOUS
  <2>1. ~Hit(replay, LookupKey(r))
    BY ForwardIsDial DEF Snapshotted
  <2>2. replay.index[Redact[original[q]]] # 0
    BY DEF SeenInv
  <2>3. Redact[original[q]] \in Keys
    BY RedactType, TypeSplit DEF RequestType
  <2>4. Hit(replay, Redact[original[q]])
    BY <2>2, <2>3 DEF IndexSound
  <2> QED BY <2>1, <2>4
<1> QED BY TypeInit, TypeStep, IndexStep, SeenStep, <1>1, <1>2, PTL DEF Spec, SeenNotForwarded

----------------------------------------------------------------------------
\* What a restart loses.

\* The exchange of a request stays the same while its request and result do.
LEMMA ExchangeKept ==
    ASSUME NEW q, original'[q] = original[q], out'[q] = out[q]
    PROVE  Exchange(q)' = Exchange(q)
BY DEF Exchange, RedactOutcome

\* Storage rejects for good.
LEMMA RejectedGrows ==
    ASSUME TypeInv, [Next]_vars
    PROVE  rejected \subseteq rejected'
<1>1. ASSUME NEW r \in Requests, Accept(r) \/ RequestStep(r) \/ Abort(r)
      PROVE  rejected \subseteq rejected'
  BY <1>1, QuietSteps
  DEF Quiet, BodyErr, FinishUnrecorded, Promote, RecordOk, RecordErr, Abort
<1> QED BY <1>1, HarnessSteps DEF requestVars, Restart

\* An exchange keeps its origin, or moves from record() to the medium or among the
\* rejected.
LEMMA OriginKept ==
    ASSUME TypeInv, [Next]_vars, ~Restart, config.storage, NEW x \in Exchanges, From(x)
    PROVE  From(x)'
<1>t. medium \in Seq(Exchanges) /\ x.by \in Requests
  BY TypeSplit DEF SharedType, Exchanges
<1>1. CASE x \in Range(medium)
  <2>1. x \in Range(medium')
    BY <1>t, <1>1, MediumSteps, AppendSpec
  <2> QED BY <2>1 DEF From
<1>2. CASE x.by \in rejected
  BY <1>2, RejectedGrows DEF From
<1>3. CASE pc[x.by] = "record" /\ x = Exchange(x.by)
  <2>1. ASSUME pc'[x.by] = pc[x.by], original'[x.by] = original[x.by], out'[x.by] = out[x.by]
        PROVE  From(x)'
    BY <1>3, <2>1, ExchangeKept DEF From
  <2>2. ASSUME NEW r \in Requests, Accept(r) \/ RequestStep(r) \/ Abort(r)
        PROVE  From(x)'
    <3>1. CASE x.by # r
      BY <1>t, <2>1, <2>2, <3>1, OthersStay DEF Others
    <3>2. CASE x.by = r
      <4>1. RecordOk(r) \/ RecordErr(r) \/ Abort(r)
        BY <1>3, <2>2, <3>2, QuietSteps DEF Quiet, FromRecord, BodyErr, FinishUnrecorded, Promote
      <4>2. CASE RecordOk(r)
        <5>1. medium' = Append(medium, x)
          BY <1>3, <3>2, <4>2 DEF RecordOk, Landed
        <5>2. x \in Range(medium')
          BY <1>t, <5>1, AppendSpec
        <5> QED BY <5>2 DEF From
      <4>3. CASE RecordErr(r) \/ Abort(r)
        <5>1. r \in rejected'
          BY <1>3, <3>2, <4>3 DEF RecordErr, Abort
        <5> QED BY <3>2, <5>1 DEF From
      <4> QED BY <4>1, <4>2, <4>3
    <3> QED BY <3>1, <3>2
  <2>3. CASE UNCHANGED <<requestVars, config, restarts, replay, medium>>
    BY <2>1, <2>3 DEF requestVars
  <2> QED BY <2>2, <2>3, HarnessSteps
<1> QED BY <1>1, <1>2, <1>3 DEF From

\* Promotions, appends, failures and reloads keep track of the origins.
LEMMA OriginStep == TypeInv /\ OriginInv /\ [Next]_vars => OriginInv'
<1> SUFFICES ASSUME TypeInv, OriginInv, [Next]_vars PROVE OriginInv'
  OBVIOUS
<1>t. /\ replay \in ReplaySources /\ replay.exchanges \in Seq(Exchanges)
      /\ Len(replay.exchanges) \in Nat /\ medium \in Seq(Exchanges)
  BY TypeSplit DEF SharedType, ReplaySources
<1>e. \A i \in 1..Len(replay.exchanges) : replay.exchanges[i] \in Exchanges
  BY <1>t
<1>c. ~Restart => config' = config
  BY HarnessSteps, OthersStay DEF Others
<1>s. Len(EmptySource.exchanges) = 0
  BY EmptyFacts
<1>k. ASSUME ~Restart, NEW i \in 1..Len(replay.exchanges), replay'.exchanges[i] = replay.exchanges[i]
      PROVE  From(replay.exchanges[i])'
  <2>1. config.storage
    BY <1>k, <1>s DEF OriginInv
  <2>2. PICK x \in Exchanges : x = replay.exchanges[i]
    BY <1>e, <1>k
  <2>3. From(x)
    BY <2>2 DEF OriginInv
  <2>4. From(x)'
    BY <1>k, <2>1, <2>3, OriginKept
  <2> QED BY <1>k, <2>2, <2>4 DEF From
<1>1. CASE ~Restart /\ replay' = replay
  <2>1. \A i \in 1..Len(replay'.exchanges) : From(replay.exchanges[i])'
    BY <1>1, <1>k
  <2> QED BY <1>1, <1>c, <2>1 DEF OriginInv
<1>2. ASSUME ~Restart, replay' # replay PROVE OriginInv'
  <2>1. PICK r \in Requests : /\ Promote(r) /\ Promoted(r) /\ Exchange(r) \in Exchanges
                              /\ replay' = Insert(replay, Exchange(r))
    BY <1>2, ReplaySteps
  <2>2. config.storage /\ config' = config
    BY <1>2, <1>c, <2>1 DEF Promoted
  <2> DEFINE n == Len(replay.exchanges)
  <2>3. /\ Len(replay'.exchanges) = n + 1
        /\ \A i \in 1..n : replay'.exchanges[i] = replay.exchanges[i]
        /\ replay'.exchanges[n + 1] = Exchange(r)
    BY <1>t, <1>2, <2>1, InsertSpec
  <2>4. pc'[r] = "record" /\ Exchange(r)' = Exchange(r) /\ Exchange(r).by = r
    <3>1. pc'[r] = "record" /\ original'[r] = original[r] /\ out'[r] = out[r]
      BY <2>1, TypeSplit DEF Promote, RequestType
    <3> QED BY <3>1, ExchangeKept DEF Exchange
  <2>5. ASSUME NEW i \in 1..Len(replay'.exchanges) PROVE From(replay.exchanges[i])'
    <3>1. CASE i \in 1..n
      BY <1>2, <1>k, <2>3, <3>1
    <3>2. CASE i = n + 1
      <4>1. replay'.exchanges[i].by = r /\ replay'.exchanges[i] = Exchange(r)'
        BY <2>3, <2>4, <3>2
      <4>2. pc'[replay'.exchanges[i].by] = "record"
            /\ replay'.exchanges[i] = Exchange(replay.exchanges[i].by)'
        BY <2>4, <4>1
      <4> QED BY <4>2 DEF From
    <3> QED BY <1>t, <2>3, <3>1, <3>2
  <2> QED BY <2>2, <2>5 DEF OriginInv
<1>3. CASE Restart
  <2>1. CASE ~config'.storage
    BY <1>3, <1>s, <2>1 DEF Restart, OriginInv
  <2>2. CASE config'.storage
    <3>1. replay'.exchanges = medium /\ medium' = medium
      BY <1>3, <2>2 DEF Restart, FromStorage
    <3>2. \A i \in 1..Len(medium') : medium'[i] \in Range(medium')
      BY <1>t, <3>1 DEF Range
    <3> QED BY <2>2, <3>1, <3>2 DEF OriginInv, From
  <2> QED BY <2>1, <2>2
<1> QED BY <1>1, <1>2, <1>3

\* A restart with storage loses no key that could be replayed, unless its exchange
\* was rejected or cut short: the medium has it, and build_index finds it there.
THEOREM ProxyReloadKeepsKeys == Spec => ReloadKeepsKeys
<1>1. Init => OriginInv
  BY EmptyFacts DEF Init, OriginInv
<1>2. Init => IndexSound
  BY EmptyFacts DEF Init, IndexSound
<1>3. TypeInv /\ IndexSound /\ OriginInv /\ [Next]_vars =>
        [restarts' # restarts /\ config.storage /\ config'.storage =>
            \A k \in Keys :
                /\ Hit(replay, k)
                /\ replay.exchanges[replay.index[k]].by \notin rejected
                => Hit(replay', k)]_vars
  <2> SUFFICES ASSUME TypeInv, IndexSound, OriginInv, [Next]_vars, restarts' # restarts,
                      config.storage, config'.storage, NEW k \in Keys, Hit(replay, k),
                      replay.exchanges[replay.index[k]].by \notin rejected
               PROVE  Hit(replay', k)
    OBVIOUS
  <2> DEFINE x == replay.exchanges[replay.index[k]]
  <2>1. Restart
    BY HarnessSteps, OthersStay DEF Others
  <2>2. /\ x \in Exchanges /\ replay.index[k] \in 1..Len(replay.exchanges) /\ x.by \in Requests
        /\ medium \in Seq(Exchanges)
    BY HitType, TypeSplit DEF Exchanges, SharedType
  <2>3. x.key = k /\ IsResponse(x.outcome)
    BY <2>2 DEF IndexSound, Hit
  <2>4. pc[x.by] # "record"
    BY <2>1, <2>2 DEF Restart, Ended
  <2>5. From(x) /\ x.by \notin rejected
    BY <2>2 DEF OriginInv
  <2> HIDE DEF x
  <2>6. x \in Range(medium)
    BY <2>4, <2>5 DEF From
  <2>7. PICK i \in 1..Len(medium) : medium[i] = x
    BY <2>2, <2>6 DEF Range
  <2>8. i \in Responses(medium, Len(medium), k)
    BY <2>3, <2>7 DEF Responses
  <2>9. \A j \in 1..Len(medium) : medium[j].key \in Keys
    <3>1. \A j \in 1..Len(medium) : medium[j] \in Exchanges
      BY <2>2
    <3> QED BY <3>1 DEF Exchanges
  <2>10. FromStorage(medium).index[k] # 0
    BY <2>2, <2>8, <2>9, FirstOnMediumWins DEF FindsFirst, FromStorage
  <2>11. replay' = FromStorage(medium)
    BY <2>1 DEF Restart
  <2> QED BY <2>10, <2>11, LoadedSound
<1> QED BY TypeInit, TypeStep, IndexStep, OriginStep, <1>1, <1>2, <1>3, PTL DEF Spec, ReloadKeepsKeys
============================================================================
