--------------------------- MODULE ControlProofs ----------------------------
(***************************************************************************)
(* Proofs about module Control, for any builder calls, command lines,      *)
(* requests and upstreams.                                                 *)
(***************************************************************************)
EXTENDS Control, Induction, FiniteSetTheorems, SequenceTheorems

----------------------------------------------------------------------------
\* Commands keep to their scope.

\* While ClearStubs is at work the upstreams it has passed have no stub, and its
\* sender has no answer. The stub lists and pause flags are those of the registry.
ScopeInv ==
    /\ DOMAIN served = Requests
    /\ phase = "running" => DOMAIN stubs = Names /\ DOMAIN paused = Names
    /\ dispatch # Idle =>
         /\ phase = "running"
         /\ answer = "none"
         /\ dispatch \in [line : WireLines, left : SUBSET Names]
         /\ dispatch.line.type = "ClearStubs" =>
              \A n \in Scope(dispatch.line.upstream) \ dispatch.left : stubs[n] = <<>>

\* A request that is served is seen to be.
LEMMA FinishShows ==
    ASSUME ScopeInv, NEW r \in Requests, served[r] = Unserved,
           NEW source \in {"Stub", "Snapshot", "ReplayMiss", "Upstream"}, NEW kind, NEW response,
           Finish(r, source, kind, response)
    PROVE  served' # served /\ DOMAIN served' = Requests
<1>1. PICK x : x.source = source /\ served' = [served EXCEPT ![r] = x]
  <2> DEFINE x == [source |-> source, kind |-> kind, response |-> IntoHyper(response)]
  <2>1. x.source = source /\ served' = [served EXCEPT ![r] = x]
    BY DEF Finish
  <2> QED BY <2>1
<1>2. DOMAIN served = Requests
  BY DEF ScopeInv
<1>3. served'[r] = x /\ DOMAIN served' = Requests
  BY <1>1, <1>2
<1>4. served[r].source = "none"
  BY DEF Unserved
<1> QED BY <1>1, <1>3, <1>4

\* What serving a request does to the rest: it takes a stub only where there is one,
\* and leaves commands and pause flags alone.
LEMMA Serving ==
    ASSUME ScopeInv, NEW r \in Requests,
           ServeStub(r) \/ ServeSnapshot(r) \/ ServeMiss(r) \/ Forward(r)
    PROVE  /\ served' # served /\ DOMAIN served' = Requests
           /\ UNCHANGED <<phase, registry, paused, dispatch, answer>>
           /\ phase = "running"
           /\ DOMAIN stubs' = DOMAIN stubs
           /\ \A n \in Names : stubs[n] = <<>> => stubs'[n] = <<>>
<1>1. /\ phase = "running" /\ TargetOf[r] \in Names /\ served[r] = Unserved
      /\ UNCHANGED <<phase, registry, paused, dispatch, answer>>
  BY DEF ServeStub, ServeSnapshot, ServeMiss, Forward, Arrives, commandVars
<1>2. served' # served /\ DOMAIN served' = Requests
  <2>1. CASE ServeStub(r)
    BY <1>1, <2>1, FinishShows DEF ServeStub
  <2>2. CASE ServeSnapshot(r)
    BY <1>1, <2>2, FinishShows DEF ServeSnapshot
  <2>3. CASE ServeMiss(r)
    BY <1>1, <2>3, FinishShows DEF ServeMiss
  <2>4. CASE Forward(r)
    BY <1>1, <2>4, FinishShows DEF Forward
  <2> QED BY <2>1, <2>2, <2>3, <2>4
<1>3. DOMAIN stubs = Names
  BY <1>1 DEF ScopeInv
<1>4. CASE ServeStub(r)
  <2> DEFINE t == TargetOf[r]
  <2>1. PICK x : stubs' = [stubs EXCEPT ![t] = x]
    BY <1>4 DEF ServeStub
  <2>2. stubs[t] # <<>>
    <3>1. FirstMatch(<<>>, r) = 0
      BY DEF FirstMatch
    <3> QED BY <1>4, <3>1 DEF ServeStub, StubFor
  <2>3. \A n \in Names : stubs[n] = <<>> => stubs'[n] = <<>>
    BY <1>3, <2>1, <2>2
  <2> QED BY <1>1, <1>2, <2>1, <2>3
<1>5. CASE ServeSnapshot(r) \/ ServeMiss(r) \/ Forward(r)
  <2>1. stubs' = stubs
    BY <1>5 DEF ServeSnapshot, ServeMiss, Forward
  <2> QED BY <1>1, <1>2, <2>1
<1> QED BY <1>4, <1>5

\* A Stub without a name is for nobody when there are several upstreams.
LEMMA ResolveFacts ==
    ASSUME NEW name, NEW n \in Resolve(name)
    PROVE  name \in {Any, n} /\ (name = Any => Names = {n})
BY DEF Resolve

\* Before run() no command is at work.
LEMMA ScopeInit == Init => ScopeInv
BY DEF Init, ScopeInv

\* A step that is not one of a request: what the command at work may do.
LEMMA ScopeStep == ScopeInv /\ [Next]_vars => ScopeInv'
<1> SUFFICES ASSUME ScopeInv, [Next]_vars PROVE ScopeInv'
  OBVIOUS
<1>0. CASE UNCHANGED vars
  BY <1>0 DEF ScopeInv, Names, Scope, vars, clusterVars, commandVars
<1>1. CASE \E c \in BuilderCalls : Configure(c)
  BY <1>1 DEF ScopeInv, Configure, Names, Scope, clusterVars, commandVars
<1>2. CASE Run
  <2>1. /\ phase = "building" /\ phase' \in {"running", "refused"}
        /\ UNCHANGED <<served, dispatch, answer>>
    BY <1>2 DEF Run, commandVars
  <2>2. dispatch = Idle
    BY <2>1 DEF ScopeInv
  <2>3. phase' = "running" => DOMAIN stubs' = DOMAIN registry' /\ DOMAIN paused' = DOMAIN registry'
    BY <1>2 DEF Run
  <2> QED BY <2>1, <2>2, <2>3 DEF ScopeInv, Names
<1>3. ASSUME NEW line \in WireLines, HandleLine(line) PROVE ScopeInv'
  <2>1. UNCHANGED <<phase, registry, stubs, paused, served>> /\ phase = "running" /\ dispatch = Idle
    BY <1>3 DEF HandleLine, clusterVars
  <2>2. \/ dispatch' = Idle
        \/ dispatch' = [line |-> line, left |-> Names] /\ answer' = "none"
    BY <1>3, <2>1 DEF HandleLine
  <2> QED BY <2>1, <2>2 DEF ScopeInv, Names, Scope
<1>4. CASE DispatchStub
  <2>1. dispatch' = Idle /\ DOMAIN stubs' = Names /\ UNCHANGED <<phase, registry, paused, served>>
    BY <1>4 DEF DispatchStub, Reply
  <2> QED BY <2>1 DEF ScopeInv, Names
<1>5. CASE ClearNext
  <2>1. /\ dispatch # Idle /\ dispatch.line.type = "ClearStubs"
        /\ UNCHANGED <<phase, registry, paused, served, answer>>
    BY <1>5 DEF ClearNext, Dispatching
  <2>2. PICK n \in Names : /\ stubs' = [stubs EXCEPT ![n] = <<>>]
                           /\ dispatch' = [dispatch EXCEPT !.left = @ \ {n}]
    BY <1>5 DEF ClearNext, Scope
  <2>3. /\ phase = "running" /\ answer = "none" /\ DOMAIN stubs = Names
        /\ dispatch \in [line : WireLines, left : SUBSET Names]
        /\ \A k \in Scope(dispatch.line.upstream) \ dispatch.left : stubs[k] = <<>>
    BY <2>1 DEF ScopeInv
  <2>4. /\ dispatch' \in [line : WireLines, left : SUBSET Names]
        /\ dispatch'.line = dispatch.line /\ dispatch'.left = dispatch.left \ {n}
    BY <2>2, <2>3
  <2>5. Names' = Names /\ Scope(dispatch.line.upstream)' = Scope(dispatch'.line.upstream)
    BY <2>1, <2>4 DEF Names, Scope
  <2>6. \A k \in Scope(dispatch.line.upstream) \ dispatch'.left : stubs'[k] = <<>>
    <3>1. Scope(dispatch.line.upstream) \subseteq Names
      BY DEF Scope
    <3> QED BY <2>2, <2>3, <2>4, <3>1
  <2>7. Scope(dispatch.line.upstream)' = Scope(dispatch.line.upstream)
    BY <2>1, <2>4 DEF Names, Scope
  <2> QED BY <2>1, <2>2, <2>3, <2>4, <2>5, <2>6, <2>7 DEF ScopeInv
<1>6. CASE ClearDone \/ DispatchQuery
  <2>1. dispatch' = Idle /\ UNCHANGED <<phase, registry, stubs, paused, served>>
    BY <1>6 DEF ClearDone, DispatchQuery, Reply, clusterVars
  <2> QED BY <2>1 DEF ScopeInv, Names
<1>7. CASE DispatchPause
  <2>1. dispatch' = Idle /\ DOMAIN paused' = Names /\ UNCHANGED <<phase, registry, stubs, served>>
    BY <1>7 DEF DispatchPause, Reply
  <2> QED BY <2>1 DEF ScopeInv, Names
<1>8. CASE DispatchClearRecordings
  <2>1. dispatch' = Idle /\ UNCHANGED <<phase, registry, stubs, paused, served>>
    BY <1>8 DEF DispatchClearRecordings, Reply
  <2> QED BY <2>1 DEF ScopeInv, Names
<1>9. ASSUME NEW r \in Requests, ServeStub(r) \/ ServeSnapshot(r) \/ ServeMiss(r) \/ Forward(r)
      PROVE  ScopeInv'
  <2>1. /\ DOMAIN served' = Requests /\ UNCHANGED <<phase, registry, paused, dispatch, answer>>
        /\ DOMAIN stubs' = DOMAIN stubs
        /\ \A n \in Names : stubs[n] = <<>> => stubs'[n] = <<>>
    BY <1>9, Serving
  <2>2. Names' = Names /\ Scope(dispatch.line.upstream)' = Scope(dispatch.line.upstream)
    BY <2>1 DEF Names, Scope
  <2>3. Scope(dispatch.line.upstream) \subseteq Names
    BY DEF Scope
  <2> QED BY <2>1, <2>2, <2>3 DEF ScopeInv
<1> QED BY <1>0, <1>1, <1>2, <1>3, <1>4, <1>5, <1>6, <1>7, <1>8, <1>9 DEF Next

\* Commands change stubs and pause flags only on the upstreams they are for, and
\* ClearStubs, with requests served between its locks, leaves no stub behind: for any
\* upstreams, command lines and requests.
THEOREM ControlCommandsKeepToScope == Spec => CommandsKeepToScope
<1> DEFINE A == phase = "running" /\ served' = served =>
        /\ \A n \in Names :
             stubs'[n] # stubs[n] \/ paused'[n] # paused[n] =>
                /\ dispatch # Idle
                /\ dispatch.line.upstream \in {Any, n}
                /\ dispatch.line.type = "Stub" /\ dispatch.line.upstream = Any
                     => Names = {n}
        /\ Dispatching("ClearStubs") /\ answer' = "Ok" =>
             \A n \in Scope(dispatch.line.upstream) : stubs'[n] = <<>>
<1>1. ScopeInv /\ [Next]_vars => [A]_vars
  <2> SUFFICES ASSUME ScopeInv, Next, phase = "running", served' = served
               PROVE  A
    OBVIOUS
  <2>1. ASSUME NEW c \in BuilderCalls, Configure(c) PROVE A
    BY <2>1 DEF Configure
  <2>2. CASE Run
    BY <2>2 DEF Run
  <2>3. ASSUME NEW line \in WireLines, HandleLine(line) PROVE A
    BY <2>3 DEF HandleLine, clusterVars, Dispatching
  <2>4. CASE DispatchStub
    <3> DEFINE name == dispatch.line.upstream
    <3>0. stubs' = [n \in Names |->
                      IF n \in Resolve(name) THEN Append(stubs[n], StubOf(dispatch.line))
                                            ELSE stubs[n]]
      BY <2>4 DEF DispatchStub
    <3>1. /\ dispatch # Idle /\ dispatch.line.type = "Stub" /\ paused' = paused
      BY <2>4 DEF DispatchStub, Dispatching
    <3> HIDE DEF name
    <3>r. ASSUME NEW n \in Names, n \notin Resolve(name) PROVE stubs'[n] = stubs[n]
      BY <3>0, <3>r
    <3> USE DEF name
    <3>2. ASSUME NEW n \in Names, n \in Resolve(name)
          PROVE  name \in {Any, n} /\ (name = Any => Names = {n})
      BY <3>2, ResolveFacts
    <3> QED BY <3>1, <3>2, <3>r DEF Dispatching
  <2>5. CASE ClearNext
    <3>1. /\ dispatch # Idle /\ dispatch.line.type = "ClearStubs"
          /\ UNCHANGED <<paused, answer>>
      BY <2>5 DEF ClearNext, Dispatching
    <3>2. PICK n \in Scope(dispatch.line.upstream) : stubs' = [stubs EXCEPT ![n] = <<>>]
      BY <2>5 DEF ClearNext
    <3>3. answer = "none" /\ DOMAIN stubs = Names
      BY <3>1 DEF ScopeInv
    <3>4. \A k \in Names : stubs'[k] # stubs[k] => k = n
      BY <3>2, <3>3
    <3> QED BY <3>1, <3>2, <3>3, <3>4 DEF Scope
  <2>6. CASE ClearDone
    <3>1. /\ UNCHANGED <<stubs, paused>> /\ dispatch # Idle /\ dispatch.line.type = "ClearStubs"
          /\ Scope(dispatch.line.upstream) \cap dispatch.left = {}
      BY <2>6 DEF ClearDone, Dispatching, clusterVars
    <3>2. \A n \in Scope(dispatch.line.upstream) \ dispatch.left : stubs[n] = <<>>
      BY <3>1 DEF ScopeInv
    <3> QED BY <3>1, <3>2
  <2>7. CASE DispatchPause
    <3>1. /\ dispatch # Idle /\ dispatch.line.type \in {"Pause", "Resume"} /\ stubs' = stubs
          /\ \A n \in Names : paused'[n] # paused[n] => n \in Scope(dispatch.line.upstream)
      BY <2>7 DEF DispatchPause, Dispatching
    <3> QED BY <3>1 DEF Scope, Dispatching
  <2>8. CASE DispatchQuery \/ DispatchClearRecordings
    BY <2>8 DEF DispatchQuery, DispatchClearRecordings, Dispatching, clusterVars
  <2>9. ASSUME NEW r \in Requests, ServeStub(r) \/ ServeSnapshot(r) \/ ServeMiss(r) \/ Forward(r)
        PROVE  A
    BY <2>9, Serving
  <2> QED BY <2>1, <2>2, <2>3, <2>4, <2>5, <2>6, <2>7, <2>8, <2>9 DEF Next
<1> QED BY <1>1, ScopeInit, ScopeStep, PTL DEF Spec, CommandsKeepToScope

----------------------------------------------------------------------------
\* The builder builds what it was asked to.

\* The last of some positions.
LEMMA LastOfFacts ==
    ASSUME NEW n \in Nat, NEW T \in SUBSET (1..n)
    PROVE  LastOf(T) \in 0..n /\ (T # {} => LastOf(T) \in T)
<1>1. CASE T = {}
  BY <1>1 DEF LastOf
<1>2. CASE T # {}
  <2>1. \E i \in T : \A k \in T : k <= i
    BY <1>2, GreatestElement
  <2>2. LastOf(T) \in T
    BY <1>2, <2>1 DEF LastOf
  <2>3. \A k \in T : k \in 0..n
    OBVIOUS
  <2> QED BY <2>2, <2>3
<1> QED BY <1>1, <1>2

\* The last of a set of calls and the newest call is the newest call.
LEMMA LastOfAdded ==
    ASSUME NEW n \in Nat, NEW T \in SUBSET (1..n)
    PROVE  LastOf(T \cup {n + 1}) = n + 1
<1> DEFINE U == T \cup {n + 1}
<1>1. \A k \in U : k \in Nat /\ k <= n + 1
  OBVIOUS
<1>2. n + 1 \in U /\ U # {}
  OBVIOUS
<1> HIDE DEF U
<1>3. LastOf(U) \in U /\ \A k \in U : k <= LastOf(U)
  BY <1>1, <1>2 DEF LastOf
<1>4. LastOf(U) = n + 1
  BY <1>1, <1>2, <1>3
<1> QED BY <1>4 DEF U

\* What another call on the builder changes in the history.
LEMMA CallsGrow ==
    ASSUME calls \in Seq(BuilderCalls), NEW c \in BuilderCalls, calls' = Append(calls, c)
    PROVE  /\ calls' \in Seq(BuilderCalls) /\ Len(calls') = Len(calls) + 1
           /\ Len(calls) \in Nat
           /\ \A i \in 1..Len(calls) : calls'[i] = calls[i]
           /\ calls'[Len(calls) + 1] = c
OBVIOUS

\* A new call leaves the calls before every earlier position as they were.
LEMMA BeforeGrows ==
    ASSUME calls \in Seq(BuilderCalls), NEW c \in BuilderCalls, calls' = Append(calls, c),
           NEW setters
    PROVE  /\ \A j \in 1..(Len(calls) + 1) : Before(j, setters)' = Before(j, setters)
           /\ Before(Len(calls) + 1, setters)' =
                Before(Len(calls) + 1, setters)
                  \cup (IF c.call \in setters THEN {Len(calls) + 1} ELSE {})
<1> DEFINE n == Len(calls)
<1>1. /\ Len(calls') = n + 1 /\ n \in Nat
      /\ \A i \in 1..n : calls'[i] = calls[i]
      /\ calls'[n + 1] = c
  BY CallsGrow
<1> HIDE DEF n
<1>2. ASSUME NEW j \in 1..(n + 1) PROVE Before(j, setters)' = Before(j, setters)
  <2>1. \A i \in 1..(j - 1) : i \in 1..n
    BY <1>1
  <2> QED BY <1>1, <2>1 DEF Before
<1>3. Before(Len(calls) + 1, setters)' = {i \in 1..(n + 1) : calls'[i].call \in setters}
  BY <1>1 DEF Before
<1>4. Before(Len(calls) + 1, setters) = {i \in 1..n : calls[i].call \in setters}
  BY <1>1 DEF Before, n
<1>5. Before(Len(calls) + 1, setters)' =
        Before(Len(calls) + 1, setters) \cup (IF c.call \in setters THEN {n + 1} ELSE {})
  BY <1>1, <1>3, <1>4
<1> QED BY <1>2, <1>5 DEF n

\* The settings in force at a position stay what they are when more calls follow.
LEMMA AskedStays ==
    ASSUME calls \in Seq(BuilderCalls), NEW c \in BuilderCalls, calls' = Append(calls, c)
    PROVE  /\ \A j \in 1..(Len(calls) + 1) :
                DefaultAsked(j)' = DefaultAsked(j) /\ HandlerAsked(j)' = HandlerAsked(j)
           /\ \A j \in 1..Len(calls) : ModeAsked(j)' = ModeAsked(j)
<1>1. Len(calls) \in Nat /\ \A i \in 1..Len(calls) : calls'[i] = calls[i]
  BY CallsGrow
<1>2. ASSUME NEW j \in 1..(Len(calls) + 1), NEW setters
      PROVE  /\ Before(j, setters)' = Before(j, setters)
             /\ LastOf(Before(j, setters)) \in 0..Len(calls)
  <2>1. j - 1 \in Nat /\ j - 1 <= Len(calls)
    BY <1>1
  <2>2. Before(j, setters) \in SUBSET (1..(j - 1))
    BY DEF Before
  <2>3. LastOf(Before(j, setters)) \in 0..(j - 1)
    BY <2>1, <2>2, LastOfFacts
  <2>4. Before(j, setters)' = Before(j, setters)
    BY BeforeGrows
  <2> QED BY <1>1, <2>1, <2>3, <2>4
<1>3. ASSUME NEW j \in 1..(Len(calls) + 1)
      PROVE  DefaultAsked(j)' = DefaultAsked(j) /\ HandlerAsked(j)' = HandlerAsked(j)
  <2>1. DefaultAsked(j)' = DefaultAsked(j)
    <3>0. /\ Before(j, {"default_mode"})' = Before(j, {"default_mode"})
          /\ LastOf(Before(j, {"default_mode"})) \in 0..Len(calls)
      BY <1>2
    <3>1. PICK i \in 0..Len(calls) : /\ i = LastOf(Before(j, {"default_mode"}))
                                     /\ i = LastOf(Before(j, {"default_mode"}))'
      BY <3>0 DEF LastOf
    <3> QED BY <1>1, <3>1 DEF DefaultAsked
  <2>2. HandlerAsked(j)' = HandlerAsked(j)
    <3>0. /\ Before(j, {"on_replay_miss"})' = Before(j, {"on_replay_miss"})
          /\ LastOf(Before(j, {"on_replay_miss"})) \in 0..Len(calls)
      BY <1>2
    <3>1. PICK i \in 0..Len(calls) : /\ i = LastOf(Before(j, {"on_replay_miss"}))
                                     /\ i = LastOf(Before(j, {"on_replay_miss"}))'
      BY <3>0 DEF LastOf
    <3> QED BY <1>1, <3>1 DEF HandlerAsked
  <2> QED BY <2>1, <2>2
<1>4. ASSUME NEW j \in 1..Len(calls) PROVE ModeAsked(j)' = ModeAsked(j)
  <2>1. j \in 1..(Len(calls) + 1)
    BY <1>1
  <2> QED BY <1>1, <1>3, <2>1 DEF ModeAsked
<1> QED BY <1>3, <1>4

\* The settings after another call.
LEMMA AskedNow ==
    ASSUME calls \in Seq(BuilderCalls), NEW c \in BuilderCalls, calls' = Append(calls, c)
    PROVE  /\ DefaultAsked(Len(calls) + 1)' =
                IF c.call = "default_mode" THEN c.mode ELSE DefaultAsked(Len(calls) + 1)
           /\ HandlerAsked(Len(calls) + 1)' =
                IF c.call = "on_replay_miss" THEN c.handler ELSE HandlerAsked(Len(calls) + 1)
           /\ RecordingAsked' = IF c.call = "recording" THEN c.cfg
                                ELSE IF c.call = "default_mode" THEN RecordingOf(c.mode)
                                ELSE RecordingAsked
<1>1. /\ Len(calls) \in Nat /\ \A i \in 1..Len(calls) : calls'[i] = calls[i]
      /\ calls'[Len(calls) + 1] = c
  BY CallsGrow
<1>2. PICK n \in Nat : n = Len(calls)
  BY <1>1
<1>3. ASSUME NEW setters, c.call \in setters
      PROVE  LastOf(Before(Len(calls) + 1, setters))' = n + 1
  <2>1. Before(Len(calls) + 1, setters) \in SUBSET (1..n)
    BY <1>2 DEF Before
  <2>2. Before(Len(calls) + 1, setters)' = Before(Len(calls) + 1, setters) \cup {n + 1}
    BY <1>2, <1>3, BeforeGrows
  <2>3. LastOf(Before(Len(calls) + 1, setters) \cup {n + 1}) = n + 1
    BY <2>1, LastOfAdded
  <2> QED BY <2>2, <2>3 DEF LastOf
<1>4. ASSUME NEW setters, c.call \notin setters
      PROVE  \E i \in 0..n : /\ i = LastOf(Before(Len(calls) + 1, setters))
                            /\ i = LastOf(Before(Len(calls) + 1, setters))'
  <2>1. Before(Len(calls) + 1, setters) \in SUBSET (1..n)
    BY <1>2 DEF Before
  <2>2. Before(Len(calls) + 1, setters)' = Before(Len(calls) + 1, setters)
    BY <1>2, <1>4, BeforeGrows
  <2>3. LastOf(Before(Len(calls) + 1, setters)) \in 0..n
    BY <2>1, LastOfFacts
  <2> QED BY <2>2, <2>3 DEF LastOf
<1>5. /\ c.call = "default_mode" => DefaultAsked(Len(calls) + 1)' = c.mode
      /\ c.call # "default_mode" => DefaultAsked(Len(calls) + 1)' = DefaultAsked(Len(calls) + 1)
  <2>1. CASE c.call = "default_mode"
    <3>1. LastOf(Before(Len(calls) + 1, {"default_mode"}))' = n + 1
      BY <1>3, <2>1
    <3> QED BY <1>1, <1>2, <2>1, <3>1 DEF DefaultAsked
  <2>2. CASE c.call # "default_mode"
    <3>1. PICK i \in 0..n : /\ i = LastOf(Before(Len(calls) + 1, {"default_mode"}))
                            /\ i = LastOf(Before(Len(calls) + 1, {"default_mode"}))'
      BY <1>4, <2>2
    <3> QED BY <1>1, <1>2, <2>2, <3>1 DEF DefaultAsked
  <2> QED BY <2>1, <2>2
<1>6. /\ c.call = "on_replay_miss" => HandlerAsked(Len(calls) + 1)' = c.handler
      /\ c.call # "on_replay_miss" => HandlerAsked(Len(calls) + 1)' = HandlerAsked(Len(calls) + 1)
  <2>1. CASE c.call = "on_replay_miss"
    <3>1. LastOf(Before(Len(calls) + 1, {"on_replay_miss"}))' = n + 1
      BY <1>3, <2>1
    <3> QED BY <1>1, <1>2, <2>1, <3>1 DEF HandlerAsked
  <2>2. CASE c.call # "on_replay_miss"
    <3>1. PICK i \in 0..n : /\ i = LastOf(Before(Len(calls) + 1, {"on_replay_miss"}))
                            /\ i = LastOf(Before(Len(calls) + 1, {"on_replay_miss"}))'
      BY <1>4, <2>2
    <3> QED BY <1>1, <1>2, <2>2, <3>1 DEF HandlerAsked
  <2> QED BY <2>1, <2>2
<1>7. /\ c.call = "recording" => RecordingAsked' = c.cfg
      /\ c.call = "default_mode" => RecordingAsked' = RecordingOf(c.mode)
      /\ c.call \notin {"recording", "default_mode"} => RecordingAsked' = RecordingAsked
  <2>1. CASE c.call \in {"recording", "default_mode"}
    <3>1. LastOf(Before(Len(calls) + 1, {"recording", "default_mode"}))' = n + 1
      BY <1>3, <2>1
    <3> QED BY <1>1, <1>2, <2>1, <3>1 DEF RecordingAsked
  <2>2. CASE c.call \notin {"recording", "default_mode"}
    <3>1. PICK i \in 0..n : /\ i = LastOf(Before(Len(calls) + 1, {"recording", "default_mode"}))
                            /\ i = LastOf(Before(Len(calls) + 1, {"recording", "default_mode"}))'
      BY <1>4, <2>2
    <3> QED BY <1>1, <1>2, <2>2, <3>1 DEF RecordingAsked
  <2> QED BY <2>1, <2>2
<1> QED BY <1>5, <1>6, <1>7

\* The builder and the specifications of upstreams it keeps, for these calls.
Modes == {"Record", "Replay"} \cup {c.mode : c \in BuilderCalls}
Handlers == {503} \cup {c.handler : c \in BuilderCalls}
BaseCalls == {c \in BuilderCalls : c.call \in AddCalls \ {"add_stub"}}
RecordingCalls == {c \in BuilderCalls : c.call = "recording"}

UpstreamSpecs ==
    [name : {c.name : c \in BuilderCalls}, base : {StubTarget} \cup {c.base : c \in BaseCalls},
     middleware : Seq(STRING), storage : {NoStorage} \cup {c.storage : c \in BuilderCalls},
     mode : Modes, replay_miss_handler : Handlers]

Builders ==
    [recording : {DefaultRecording, DisabledRecording} \cup {c.cfg : c \in RecordingCalls},
     default_mode : Modes, upstreams : Seq(UpstreamSpecs), global_middleware : Seq(STRING),
     replay_miss_handler : Handlers]

\* The mode the upstream of an adding call c gets from builder b.
ModeFrom(b, c) ==
    CASE c.call = "add_upstream_with_mode" -> c.mode
      [] c.call = "add_stub"               -> "Replay"
      [] OTHER                             -> b.default_mode

\* What a call on the builder does to each of its fields.
LEMMA ApplyFacts ==
    ASSUME NEW b \in Builders, NEW c \in BuilderCalls
    PROVE  /\ Apply(b, c) \in Builders
           /\ Apply(b, c).recording = IF c.call = "recording" THEN c.cfg
                                      ELSE IF c.call = "default_mode" THEN RecordingOf(c.mode)
                                      ELSE b.recording
           /\ Apply(b, c).default_mode =
                IF c.call = "default_mode" THEN c.mode ELSE b.default_mode
           /\ Apply(b, c).replay_miss_handler =
                IF c.call = "on_replay_miss" THEN c.handler ELSE b.replay_miss_handler
           /\ Apply(b, c).global_middleware =
                IF c.call = "add_middleware" THEN Append(b.global_middleware, c.middleware)
                ELSE b.global_middleware
           /\ c.call \notin AddCalls => Apply(b, c).upstreams = b.upstreams
           /\ c.call \in AddCalls =>
                \E spec \in UpstreamSpecs :
                    /\ Apply(b, c).upstreams = Append(b.upstreams, spec)
                    /\ spec.name = c.name /\ spec.middleware = c.middleware
                    /\ spec.mode = ModeFrom(b, c)
                    /\ spec.replay_miss_handler = b.replay_miss_handler
<1>0. /\ c.call \in {"recording", "default_mode", "on_replay_miss", "add_middleware",
                     "add_upstream_with", "add_upstream_with_mode", "add_stub"}
      /\ c.call = "add_middleware" => c.middleware \in STRING
      /\ c.call \in AddCalls => c.middleware \in Seq(STRING)
  BY ControlAssumption DEF AddCalls
<1>1. CASE c.call = "recording"
  <2>1. Apply(b, c) = [b EXCEPT !.recording = c.cfg]
    BY <1>1 DEF Apply, Recording
  <2> QED BY <1>1, <2>1 DEF Builders, RecordingCalls, AddCalls
<1>2. CASE c.call = "default_mode"
  <2>1. Apply(b, c) = [b EXCEPT !.recording = RecordingOf(c.mode), !.default_mode = c.mode]
    BY <1>2 DEF Apply, DefaultMode
  <2>2. RecordingOf(c.mode) \in {DefaultRecording, DisabledRecording} /\ c.mode \in Modes
    BY DEF RecordingOf, Modes
  <2> QED BY <1>2, <2>1, <2>2 DEF Builders, AddCalls
<1>3. CASE c.call = "on_replay_miss"
  <2>1. Apply(b, c) = [b EXCEPT !.replay_miss_handler = c.handler]
    BY <1>3 DEF Apply, OnReplayMiss
  <2>2. c.handler \in Handlers
    BY DEF Handlers
  <2> QED BY <1>3, <2>1, <2>2 DEF Builders, AddCalls
<1>4. CASE c.call = "add_middleware"
  <2>1. Apply(b, c) = [b EXCEPT !.global_middleware = Append(@, c.middleware)]
    BY <1>4 DEF Apply, AddMiddleware
  <2>2. Append(b.global_middleware, c.middleware) \in Seq(STRING)
    BY <1>0, <1>4 DEF Builders
  <2> QED BY <1>4, <2>1, <2>2 DEF Builders, AddCalls
<1>5. CASE c.call \in AddCalls
  <2>1. PICK spec \in UpstreamSpecs :
           /\ Apply(b, c) = [b EXCEPT !.upstreams = Append(@, spec)]
           /\ spec.name = c.name /\ spec.middleware = c.middleware
           /\ spec.mode = ModeFrom(b, c)
           /\ spec.replay_miss_handler = b.replay_miss_handler
    <3> DEFINE Made(base, storage) ==
                 [name |-> c.name, base |-> base, middleware |-> c.middleware,
                  storage |-> storage, mode |-> ModeFrom(b, c),
                  replay_miss_handler |-> b.replay_miss_handler]
    <3>1. c.name \in {x.name : x \in BuilderCalls} /\ c.middleware \in Seq(STRING)
      BY <1>0, <1>5
    <3>2. ModeFrom(b, c) \in Modes /\ b.replay_miss_handler \in Handlers
      BY DEF ModeFrom, Modes, Builders
    <3>3. CASE c.call = "add_upstream_with"
      <4>0. c \in BaseCalls
        BY <3>3 DEF BaseCalls, AddCalls
      <4>1. Made(c.base, c.storage) \in UpstreamSpecs
        BY <3>1, <3>2, <4>0 DEF UpstreamSpecs
      <4>2. Apply(b, c) = [b EXCEPT !.upstreams = Append(@, Made(c.base, c.storage))]
        BY <3>3 DEF Apply, AddUpstream, Push, ModeFrom
      <4> QED BY <4>1, <4>2
    <3>4. CASE c.call = "add_upstream_with_mode"
      <4>0. c \in BaseCalls
        BY <3>4 DEF BaseCalls, AddCalls
      <4>1. Made(c.base, c.storage) \in UpstreamSpecs
        BY <3>1, <3>2, <4>0 DEF UpstreamSpecs
      <4>2. Apply(b, c) = [b EXCEPT !.upstreams = Append(@, Made(c.base, c.storage))]
        BY <3>4 DEF Apply, AddUpstreamWithMode, Push, ModeFrom
      <4> QED BY <4>1, <4>2
    <3>5. CASE c.call = "add_stub"
      <4>1. Made(StubTarget, NoStorage) \in UpstreamSpecs
        BY <3>1, <3>2 DEF UpstreamSpecs
      <4>2. Apply(b, c) = [b EXCEPT !.upstreams = Append(@, Made(StubTarget, NoStorage))]
        BY <3>5 DEF Apply, AddStubUpstream, Push, ModeFrom
      <4> QED BY <4>1, <4>2
    <3> QED BY <1>5, <3>3, <3>4, <3>5 DEF AddCalls
  <2>2. Append(b.upstreams, spec) \in Seq(UpstreamSpecs)
    BY DEF Builders
  <2>3. Apply(b, c) \in Builders /\ Apply(b, c).upstreams = Append(b.upstreams, spec)
    BY <2>1, <2>2 DEF Builders
  <2>4. /\ Apply(b, c).recording = b.recording /\ Apply(b, c).default_mode = b.default_mode
        /\ Apply(b, c).global_middleware = b.global_middleware
        /\ Apply(b, c).replay_miss_handler = b.replay_miss_handler
    BY <2>1 DEF Builders
  <2> QED BY <1>5, <2>1, <2>3, <2>4 DEF AddCalls
<1> QED BY <1>0, <1>1, <1>2, <1>3, <1>4, <1>5 DEF AddCalls

\* The global middlewares counted up to a position, after another call.
LEMMA GlobalsGrow ==
    ASSUME calls \in Seq(BuilderCalls), NEW c \in BuilderCalls, calls' = Append(calls, c)
    PROVE  /\ \A j \in 1..Len(calls) : Globals(j)' = Globals(j)
           /\ Globals(Len(calls)) \in Nat
           /\ Globals(Len(calls))' =
                Globals(Len(calls)) + (IF c.call = "add_middleware" THEN 1 ELSE 0)
<1> DEFINE S == {"add_middleware"}
<1>1. PICK n \in Nat : n = Len(calls)
  BY CallsGrow
<1>2. PICK T : T = Before(Len(calls) + 1, S)
  OBVIOUS
<1>3. T \in SUBSET (1..n)
  BY <1>1, <1>2 DEF Before
<1>4. IsFiniteSet(T) /\ n + 1 \notin T
  <2>1. IsFiniteSet(1..n)
    BY FS_Interval
  <2>2. IsFiniteSet(T)
    BY <1>3, <2>1, FS_Subset
  <2>3. n + 1 \notin 1..n
    OBVIOUS
  <2> QED BY <1>3, <2>2, <2>3
<1>5. Cardinality(T) \in Nat /\ Cardinality(T \cup {n + 1}) = Cardinality(T) + 1
  BY <1>4, FS_CardinalityType, FS_AddElement
<1>6. Globals(Len(calls)) = Cardinality(T)
  BY <1>2 DEF Globals
<1>7. Globals(Len(calls))' = Cardinality(T \cup (IF c.call \in S THEN {n + 1} ELSE {}))
  <2>1. Before(Len(calls) + 1, S)' = T \cup (IF c.call \in S THEN {n + 1} ELSE {})
    BY <1>1, <1>2, BeforeGrows
  <2> QED BY <2>1 DEF Globals
<1>8. ASSUME NEW j \in 1..Len(calls) PROVE Globals(j)' = Globals(j)
  <2>1. j + 1 \in 1..(Len(calls) + 1)
    BY <1>1
  <2>2. Before(j + 1, S)' = Before(j + 1, S)
    BY <2>1, BeforeGrows
  <2> QED BY <2>2 DEF Globals
<1>9. CASE c.call \in S
  BY <1>5, <1>6, <1>7, <1>8, <1>9
<1>10. CASE c.call \notin S
  <2>1. T \cup {} = T
    OBVIOUS
  <2> QED BY <1>5, <1>6, <1>7, <1>8, <1>10, <2>1
<1> QED BY <1>9, <1>10

\* The upstream of the adding call at position j is in the builder as asked.
Kept(j) ==
    \E i \in 1..Len(builder.upstreams) :
        /\ builder.upstreams[i].name = calls[j].name
        /\ builder.upstreams[i].mode = ModeAsked(j)
        /\ builder.upstreams[i].replay_miss_handler = HandlerAsked(j)
        /\ builder.upstreams[i].middleware = calls[j].middleware

\* The builder has what the calls so far asked for; run() gives each upstream its
\* runtime.
BuildInv ==
    /\ calls \in Seq(BuilderCalls)
    /\ builder \in Builders
    /\ builder.recording = RecordingAsked
    /\ builder.default_mode = DefaultAsked(Len(calls) + 1)
    /\ builder.replay_miss_handler = HandlerAsked(Len(calls) + 1)
    /\ Len(builder.global_middleware) = Globals(Len(calls))
    /\ \A j \in Before(Len(calls) + 1, {"add_middleware"}) :
         /\ Globals(j) \in 1..Len(builder.global_middleware)
         /\ builder.global_middleware[Globals(j)] = calls[j].middleware
    /\ \A j \in Before(Len(calls) + 1, AddCalls) : Kept(j)
    /\ phase = "running" =>
         \A i \in 1..Len(builder.upstreams) :
             registry[builder.upstreams[i].name] = Runtime(builder.upstreams[i])

\* The default builder is what no call asks for.
LEMMA BuildInit == Init => BuildInv
<1> SUFFICES ASSUME Init PROVE BuildInv
  OBVIOUS
<1>1. calls = <<>> /\ builder = NewBuilder /\ phase = "building"
  BY DEF Init
<1>2. calls \in Seq(BuilderCalls) /\ Len(calls) = 0
  BY <1>1
<1>3. \A setters : Before(Len(calls) + 1, setters) = {} /\ LastOf({}) = 0
  BY <1>2 DEF Before, LastOf
<1>4. builder \in Builders
  BY <1>1 DEF Builders, NewBuilder, Modes, Handlers
<1>5. /\ RecordingAsked = DefaultRecording /\ DefaultAsked(Len(calls) + 1) = "Record"
      /\ HandlerAsked(Len(calls) + 1) = 503
  BY <1>3 DEF RecordingAsked, DefaultAsked, HandlerAsked
<1>6. Globals(Len(calls)) = 0
  BY <1>3, FS_EmptySet DEF Globals
<1> QED BY <1>1, <1>2, <1>3, <1>4, <1>5, <1>6 DEF BuildInv, NewBuilder

\* A call on the builder.
LEMMA ConfigureKeeps ==
    ASSUME BuildInv, NEW c \in BuilderCalls, Configure(c)
    PROVE  BuildInv'
<1>0. /\ calls \in Seq(BuilderCalls) /\ builder \in Builders
      /\ calls' = Append(calls, c) /\ builder' = Apply(builder, c)
      /\ phase = "building" /\ phase' = phase
  BY DEF BuildInv, Configure
<1>1. PICK n \in Nat : n = Len(calls)
  BY <1>0
<1>2. /\ calls' \in Seq(BuilderCalls) /\ Len(calls') = n + 1
      /\ \A i \in 1..n : calls'[i] = calls[i]
      /\ calls'[n + 1] = c
  BY <1>0, <1>1, CallsGrow
<1>3. builder' \in Builders
  BY <1>0, ApplyFacts
<1>4. builder'.recording = RecordingAsked'
  BY <1>0, ApplyFacts, AskedNow DEF BuildInv
<1>5. /\ builder'.default_mode = DefaultAsked(Len(calls) + 1)'
      /\ builder'.replay_miss_handler = HandlerAsked(Len(calls) + 1)'
  BY <1>0, ApplyFacts, AskedNow DEF BuildInv
<1>6. /\ Len(builder'.global_middleware) = Globals(Len(calls))'
      /\ \A j \in Before(Len(calls) + 1, {"add_middleware"})' :
           /\ Globals(j)' \in 1..Len(builder'.global_middleware)
           /\ builder'.global_middleware[Globals(j)'] = calls'[j].middleware
  <2> DEFINE g == builder.global_middleware
             T == Before(Len(calls) + 1, {"add_middleware"})
  <2>1. /\ g \in Seq(STRING) /\ Len(g) = Globals(Len(calls)) /\ T \in SUBSET (1..n)
        /\ \A j \in T : Globals(j) \in 1..Len(g) /\ g[Globals(j)] = calls[j].middleware
    BY <1>0, <1>1 DEF BuildInv, Builders, Before
  <2>2. /\ \A j \in 1..n : Globals(j)' = Globals(j)
        /\ Globals(Len(calls))' =
             Globals(Len(calls)) + (IF c.call = "add_middleware" THEN 1 ELSE 0)
    BY <1>0, <1>1, GlobalsGrow
  <2>3. T' = T \cup (IF c.call = "add_middleware" THEN {n + 1} ELSE {})
    BY <1>0, <1>1, BeforeGrows
  <2>4. builder'.global_middleware =
          IF c.call = "add_middleware" THEN Append(g, c.middleware) ELSE g
    BY <1>0, ApplyFacts
  <2>5. CASE c.call # "add_middleware"
    <3> HIDE DEF g, T
    <3>1. builder'.global_middleware = g /\ T' = T /\ Globals(Len(calls))' = Len(g)
      BY <2>1, <2>2, <2>3, <2>4, <2>5
    <3>2. ASSUME NEW j \in T
          PROVE  Globals(j)' \in 1..Len(g) /\ g[Globals(j)'] = calls'[j].middleware
      <4>1. j \in 1..n
        BY <2>1
      <4> QED BY <1>2, <2>1, <2>2, <4>1
    <3> QED BY <3>1, <3>2 DEF T
  <2>6. CASE c.call = "add_middleware"
    <3>0. c.middleware \in STRING
      BY <2>6, ControlAssumption
    <3> HIDE DEF g, T
    <3>1. /\ builder'.global_middleware = Append(g, c.middleware) /\ T' = T \cup {n + 1}
          /\ Globals(Len(calls))' = Len(g) + 1
      BY <2>1, <2>2, <2>3, <2>4, <2>6
    <3>2. /\ Len(Append(g, c.middleware)) = Len(g) + 1 /\ Len(g) \in Nat
          /\ \A i \in 1..Len(g) : Append(g, c.middleware)[i] = g[i]
          /\ Append(g, c.middleware)[Len(g) + 1] = c.middleware
      BY <2>1, <3>0
    <3>3. ASSUME NEW j \in T
          PROVE  /\ Globals(j)' \in 1..(Len(g) + 1)
                 /\ Append(g, c.middleware)[Globals(j)'] = calls'[j].middleware
      <4>1. j \in 1..n
        BY <2>1
      <4>2. PICK k \in 1..Len(g) : k = Globals(j) /\ k = Globals(j)'
        BY <2>1, <2>2, <4>1
      <4>3. k \in 1..(Len(g) + 1) /\ Append(g, c.middleware)[k] = g[k]
        BY <3>2
      <4>4. g[k] = calls'[j].middleware
        BY <1>2, <2>1, <4>1, <4>2
      <4> QED BY <4>2, <4>3, <4>4
    <3>4. Globals(n + 1)' = Len(g) + 1
      <4>1. Globals(Len(calls))' = Globals(n + 1)'
        BY <1>2 DEF Globals, Before
      <4> QED BY <3>1, <4>1
    <3>5. /\ Globals(n + 1)' \in 1..(Len(g) + 1)
          /\ Append(g, c.middleware)[Globals(n + 1)'] = calls'[n + 1].middleware
      BY <1>2, <3>2, <3>4
    <3>6. ASSUME NEW j \in T'
          PROVE  /\ Globals(j)' \in 1..(Len(g) + 1)
                 /\ Append(g, c.middleware)[Globals(j)'] = calls'[j].middleware
      <4>1. CASE j \in T
        BY <3>3, <4>1
      <4>2. CASE j = n + 1
        BY <3>5, <4>2
      <4> QED BY <3>1, <4>1, <4>2
    <3> QED BY <3>1, <3>2, <3>6 DEF T
  <2> QED BY <2>5, <2>6
<1>7. \A j \in Before(Len(calls) + 1, AddCalls)' : Kept(j)'
  <2> DEFINE ups == builder.upstreams
             T == Before(Len(calls) + 1, AddCalls)
  <2>1. /\ ups \in Seq(UpstreamSpecs) /\ T \in SUBSET (1..n)
        /\ \A j \in T : Kept(j)
    BY <1>0, <1>1 DEF BuildInv, Builders, Before
  <2>2. T' = T \cup (IF c.call \in AddCalls THEN {n + 1} ELSE {})
    BY <1>0, <1>1, BeforeGrows
  <2>3. \A i \in 1..Len(ups) : i \in 1..Len(builder'.upstreams) /\ builder'.upstreams[i] = ups[i]
    <3>1. CASE c.call \notin AddCalls
      BY <1>0, <3>1, ApplyFacts
    <3>2. CASE c.call \in AddCalls
      <4>1. PICK spec \in UpstreamSpecs : builder'.upstreams = Append(ups, spec)
        BY <1>0, <3>2, ApplyFacts
      <4> QED BY <2>1, <4>1
    <3> QED BY <3>1, <3>2
  <2>4. ASSUME NEW j \in T PROVE Kept(j)'
    <3>1. j \in 1..n
      BY <2>1
    <3>2. /\ ModeAsked(j)' = ModeAsked(j) /\ HandlerAsked(j)' = HandlerAsked(j)
          /\ calls'[j] = calls[j]
      BY <1>0, <1>1, <1>2, <3>1, AskedStays
    <3>3. PICK i \in 1..Len(ups) :
             /\ ups[i].name = calls[j].name /\ ups[i].mode = ModeAsked(j)
             /\ ups[i].replay_miss_handler = HandlerAsked(j)
             /\ ups[i].middleware = calls[j].middleware
      BY <2>1 DEF Kept
    <3>4. i \in 1..Len(builder'.upstreams) /\ builder'.upstreams[i] = ups[i]
      BY <2>3
    <3> QED BY <3>2, <3>3, <3>4 DEF Kept
  <2>5. ASSUME c.call \in AddCalls PROVE Kept(n + 1)'
    <3>1. PICK spec \in UpstreamSpecs :
             /\ builder'.upstreams = Append(ups, spec)
             /\ spec.name = c.name /\ spec.middleware = c.middleware
             /\ spec.mode = ModeFrom(builder, c)
             /\ spec.replay_miss_handler = builder.replay_miss_handler
      BY <1>0, <2>5, ApplyFacts
    <3>2. PICK i \in 1..Len(builder'.upstreams) : builder'.upstreams[i] = spec
      <4>1. /\ Len(ups) + 1 \in 1..Len(Append(ups, spec)) /\ Append(ups, spec)[Len(ups) + 1] = spec
        BY <2>1
      <4> QED BY <3>1, <4>1
    <3>3. n + 1 \in 1..(Len(calls) + 1)
      BY <1>1
    <3>4. /\ HandlerAsked(n + 1)' = HandlerAsked(n + 1)
          /\ DefaultAsked(n + 1)' = DefaultAsked(n + 1)
      BY <1>0, <3>3, AskedStays
    <3>5. builder.replay_miss_handler = HandlerAsked(n + 1) /\ builder.default_mode = DefaultAsked(n + 1)
      BY <1>1 DEF BuildInv
    <3>6. ModeAsked(n + 1)' = ModeFrom(builder, c)
      BY <1>2, <3>4, <3>5 DEF ModeAsked, ModeFrom
    <3> QED BY <1>2, <3>1, <3>2, <3>4, <3>5, <3>6 DEF Kept
  <2> HIDE DEF T
  <2>6. ASSUME NEW j \in T' PROVE Kept(j)'
    BY <2>2, <2>4, <2>5, <2>6
  <2> QED BY <2>6 DEF T
<1> QED BY <1>0, <1>2, <1>3, <1>4, <1>5, <1>6, <1>7 DEF BuildInv

\* What was asked for and what the builder has are settled when neither changes.
LEMMA BuilderSteady ==
    ASSUME BuildInv, UNCHANGED <<builder, calls>>,
           phase' = "running" =>
             \A i \in 1..Len(builder.upstreams) :
                 registry'[builder.upstreams[i].name] = Runtime(builder.upstreams[i])
    PROVE  BuildInv'
<1>1. /\ RecordingAsked' = RecordingAsked
      /\ DefaultAsked(Len(calls) + 1)' = DefaultAsked(Len(calls) + 1)
      /\ HandlerAsked(Len(calls) + 1)' = HandlerAsked(Len(calls) + 1)
  BY DEF RecordingAsked, DefaultAsked, HandlerAsked, Before
<1>2. /\ \A setters : Before(Len(calls) + 1, setters)' = Before(Len(calls) + 1, setters)
      /\ Globals(Len(calls))' = Globals(Len(calls))
      /\ \A j : Globals(j)' = Globals(j)
  BY DEF Before, Globals
<1>3. \A j : Kept(j)' <=> Kept(j)
  BY DEF Kept, ModeAsked, DefaultAsked, HandlerAsked, Before
<1>4. \A spec : Runtime(spec)' = Runtime(spec)
  BY DEF Runtime
<1> QED BY <1>1, <1>2, <1>3, <1>4 DEF BuildInv

\* Every step keeps the builder to what was asked of it.
LEMMA BuildStep == BuildInv /\ [Next]_vars => BuildInv'
<1> SUFFICES ASSUME BuildInv, [Next]_vars PROVE BuildInv'
  OBVIOUS
<1>1. CASE UNCHANGED <<phase, builder, calls, registry>>
  BY <1>1, BuilderSteady DEF BuildInv
<1>2. ASSUME NEW c \in BuilderCalls, Configure(c) PROVE BuildInv'
  BY <1>2, ConfigureKeeps
<1>3. CASE Run
  <2> DEFINE names == {Specs[i].name : i \in DOMAIN Specs}
             of(n) == Specs[CHOOSE i \in DOMAIN Specs : Specs[i].name = n]
  <2>1. /\ UNCHANGED <<builder, calls>>
        /\ phase' = "running" => /\ NamesUnique(builder)
                                 /\ registry' = [n \in names |-> Runtime(of(n))]
    BY <1>3 DEF Run
  <2>2. Specs \in Seq(UpstreamSpecs) /\ Specs = builder.upstreams
    BY DEF BuildInv, Builders, Specs
  <2>3. ASSUME phase' = "running", NEW i \in 1..Len(Specs)
        PROVE  registry'[Specs[i].name] = Runtime(Specs[i])
    <3>1. i \in DOMAIN Specs
      BY <2>2
    <3>2. (CHOOSE k \in DOMAIN Specs : Specs[k].name = Specs[i].name) = i
      BY <2>1, <2>2, <2>3, <3>1 DEF NamesUnique
    <3>3. of(Specs[i].name) = Specs[i] /\ Specs[i].name \in names
      BY <3>1, <3>2
    <3> QED BY <2>1, <2>3, <3>3
  <2> QED BY <2>1, <2>2, <2>3, BuilderSteady
<1>4. ASSUME NEW line \in WireLines, HandleLine(line) PROVE UNCHANGED <<phase, builder, calls, registry>>
  BY <1>4 DEF HandleLine, clusterVars
<1>5. CASE DispatchStub \/ ClearNext \/ ClearDone \/ DispatchPause \/ DispatchQuery
           \/ DispatchClearRecordings
  <2>1. UNCHANGED <<phase, builder, calls, registry>>
    BY <1>5 DEF DispatchStub, ClearNext, ClearDone, DispatchPause, DispatchQuery,
                DispatchClearRecordings, clusterVars
  <2> QED BY <1>1, <2>1
<1>6. ASSUME NEW r \in Requests, ServeStub(r) \/ ServeSnapshot(r) \/ ServeMiss(r) \/ Forward(r)
      PROVE  UNCHANGED <<phase, builder, calls, registry>>
  BY <1>6 DEF ServeStub, ServeSnapshot, ServeMiss, Forward, Arrives
<1>7. CASE UNCHANGED vars
  BY <1>1, <1>7 DEF vars, clusterVars
<1> QED BY <1>1, <1>2, <1>3, <1>4, <1>5, <1>6, <1>7 DEF Next

\* Any sequence of calls on the builder means what its documentation says, for
\* every upstream and in every order of the setters.
THEOREM ControlBuiltAsAsked == Spec => []BuiltAsAsked
<1>1. ASSUME BuildInv PROVE BuiltAsAsked
  <2> SUFFICES ASSUME phase = "running", NEW j \in Before(Len(calls) + 1, AddCalls)
               PROVE  /\ builder.recording = RecordingAsked
                      /\ registry[calls[j].name].mode = ModeAsked(j)
                      /\ registry[calls[j].name].handler = HandlerAsked(j)
                      /\ ChainAsked(registry[calls[j].name].chain, calls[j].middleware)
    <3>1. builder.recording = RecordingAsked
      BY <1>1 DEF BuildInv
    <3> QED BY <3>1 DEF BuiltAsAsked
  <2>1. PICK i \in 1..Len(builder.upstreams) :
           /\ builder.upstreams[i].name = calls[j].name
           /\ builder.upstreams[i].mode = ModeAsked(j)
           /\ builder.upstreams[i].replay_miss_handler = HandlerAsked(j)
           /\ builder.upstreams[i].middleware = calls[j].middleware
    BY <1>1 DEF BuildInv, Kept
  <2>2. registry[calls[j].name] = Runtime(builder.upstreams[i])
    <3>1. \A k \in 1..Len(builder.upstreams) :
             registry[builder.upstreams[k].name] = Runtime(builder.upstreams[k])
      BY <1>1 DEF BuildInv
    <3> QED BY <2>1, <3>1
  <2> DEFINE g == builder.global_middleware
             own == calls[j].middleware
  <2>3. /\ registry[calls[j].name].mode = ModeAsked(j)
        /\ registry[calls[j].name].handler = HandlerAsked(j)
        /\ registry[calls[j].name].chain = g \o own
    <3>1. /\ Runtime(builder.upstreams[i]).mode = builder.upstreams[i].mode
          /\ Runtime(builder.upstreams[i]).handler = builder.upstreams[i].replay_miss_handler
          /\ Runtime(builder.upstreams[i]).chain = ChainOf(builder, builder.upstreams[i])
      BY DEF Runtime
    <3>2. ChainOf(builder, builder.upstreams[i]) = g \o own
      BY <2>1, Zenon DEF ChainOf
    <3> QED BY <2>1, <2>2, <3>1, <3>2
  <2>4. g \in Seq(STRING) /\ own \in Seq(STRING)
    <3>1. builder.upstreams \in Seq(UpstreamSpecs) /\ g \in Seq(STRING)
      BY <1>1 DEF BuildInv, Builders
    <3>2. builder.upstreams[i] \in UpstreamSpecs
      BY <3>1
    <3> QED BY <2>1, <3>1, <3>2 DEF UpstreamSpecs
  <2>5. /\ Len(g) = Globals(Len(calls))
        /\ \A k \in Before(Len(calls) + 1, {"add_middleware"}) :
             Globals(k) \in 1..Len(g) /\ g[Globals(k)] = calls[k].middleware
    BY <1>1 DEF BuildInv
  <2>6. ChainAsked(g \o own, own)
    <3> HIDE DEF g, own
    <3>1. /\ Len(g \o own) = Len(g) + Len(own)
          /\ \A k \in 1..Len(g) : (g \o own)[k] = g[k]
          /\ \A k \in 1..Len(own) : (g \o own)[Len(g) + k] = own[k]
      BY <2>4
    <3> QED BY <2>5, <3>1 DEF ChainAsked
  <2>7. builder.recording = RecordingAsked
    BY <1>1 DEF BuildInv
  <2> QED BY <2>3, <2>6, <2>7
<1> QED BY <1>1, BuildInit, BuildStep, PTL DEF Spec

----------------------------------------------------------------------------
\* URIs.

\* A text is taken apart where its query begins.
LEMMA SplitJoined ==
    ASSUME NEW p \in Seq(STRING), NEW q \in Seq(STRING),
           \A i \in 1..Len(p) : p[i] # "?", q # <<>> => q[1] = "?"
    PROVE  SplitQuery(p \o q) = [path |-> p, query |-> q]
<1> DEFINE text  == p \o q
           marks == {i \in 1..Len(text) : text[i] = "?"}
           end   == IF marks = {} THEN Len(text)
                    ELSE (CHOOSE i \in marks : \A j \in marks : i <= j) - 1
<1>1. /\ text \in Seq(STRING) /\ Len(text) = Len(p) + Len(q)
      /\ Len(p) \in Nat /\ Len(q) \in Nat
      /\ \A i \in 1..Len(p) : text[i] = p[i]
      /\ \A i \in 1..Len(q) : text[Len(p) + i] = q[i]
  OBVIOUS
<1> HIDE DEF text
<1>2. \A i \in marks : i \in Nat /\ i >= Len(p) + 1
  <2> SUFFICES ASSUME NEW i \in 1..Len(text), text[i] = "?", i <= Len(p) PROVE FALSE
    BY <1>1
  <2>1. i \in 1..Len(p)
    BY <1>1
  <2> QED BY <1>1, <2>1
<1>3. end = Len(p)
  <2>1. CASE q = <<>>
    <3>1. Len(q) = 0
      BY <2>1
    <3>2. marks = {}
      BY <1>1, <1>2, <3>1
    <3> QED BY <1>1, <3>1, <3>2
  <2>2. CASE q # <<>>
    <3>1. Len(q) >= 1
      BY <2>2
    <3>2. Len(p) + 1 \in marks
      BY <1>1, <2>2, <3>1
    <3> HIDE DEF marks
    <3>3. PICK m : m = CHOOSE i \in marks : \A j \in marks : i <= j
      OBVIOUS
    <3>4. m = Len(p) + 1
      BY <1>1, <1>2, <3>2, <3>3
    <3>5. end = m - 1
      BY <3>2, <3>3
    <3> HIDE DEF end
    <3> QED BY <1>1, <3>4, <3>5
  <2> QED BY <2>1, <2>2
<1>4. SubSeq(text, 1, Len(p)) = p /\ SubSeq(text, Len(p) + 1, Len(text)) = q
  <2>1. /\ SubSeq(text, 1, Len(p)) \in Seq(STRING) /\ Len(SubSeq(text, 1, Len(p))) = Len(p)
        /\ \A i \in 1..Len(p) : SubSeq(text, 1, Len(p))[i] = p[i]
    BY <1>1
  <2>2. /\ SubSeq(text, Len(p) + 1, Len(text)) \in Seq(STRING)
        /\ Len(SubSeq(text, Len(p) + 1, Len(text))) = Len(q)
        /\ \A i \in 1..Len(q) : SubSeq(text, Len(p) + 1, Len(text))[i] = q[i]
    BY <1>1
  <2> QED BY <2>1, <2>2, SeqEqual
<1>5. SplitQuery(text) = [path |-> SubSeq(text, 1, end), query |-> SubSeq(text, end + 1, Len(text))]
  BY DEF SplitQuery
<1> HIDE DEF end
<1>6. SplitQuery(text) = [path |-> p, query |-> q]
  BY <1>3, <1>4, <1>5
<1> QED BY <1>6 DEF text

\* What a text put together from two looks like.
LEMMA JoinFacts ==
    ASSUME NEW x \in Seq(STRING), NEW y \in Seq(STRING)
    PROVE  /\ x \o y \in Seq(STRING) /\ Len(x \o y) = Len(x) + Len(y)
           /\ Len(x) \in Nat /\ Len(y) \in Nat
           /\ \A i \in 1..Len(x) : (x \o y)[i] = x[i]
           /\ \A i \in 1..Len(y) : (x \o y)[Len(x) + i] = y[i]
OBVIOUS

\* Texts of one token and of two.
LEMMA ShortTexts ==
    ASSUME NEW S, NEW t \in S, NEW u \in S
    PROVE  /\ <<t>> \in Seq(S) /\ Len(<<t>>) = 1 /\ <<t>>[1] = t
           /\ <<t, u>> \in Seq(S) /\ Len(<<t, u>>) = 2 /\ <<t, u>>[2] = u
OBVIOUS

\* The text of a URI in origin form, or of the asterisk, is read back.
LEMMA OriginRoundTrip ==
    ASSUME NEW p \in Seq(STRING), NEW q \in Seq(STRING),
           \A i \in 1..Len(p) : p[i] \notin {"?", "://"}, q # <<>> => q[1] = "?",
           p # <<>>, p[1] \in {"/", "*"}
    PROVE  FromString(p \o q) = Uri(<<>>, <<>>, p, q)
<1>1. PICK text : text = p \o q
  OBVIOUS
<1>2. /\ Len(text) = Len(p) + Len(q) /\ Len(p) \in Nat /\ Len(q) \in Nat
      /\ \A i \in 1..Len(p) : text[i] = p[i]
      /\ \A i \in 1..Len(q) : text[Len(p) + i] = q[i]
  BY <1>1, JoinFacts
<1>3. Len(p) >= 1 /\ (q # <<>> <=> Len(q) >= 1)
  OBVIOUS
<1>4. text[1] = p[1]
  BY <1>2, <1>3
<1>5. Len(text) > 1 => text[2] # "://"
  <2>1. CASE Len(p) > 1
    BY <1>2, <2>1
  <2>2. CASE Len(p) = 1
    BY <1>2, <1>3, <2>2
  <2> QED BY <1>2, <1>3, <2>1, <2>2
<1>6. SplitQuery(text) = [path |-> p, query |-> q]
  BY <1>1, SplitJoined
<1>7. FromString(text) = Uri(<<>>, <<>>, SplitQuery(text).path, SplitQuery(text).query)
  BY <1>4, <1>5 DEF FromString
<1> QED BY <1>1, <1>6, <1>7

\* Scheme and authority are the first three tokens of an absolute URI.
LEMMA PrefixFacts ==
    ASSUME NEW s \in Seq(STRING), NEW a \in Seq(STRING), Len(s) = 2, Len(a) = 1
    PROVE  /\ Len(s \o a) = 3
           /\ (s \o a)[1] = s[1] /\ (s \o a)[2] = s[2] /\ (s \o a)[3] = a[1]
<1>1. /\ Len(s \o a) = Len(s) + Len(a)
      /\ \A i \in 1..Len(s) : (s \o a)[i] = s[i]
      /\ \A i \in 1..Len(a) : (s \o a)[Len(s) + i] = a[i]
  BY JoinFacts
<1> QED BY <1>1

\* So is that of one in absolute form.
LEMMA AbsoluteRoundTrip ==
    ASSUME NEW s \in Seq(STRING), NEW a \in Seq(STRING), NEW p \in Seq(STRING), NEW q \in Seq(STRING),
           \A i \in 1..Len(p) : p[i] # "?", q # <<>> => q[1] = "?",
           Len(s) = 2, s[2] = "://", Len(a) = 1
    PROVE  FromString((s \o a) \o (p \o q)) = Uri(s, a, p, q)
<1>1. PICK u \in Seq(STRING) : u = p \o q
  BY JoinFacts
<1>2. PICK v \in Seq(STRING) : v = s \o a
  BY JoinFacts
<1>3. Len(v) = 3 /\ v[1] = s[1] /\ v[2] = s[2] /\ v[3] = a[1]
  BY <1>2, PrefixFacts
<1>4. PICK text \in Seq(STRING) : text = v \o u
  BY JoinFacts
<1>5. /\ Len(text) = 3 + Len(u) /\ Len(u) \in Nat
      /\ text[1] = s[1] /\ text[2] = s[2] /\ text[3] = a[1]
      /\ \A i \in 1..Len(u) : text[3 + i] = u[i]
  <2>1. /\ Len(text) = Len(v) + Len(u) /\ Len(u) \in Nat
        /\ \A i \in 1..Len(v) : text[i] = v[i]
        /\ \A i \in 1..Len(u) : text[Len(v) + i] = u[i]
    BY <1>4, JoinFacts
  <2> QED BY <1>3, <2>1
<1>6. SubSeq(text, 1, 2) = s
  <2>1. /\ SubSeq(text, 1, 2) \in Seq(STRING) /\ Len(SubSeq(text, 1, 2)) = 2
        /\ SubSeq(text, 1, 2)[1] = text[1] /\ SubSeq(text, 1, 2)[2] = text[2]
    BY <1>5
  <2>2. \A i \in 1..Len(s) : SubSeq(text, 1, 2)[i] = s[i]
    BY <1>5, <2>1
  <2> QED BY <2>1, <2>2, SeqEqual
<1>7. SubSeq(text, 3, 3) = a
  <2>1. /\ SubSeq(text, 3, 3) \in Seq(STRING) /\ Len(SubSeq(text, 3, 3)) = 1
        /\ SubSeq(text, 3, 3)[1] = text[3]
    BY <1>5
  <2>2. \A i \in 1..Len(a) : SubSeq(text, 3, 3)[i] = a[i]
    BY <1>5, <2>1
  <2> QED BY <2>1, <2>2, SeqEqual
<1>8. SubSeq(text, 4, Len(text)) = u
  <2>1. /\ SubSeq(text, 4, Len(text)) \in Seq(STRING)
        /\ Len(SubSeq(text, 4, Len(text))) = Len(u)
        /\ \A i \in 1..Len(u) : SubSeq(text, 4, Len(text))[i] = u[i]
    BY <1>5
  <2> QED BY <2>1, SeqEqual
<1>9. SplitQuery(u) = [path |-> p, query |-> q]
  BY <1>1, SplitJoined
<1>10. Len(text) > 1 /\ text[2] = "://"
  BY <1>5
<1>11. FromString(text) = Uri(s, a, SplitQuery(u).path, SplitQuery(u).query)
  BY <1>6, <1>7, <1>8, <1>10 DEF FromString
<1> QED BY <1>1, <1>2, <1>4, <1>9, <1>11

\* path() has no question mark in it, and of an origin-form URI it is the path given.
LEMMA PathFacts ==
    ASSUME NEW uri, WellFormed(uri)
    PROVE  /\ Path(uri) \in Seq(STRING)
           /\ \A i \in 1..Len(Path(uri)) : Path(uri)[i] \notin {"?", "://"}
           /\ uri.path # <<>> \/ ~HasPathAndQuery(uri) => Path(uri) = uri.path
<1>1. uri.path \in Seq(STRING) /\ \A i \in 1..Len(uri.path) : uri.path[i] \notin {"?", "://"}
  BY DEF WellFormed
<1>2. PICK one \in Seq(STRING) : one = <<"/">> /\ \A i \in 1..Len(one) : one[i] \notin {"?", "://"}
  <2>1. <<"/">> \in Seq(STRING) /\ Len(<<"/">>) = 1 /\ <<"/">>[1] = "/"
    BY ShortTexts, LiteralAssumption, Zenon
  <2>2. \A i \in 1..Len(<<"/">>) : <<"/">>[i] \notin {"?", "://"}
    BY <2>1
  <2> QED BY <2>1, <2>2
<1>3. CASE uri.path = <<>> /\ HasPathAndQuery(uri)
  <2>1. Path(uri) = one
    BY <1>2, <1>3 DEF Path
  <2> QED BY <1>2, <1>3, <2>1
<1>4. CASE ~(uri.path = <<>> /\ HasPathAndQuery(uri))
  <2>1. Path(uri) = uri.path
    BY <1>4 DEF Path
  <2> QED BY <1>1, <2>1
<1> QED BY <1>3, <1>4

\* Recording writes a URI down as text; reading the text gives the URI back, with
\* what path() makes of its path.
LEMMA UriRoundTrip ==
    ASSUME NEW uri, WellFormed(uri)
    PROVE  FromString(ToString(uri)) = Uri(uri.scheme, uri.authority, Path(uri), uri.query)
<1>1. PICK s \in Seq(STRING), a \in Seq(STRING), p \in Seq(STRING), q \in Seq(STRING) :
         s = uri.scheme /\ a = uri.authority /\ p = Path(uri) /\ q = uri.query
  BY PathFacts DEF WellFormed
<1>2. ToString(uri) = (s \o a) \o (p \o q)
  BY <1>1, Zenon DEF ToString
<1>3. /\ \A i \in 1..Len(p) : p[i] \notin {"?", "://"}
      /\ q # <<>> => q[1] = "?"
      /\ \/ s = <<>> /\ a = <<>> /\ p # <<>> /\ p[1] \in {"/", "*"}
         \/ Len(s) = 2 /\ s[2] = "://" /\ Len(a) = 1
         \/ s = <<>> /\ Len(a) = 1 /\ a[1] \notin {"/", "*"} /\ p = <<>> /\ q = <<>>
  <2>1. /\ \A i \in 1..Len(p) : p[i] \notin {"?", "://"}
        /\ uri.path # <<>> \/ ~(s # <<>> \/ a = <<>>) => p = uri.path
    BY <1>1, PathFacts DEF HasPathAndQuery
  <2>2. /\ q # <<>> => q[1] = "?"
        /\ \/ s = <<>> /\ a = <<>> /\ uri.path # <<>> /\ uri.path[1] \in {"/", "*"}
           \/ Len(s) = 2 /\ s[2] = "://" /\ Len(a) = 1
           \/ s = <<>> /\ Len(a) = 1 /\ a[1] \notin {"/", "*"} /\ uri.path = <<>> /\ q = <<>>
    BY <1>1 DEF WellFormed
  <2>3. Len(a) = 1 => a # <<>>
    OBVIOUS
  <2> QED BY <2>1, <2>2, <2>3
<1>4. CASE s = <<>> /\ a = <<>> /\ p # <<>> /\ p[1] \in {"/", "*"}
  <2>1. (<<>> \o <<>>) \o (p \o q) = p \o q
    BY JoinFacts
  <2>2. FromString(p \o q) = Uri(<<>>, <<>>, p, q)
    BY <1>3, <1>4, OriginRoundTrip
  <2> QED BY <1>1, <1>2, <1>4, <2>1, <2>2
<1>5. CASE Len(s) = 2 /\ s[2] = "://" /\ Len(a) = 1
  <2>1. FromString((s \o a) \o (p \o q)) = Uri(s, a, p, q)
    BY <1>3, <1>5, AbsoluteRoundTrip
  <2> QED BY <1>1, <1>2, <2>1
<1>6. CASE s = <<>> /\ Len(a) = 1 /\ a[1] \notin {"/", "*"} /\ p = <<>> /\ q = <<>>
  <2>1. (<<>> \o a) \o (<<>> \o <<>>) = a
    OBVIOUS
  <2>2. FromString(a) = Uri(<<>>, a, <<>>, <<>>)
    BY <1>6 DEF FromString
  <2> QED BY <1>1, <1>2, <1>6, <2>1, <2>2
<1> QED BY <1>3, <1>4, <1>5, <1>6

----------------------------------------------------------------------------
\* What was recorded is found again.

\* An exchange of one of the requests, with the key of what was written down.
Sent(x) ==
    /\ x.of \in Requests
    /\ x.request = RecordedRequest(LiveRequest[x.of])
    /\ x.key = RecordedKey(x.request)

SentInv == \E S : ring \in Seq(S) /\ \A x \in S : Sent(x)

\* A recorded exchange is found by its live request's key unless that is "?q" (see
\* FoundAsSent), and by a filter exactly where a matcher with its method and path pattern matches the live request.
LEMMA SentIsFound ==
    ASSUME NEW x, Sent(x), NEW line
    PROVE  LET live == LiveRequest[x.of]
               m == [MatcherOf(line) EXCEPT !.headers = <<>>, !.body = Any]
               f == [upstream |-> Any, method |-> m.method, path |-> m.path,
                     status |-> Any, labels |-> {}]
           IN  /\ live.uri.path # <<>> \/ live.uri.query = <<>> => x.key = LiveKey(live)
               /\ Matches(m, live) <=> FilterMatches(f, x)
<1> DEFINE live == LiveRequest[x.of]
           m == [MatcherOf(line) EXCEPT !.headers = <<>>, !.body = Any]
           f == [upstream |-> Any, method |-> m.method, path |-> m.path,
                 status |-> Any, labels |-> {}]
<1>0. WellFormed(live.uri)
  BY ControlAssumption DEF Sent
<1>1. FromString(ToString(live.uri)) =
        Uri(live.uri.scheme, live.uri.authority, Path(live.uri), live.uri.query)
  BY <1>0, UriRoundTrip
<1>2. x.request.method = live.method /\ x.request.body = live.body /\ x.request.uri = ToString(live.uri)
  BY DEF Sent, RecordedRequest
<1> HIDE DEF live
<1>3. PICK read : /\ read = FromString(x.request.uri)
                  /\ read.scheme = live.uri.scheme /\ read.authority = live.uri.authority
                  /\ read.path = Path(live.uri) /\ read.query = live.uri.query
  BY <1>1, <1>2 DEF Uri
<1>4. ASSUME live.uri.path # <<>> \/ live.uri.query = <<>> PROVE x.key = LiveKey(live)
  <2>1. live.uri.path = <<>> => ~HasPathAndQuery(live.uri)
    BY <1>0, <1>4 DEF WellFormed, HasPathAndQuery
  <2>2. read.path = live.uri.path
    BY <1>0, <1>3, <2>1, PathFacts
  <2>3. PathAndQuery(read) = PathAndQuery(live.uri)
    BY <1>3, <2>2 DEF PathAndQuery
  <2> QED BY <1>2, <1>3, <2>3 DEF Sent, RecordedKey, LiveKey
<1>5. Path(read) = Path(live.uri)
  <2>1. HasPathAndQuery(read) = HasPathAndQuery(live.uri)
    BY <1>3 DEF HasPathAndQuery
  <2>2. CASE live.uri.path = <<>> /\ HasPathAndQuery(live.uri)
    <3>1. read.path = <<"/">> /\ <<"/">> # <<>>
      BY <1>3, <2>2 DEF Path
    <3> QED BY <1>3, <3>1 DEF Path
  <2>3. CASE ~(live.uri.path = <<>> /\ HasPathAndQuery(live.uri))
    <3>1. read.path = live.uri.path
      BY <1>3, <2>3 DEF Path
    <3> QED BY <1>3, <2>1, <2>3, <3>1 DEF Path
  <2> QED BY <2>2, <2>3
<1>6. m.method = line.method /\ m.path = line.path /\ m.headers = <<>> /\ m.body = Any
  BY DEF MatcherOf
<1>7. /\ f.upstream = Any /\ f.method = m.method /\ f.path = m.path
      /\ f.status = Any /\ f.labels = {}
  OBVIOUS
<1>8. DOMAIN m.headers = {}
  BY <1>6
<1> HIDE DEF m, f
<1>9. Matches(m, live) <=> /\ m.method \in {Any, live.method}
                           /\ m.path = Any \/ AcceptsPath(m.path, Path(live.uri))
  BY <1>6, <1>8 DEF Matches
<1>10. FilterMatches(f, x) <=> /\ m.method \in {Any, live.method}
                               /\ m.path = Any \/ AcceptsPath(m.path, Path(live.uri))
  BY <1>2, <1>3, <1>5, <1>7 DEF FilterMatches, PathOf
<1> QED BY <1>4, <1>9, <1>10 DEF live, m, f

\* The ring keeps to such exchanges when one more is recorded.
LEMMA RingGrows ==
    ASSUME SentInv, BuildInv, NEW x, Sent(x)
    PROVE  \E S : Bounded(Append(ring, x)) \in Seq(S) /\ \A y \in S : Sent(y)
<1>1. PICK S : ring \in Seq(S) /\ \A y \in S : Sent(y)
  BY DEF SentInv
<1> DEFINE U == S \cup {x}
<1>2. PICK all \in Seq(U) : all = Append(ring, x)
  <2>1. ring \in Seq(U) /\ x \in U
    BY <1>1
  <2> HIDE DEF U
  <2>2. Append(ring, x) \in Seq(U)
    BY <2>1
  <2> QED BY <2>2
<1>3. \A y \in U : Sent(y)
  BY <1>1
<1> HIDE DEF U
<1>4. builder.recording.max \in Nat
  <2>1. builder.recording \in {DefaultRecording, DisabledRecording} \cup {c.cfg : c \in RecordingCalls}
    BY DEF BuildInv, Builders
  <2>2. DefaultRecording.max \in Nat /\ DisabledRecording.max \in Nat
    BY ControlAssumption DEF DefaultRecording, DisabledRecording
  <2>3. \A c \in RecordingCalls : c.cfg.max \in Nat
    BY ControlAssumption DEF RecordingCalls
  <2> QED BY <2>1, <2>2, <2>3
<1>5. Bounded(all) \in Seq(U)
  <2>1. PICK extra \in Int : extra = Len(all) - builder.recording.max /\ extra <= Len(all)
    BY <1>4
  <2>2. Bounded(all) = IF extra > 0 THEN SubSeq(all, extra + 1, Len(all)) ELSE all
    BY <2>1 DEF Bounded
  <2>3. CASE extra > 0
    <3>1. \A i \in (extra + 1)..Len(all) : all[i] \in U
      BY <2>3
    <3>2. SubSeq(all, extra + 1, Len(all)) \in Seq(U)
      BY <2>1, <2>3, <3>1
    <3> QED BY <2>2, <2>3, <3>2
  <2> QED BY <2>2, <2>3
<1> QED BY <1>2, <1>3, <1>5

\* Serving a request records its exchange or nothing.
LEMMA FinishRecords ==
    ASSUME SentInv, BuildInv, NEW r \in Requests, NEW source, NEW kind, NEW response,
           Finish(r, source, kind, response)
    PROVE  SentInv'
<1>1. PICK outcome : ring' \in {ring, Bounded(Append(ring, ExchangeOf(r, outcome)))}
  BY DEF Finish
<1>2. Sent(ExchangeOf(r, outcome))
  BY DEF Sent, ExchangeOf
<1>3. \E S : Bounded(Append(ring, ExchangeOf(r, outcome))) \in Seq(S) /\ \A y \in S : Sent(y)
  BY <1>2, RingGrows
<1>4. CASE ring' = ring
  BY <1>4 DEF SentInv, Sent
<1>5. CASE ring' = Bounded(Append(ring, ExchangeOf(r, outcome)))
  BY <1>3, <1>5 DEF SentInv, Sent
<1> QED BY <1>1, <1>4, <1>5

\* Every step keeps the ring to what was sent.
LEMMA SentStep == BuildInv /\ SentInv /\ [Next]_vars => SentInv'
<1> SUFFICES ASSUME BuildInv, SentInv, [Next]_vars PROVE SentInv'
  OBVIOUS
<1>1. CASE ring' = ring
  BY <1>1 DEF SentInv, Sent
<1>2. CASE DispatchClearRecordings
  <2>1. ring' = <<>>
    BY <1>2 DEF DispatchClearRecordings
  <2>2. ring' \in Seq({})
    BY <2>1
  <2> QED BY <2>2 DEF SentInv
<1>3. ASSUME NEW r \in Requests, ServeStub(r) \/ ServeSnapshot(r) \/ ServeMiss(r) \/ Forward(r)
      PROVE  SentInv'
  <2>1. CASE ServeStub(r)
    BY <2>1, FinishRecords DEF ServeStub
  <2>2. CASE ServeSnapshot(r)
    BY <2>2, FinishRecords DEF ServeSnapshot
  <2>3. CASE ServeMiss(r)
    BY <2>3, FinishRecords DEF ServeMiss
  <2>4. CASE Forward(r)
    BY <2>4, FinishRecords DEF Forward
  <2> QED BY <1>3, <2>1, <2>2, <2>3, <2>4
<1>4. ASSUME \/ \E c \in BuilderCalls : Configure(c)
             \/ Run
             \/ \E line \in WireLines : HandleLine(line)
             \/ DispatchStub \/ ClearNext \/ ClearDone \/ DispatchPause \/ DispatchQuery
             \/ UNCHANGED vars
      PROVE  ring' = ring
  BY <1>4 DEF Configure, Run, HandleLine, DispatchStub, ClearNext, ClearDone, DispatchPause,
              DispatchQuery, vars, clusterVars
<1> QED BY <1>1, <1>2, <1>3, <1>4 DEF Next

\* Whatever was sent, recorded, cleared and evicted, every exchange in the ring is
\* found by the path of its live request, for every form of URI, and by its key, for
\* every form but "http://h?q": with any pattern and any sequence of commands.
THEOREM ControlFoundAsSent == Spec => []FoundAsSent
<1>1. Init => SentInv
  <2> SUFFICES ASSUME Init PROVE SentInv
    OBVIOUS
  <2>1. ring \in Seq({})
    BY DEF Init
  <2> QED BY <2>1 DEF SentInv
<1>2. ASSUME SentInv PROVE FoundAsSent
  <2>1. PICK S : ring \in Seq(S) /\ \A x \in S : Sent(x)
    BY <1>2 DEF SentInv
  <2>2. ASSUME NEW i \in 1..Len(ring) PROVE Sent(ring[i])
    BY <2>1
  <2>3. ASSUME NEW i \in 1..Len(ring)
        PROVE  LET live == LiveRequest[ring[i].of] IN
               live.uri.path # <<>> \/ live.uri.query = <<>> => ring[i].key = LiveKey(live)
    BY <2>2, SentIsFound
  <2> QED BY <2>2, <2>3, SentIsFound DEF FoundAsSent
<1> QED BY <1>1, <1>2, BuildInit, BuildStep, SentStep, PTL DEF Spec

----------------------------------------------------------------------------
\* A forwarded request goes under the prefix.

\* trim_end_matches('/') keeps a prefix that does not end in a slash.
LEMMA TrimFacts ==
    ASSUME NEW path \in Seq(STRING)
    PROVE  /\ TrimSlashes(path) \in Seq(STRING)
           /\ Len(TrimSlashes(path)) <= Len(path)
           /\ \A i \in 1..Len(TrimSlashes(path)) : TrimSlashes(path)[i] = path[i]
           /\ TrimSlashes(path) # <<>> => TrimSlashes(path)[Len(TrimSlashes(path))] # "/"
<1> DEFINE keep == {i \in 1..Len(path) : path[i] # "/"}
           last == CHOOSE i \in keep : \A j \in keep : j <= i
<1>0. Len(path) \in Nat /\ keep \in SUBSET (1..Len(path))
  OBVIOUS
<1>1. TrimSlashes(path) = SubSeq(path, 1, IF keep = {} THEN 0 ELSE last)
  BY DEF TrimSlashes
<1>2. CASE keep = {}
  <2>1. TrimSlashes(path) = SubSeq(path, 1, 0)
    BY <1>1, <1>2
  <2>2. SubSeq(path, 1, 0) = <<>>
    OBVIOUS
  <2> QED BY <1>0, <2>1, <2>2
<1>3. CASE keep # {}
  <2>1. \E i \in keep : \A j \in keep : j <= i
    BY <1>0, <1>3, GreatestElement
  <2>2. last \in keep
    BY <2>1
  <2>3. PICK l \in 1..Len(path) : l = last /\ path[l] # "/"
    BY <2>2
  <2>4. TrimSlashes(path) = SubSeq(path, 1, l)
    BY <1>1, <1>3, <2>3
  <2> HIDE DEF keep, last
  <2>5. /\ SubSeq(path, 1, l) \in Seq(STRING) /\ Len(SubSeq(path, 1, l)) = l
        /\ \A i \in 1..l : SubSeq(path, 1, l)[i] = path[i]
    OBVIOUS
  <2> QED BY <2>3, <2>4, <2>5
<1> QED BY <1>2, <1>3

\* Putting texts together is associative, and the empty text adds nothing.
LEMMA TextAssociative ==
    ASSUME NEW x \in Seq(STRING), NEW y \in Seq(STRING), NEW z \in Seq(STRING)
    PROVE  (x \o y) \o z = x \o (y \o z)
BY ConcatAssociative

\* An empty text adds nothing.
LEMMA TextAndNothing ==
    ASSUME NEW x \in Seq(STRING)
    PROVE  x \o <<>> = x
OBVIOUS

\* The path and query a request is sent with, behind the prefix.
LEMMA OutboundSplit ==
    ASSUME NEW b \in Seq(STRING), NEW p \in Seq(STRING), NEW q \in Seq(STRING),
           \A i \in 1..Len(b) : b[i] # "?", \A i \in 1..Len(p) : p[i] # "?",
           q # <<>> => q[1] = "?"
    PROVE  SplitQuery(b \o (p \o q)) = [path |-> b \o p, query |-> q]
<1>0. b \o (p \o q) = (b \o p) \o q
  BY TextAssociative
<1>1. PICK bp \in Seq(STRING) : bp = b \o p
  BY JoinFacts
<1>2. /\ Len(bp) = Len(b) + Len(p) /\ Len(b) \in Nat /\ Len(p) \in Nat
      /\ \A i \in 1..Len(b) : bp[i] = b[i]
      /\ \A i \in 1..Len(p) : bp[Len(b) + i] = p[i]
  BY <1>1, JoinFacts
<1>3. \A i \in 1..Len(bp) : bp[i] # "?"
  <2> TAKE i \in 1..Len(bp)
  <2>1. CASE i <= Len(b)
    BY <1>2, <2>1
  <2>2. CASE i > Len(b)
    <3>1. PICK k \in 1..Len(p) : i = Len(b) + k
      <4>1. i - Len(b) \in 1..Len(p) /\ i = Len(b) + (i - Len(b))
        BY <1>2, <2>2
      <4> QED BY <4>1
    <3>2. bp[i] = p[k]
      BY <1>2, <3>1
    <3> QED BY <3>2
  <2> QED BY <1>2, <2>1, <2>2
<1>4. SplitQuery(bp \o q) = [path |-> bp, query |-> q]
  BY <1>3, SplitJoined
<1> QED BY <1>0, <1>1, <1>4

\* The prefix of a joined path, and what is behind it.
LEMMA JoinedParts ==
    ASSUME NEW b \in Seq(STRING), NEW p \in Seq(STRING)
    PROVE  /\ SubSeq(b \o p, 1, Len(b)) = b
           /\ SubSeq(b \o p, Len(b) + 1, Len(b \o p)) = p
           /\ b # <<>> => (b \o p)[Len(b)] = b[Len(b)]
<1>1. PICK path \in Seq(STRING) : path = b \o p
  BY JoinFacts
<1>2. /\ Len(path) = Len(b) + Len(p) /\ Len(b) \in Nat /\ Len(p) \in Nat
      /\ \A i \in 1..Len(b) : path[i] = b[i]
      /\ \A i \in 1..Len(p) : path[Len(b) + i] = p[i]
  BY <1>1, JoinFacts
<1>3. SubSeq(path, 1, Len(b)) = b
  <2>1. /\ SubSeq(path, 1, Len(b)) \in Seq(STRING) /\ Len(SubSeq(path, 1, Len(b))) = Len(b)
        /\ \A i \in 1..Len(b) : SubSeq(path, 1, Len(b))[i] = b[i]
    BY <1>2
  <2> QED BY <2>1, SeqEqual
<1>4. SubSeq(path, Len(b) + 1, Len(path)) = p
  <2>1. /\ SubSeq(path, Len(b) + 1, Len(path)) \in Seq(STRING)
        /\ Len(SubSeq(path, Len(b) + 1, Len(path))) = Len(p)
        /\ \A i \in 1..Len(p) : SubSeq(path, Len(b) + 1, Len(path))[i] = p[i]
    BY <1>2
  <2> QED BY <2>1, SeqEqual
<1>5. b # <<>> => Len(b) \in 1..Len(b)
  OBVIOUS
<1> QED BY <1>1, <1>2, <1>3, <1>4, <1>5

\* What build_outbound_uri promises of any base URL and any request.
UnderPrefix(d, base, live) ==
    /\ d.authority = base.authority
    /\ d.query = live.query
    /\ SubSeq(d.path, 1, Len(base.path)) = base.path
    /\ HasPathAndQuery(live) => SubSeq(d.path, Len(base.path) + 1, Len(d.path)) = live.path
    /\ base.path # <<>> => d.path[Len(base.path)] # "/"

\* What proxy_request forwards to, for any base URL and any form of request URI.
LEMMA OutboundFacts ==
    ASSUME NEW url, WellFormed(url), NEW live, WellFormed(live)
    PROVE  UnderPrefix(OutboundUri(ParseBaseUrl(url), live), ParseBaseUrl(url), live)
<1> DEFINE base == ParseBaseUrl(url)
           tail == IF HasPathAndQuery(live) THEN PathAndQuery(live) ELSE <<"/">>
           d    == OutboundUri(base, live)
<1>1. PICK b \in Seq(STRING) :
         /\ base.path = b
         /\ b # <<>> => b[Len(b)] # "/"
         /\ \A i \in 1..Len(b) : b[i] # "?"
  <2>1. base.path = TrimSlashes(Path(url))
    BY DEF ParseBaseUrl, WellFormed
  <2>2. PICK path \in Seq(STRING) : path = Path(url) /\ \A i \in 1..Len(path) : path[i] # "?"
    BY PathFacts
  <2>3. PICK b \in Seq(STRING) : b = TrimSlashes(path)
    BY <2>2, TrimFacts
  <2>4. /\ Len(b) <= Len(path) /\ \A i \in 1..Len(b) : b[i] = path[i]
        /\ b # <<>> => b[Len(b)] # "/"
    BY <2>2, <2>3, TrimFacts
  <2>5. \A i \in 1..Len(b) : i \in 1..Len(path)
    BY <2>2, <2>4
  <2> QED BY <2>1, <2>2, <2>3, <2>4, <2>5
<1>2. PICK p \in Seq(STRING), q \in Seq(STRING) :
         /\ tail = p \o q /\ q = live.query
         /\ HasPathAndQuery(live) => p = live.path
         /\ \A i \in 1..Len(p) : p[i] # "?"
         /\ q # <<>> => q[1] = "?"
  <2>0. /\ live.path \in Seq(STRING) /\ live.query \in Seq(STRING)
        /\ \A i \in 1..Len(live.path) : live.path[i] # "?"
        /\ live.query # <<>> => live.query[1] = "?"
    BY DEF WellFormed
  <2>1. CASE HasPathAndQuery(live)
    <3>1. tail = live.path \o live.query
      BY <2>1, Zenon DEF PathAndQuery
    <3> QED BY <2>0, <3>1
  <2>2. CASE ~HasPathAndQuery(live)
    <3>1. live.path = <<>> /\ live.query = <<>>
      BY <2>2 DEF HasPathAndQuery, WellFormed
    <3>2. PICK one \in Seq(STRING) : one = <<"/">> /\ \A i \in 1..Len(one) : one[i] # "?"
      <4>1. <<"/">> \in Seq(STRING) /\ Len(<<"/">>) = 1 /\ <<"/">>[1] = "/"
        BY ShortTexts, LiteralAssumption, Zenon
      <4>2. \A i \in 1..Len(<<"/">>) : <<"/">>[i] # "?"
        BY <4>1
      <4> QED BY <4>1, <4>2
    <3>3. one \o <<>> = one
      BY TextAndNothing
    <3>4. tail = one
      BY <2>2, <3>2
    <3> HIDE DEF tail
    <3>5. tail = one \o <<>> /\ <<>> \in Seq(STRING)
      BY <3>3, <3>4
    <3> QED BY <2>2, <3>1, <3>2, <3>5
  <2> QED BY <2>1, <2>2
<1>3. d = Uri(base.scheme, base.authority, SplitQuery(b \o tail).path, SplitQuery(b \o tail).query)
  <2>1. d = Uri(base.scheme, base.authority, SplitQuery(base.path \o tail).path,
                SplitQuery(base.path \o tail).query)
    BY DEF OutboundUri
  <2> HIDE DEF tail, d, base
  <2> QED BY <1>1, <2>1
<1> HIDE DEF tail, d, base
<1>4. SplitQuery(b \o tail) = [path |-> b \o p, query |-> q]
  <2>1. /\ \A i \in 1..Len(b) : b[i] # "?"
        /\ \A i \in 1..Len(p) : p[i] # "?"
        /\ q # <<>> => q[1] = "?"
    BY <1>1, <1>2
  <2>2. SplitQuery(b \o (p \o q)) = [path |-> b \o p, query |-> q]
    BY <2>1, OutboundSplit
  <2> QED BY <1>2, <2>2
<1>5. d.authority = base.authority /\ d.path = b \o p /\ d.query = q
  BY <1>3, <1>4 DEF Uri
<1>6. UnderPrefix(d, base, live)
  <2>1. /\ SubSeq(d.path, 1, Len(b)) = b
        /\ SubSeq(d.path, Len(b) + 1, Len(d.path)) = p
        /\ b # <<>> => d.path[Len(b)] = b[Len(b)]
    BY <1>5, JoinedParts
  <2>2. d.authority = base.authority /\ d.query = live.query
    BY <1>2, <1>5
  <2>3. SubSeq(d.path, 1, Len(base.path)) = base.path
    BY <1>1, <2>1
  <2>4. HasPathAndQuery(live) => SubSeq(d.path, Len(base.path) + 1, Len(d.path)) = live.path
    BY <1>1, <1>2, <2>1
  <2>5. base.path # <<>> => d.path[Len(base.path)] # "/"
    BY <1>1, <2>1
  <2> QED BY <2>2, <2>3, <2>4, <2>5 DEF UnderPrefix
<1> QED BY <1>6 DEF d, base

\* A running upstream has a trimmed base URL, and what was dialled was built from it.
DialInv ==
    /\ DOMAIN dialled = Requests
    /\ phase = "running" =>
         \A n \in Names : \E url : WellFormed(url) /\ registry[n].base = ParseBaseUrl(url)
    /\ \A r \in Requests :
         dialled[r] # <<>> =>
            /\ phase = "running" /\ TargetOf[r] \in Names
            /\ dialled[r] = OutboundUri(registry[TargetOf[r]].base, LiveRequest[r].uri)

\* The base URL of a stub upstream is a URI in absolute form.
LEMMA StubTargetForm == WellFormed(StubTarget)
<1>1. /\ StubTarget.scheme = <<"http", "://">> /\ StubTarget.authority = <<"stub.internal:0">>
      /\ StubTarget.path = <<"/">> /\ StubTarget.query = <<>>
  BY DEF StubTarget
<1>2. /\ StubTarget.scheme \in Seq(STRING) /\ Len(StubTarget.scheme) = 2
      /\ StubTarget.scheme[2] = "://"
  <2>1. "http" \in STRING /\ "://" \in STRING
    BY LiteralAssumption, Zenon
  <2>2. /\ <<"http", "://">> \in Seq(STRING) /\ Len(<<"http", "://">>) = 2
        /\ <<"http", "://">>[2] = "://"
    BY <2>1, ShortTexts, Zenon
  <2> QED BY <1>1, <2>2, Zenon
<1>3. StubTarget.authority \in Seq(STRING) /\ Len(StubTarget.authority) = 1
  <2>1. "stub.internal:0" \in STRING
    BY LiteralAssumption, Zenon
  <2>2. /\ <<"stub.internal:0">> \in Seq(STRING) /\ Len(<<"stub.internal:0">>) = 1
    BY <2>1, ShortTexts, Zenon
  <2> QED BY <1>1, <2>2, Zenon
<1>4. StubTarget.path \in Seq(STRING) /\ Len(StubTarget.path) = 1 /\ StubTarget.path[1] = "/"
  BY <1>1, ShortTexts, LiteralAssumption, Zenon
<1>5. StubTarget \in [scheme : Seq(STRING), authority : Seq(STRING), path : Seq(STRING),
                      query : Seq(STRING)]
  <2>1. StubTarget.query \in Seq(STRING)
    BY <1>1
  <2>2. StubTarget = [scheme |-> StubTarget.scheme, authority |-> StubTarget.authority,
                      path |-> StubTarget.path, query |-> StubTarget.query]
    BY <1>1, Zenon DEF StubTarget
  <2> QED BY <1>2, <1>3, <1>4, <2>1, <2>2
<1>6. \A i \in 1..Len(StubTarget.path) : StubTarget.path[i] \notin {"?", "://"}
  BY <1>4
<1>7. StubTarget.path # <<>>
  BY <1>4
<1> QED BY <1>1, <1>2, <1>3, <1>5, <1>6, <1>7 DEF WellFormed

\* Only run() sets base URLs, and only a forwarded request is dialled.
LEMMA DialStep == BuildInv /\ DialInv /\ [Next]_vars => DialInv'
<1> SUFFICES ASSUME BuildInv, DialInv, [Next]_vars PROVE DialInv'
  OBVIOUS
<1>1. CASE UNCHANGED <<phase, registry, dialled>>
  BY <1>1 DEF DialInv, Names
<1>2. CASE Run
  <2>1. phase = "building" /\ dialled' = dialled
    BY <1>2 DEF Run
  <2>2. \A r \in Requests : dialled[r] = <<>>
    BY <2>1 DEF DialInv
  <2>3. ASSUME phase' = "running", NEW n \in DOMAIN registry'
        PROVE  \E url : WellFormed(url) /\ registry'[n].base = ParseBaseUrl(url)
    <3> DEFINE names == {Specs[i].name : i \in DOMAIN Specs}
               of(m) == Specs[CHOOSE i \in DOMAIN Specs : Specs[i].name = m]
    <3>1. registry' = [m \in names |-> Runtime(of(m))]
      BY <1>2, <2>3 DEF Run
    <3>2. n \in names /\ registry'[n] = Runtime(of(n))
      BY <2>3, <3>1
    <3>3. PICK i \in DOMAIN Specs : of(n) = Specs[i]
      BY <3>2
    <3>4. registry'[n].base = ParseBaseUrl(Specs[i].base)
      BY <3>2, <3>3 DEF Runtime
    <3>5. Specs[i] \in UpstreamSpecs
      <4>1. Specs \in Seq(UpstreamSpecs)
        BY DEF BuildInv, Builders, Specs
      <4> QED BY <4>1
    <3>6. WellFormed(Specs[i].base)
      <4>1. WellFormed(StubTarget)
        BY StubTargetForm
      <4>2. \A c \in BaseCalls : WellFormed(c.base)
        BY ControlAssumption DEF BaseCalls
      <4> QED BY <3>5, <4>1, <4>2 DEF UpstreamSpecs
    <3> QED BY <3>4, <3>6
  <2> QED BY <2>1, <2>2, <2>3 DEF DialInv, Names
<1>3. ASSUME NEW r \in Requests, ServeStub(r) \/ ServeSnapshot(r) \/ ServeMiss(r)
      PROVE  UNCHANGED <<phase, registry, dialled>>
  BY <1>3 DEF ServeStub, ServeSnapshot, ServeMiss, Arrives
<1>4. ASSUME NEW r \in Requests, Forward(r) PROVE DialInv'
  <2>1. /\ phase = "running" /\ TargetOf[r] \in Names /\ UNCHANGED <<phase, registry>>
        /\ dialled' = [dialled EXCEPT ![r] =
                         OutboundUri(registry[TargetOf[r]].base, LiveRequest[r].uri)]
    BY <1>4 DEF Forward, Arrives
  <2> QED BY <2>1 DEF DialInv, Names
<1>5. ASSUME \/ \E line \in WireLines : HandleLine(line)
             \/ DispatchStub \/ ClearNext \/ ClearDone \/ DispatchPause \/ DispatchQuery
             \/ DispatchClearRecordings
             \/ \E c \in BuilderCalls : Configure(c)
             \/ UNCHANGED vars
      PROVE  UNCHANGED <<phase, registry, dialled>>
  BY <1>5 DEF Configure, HandleLine, DispatchStub, ClearNext, ClearDone, DispatchPause,
              DispatchQuery, DispatchClearRecordings, vars, clusterVars
<1> QED BY <1>1, <1>2, <1>3, <1>4, <1>5 DEF Next

\* Every request that is forwarded goes to its upstream's authority, under the
\* prefix of the base URL, with its own path and query: for any base URL and any
\* form of request URI.
THEOREM ControlForwardedUnderPrefix == Spec => []ForwardedUnderPrefix
<1>1. Init => DialInv
  BY DEF Init, DialInv
<1>2. ASSUME DialInv PROVE ForwardedUnderPrefix
  <2> SUFFICES ASSUME NEW r \in Requests, dialled[r] # <<>>
               PROVE  UnderPrefix(dialled[r], registry[TargetOf[r]].base, LiveRequest[r].uri)
    BY DEF ForwardedUnderPrefix, UnderPrefix
  <2>1. /\ TargetOf[r] \in Names /\ phase = "running"
        /\ dialled[r] = OutboundUri(registry[TargetOf[r]].base, LiveRequest[r].uri)
    BY <1>2 DEF DialInv
  <2>2. PICK url : WellFormed(url) /\ registry[TargetOf[r]].base = ParseBaseUrl(url)
    BY <1>2, <2>1 DEF DialInv
  <2>3. WellFormed(LiveRequest[r].uri)
    BY ControlAssumption
  <2> QED BY <2>1, <2>2, <2>3, OutboundFacts
<1> QED BY <1>1, <1>2, BuildInit, BuildStep, DialStep, PTL DEF Spec
============================================================================
