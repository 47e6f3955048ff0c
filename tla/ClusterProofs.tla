--------------------------- MODULE ClusterProofs ----------------------------
(***************************************************************************)
(* Proofs about module Cluster, for any number of upstreams, connections   *)
(* and callers and any deadlines.                                          *)
(*                                                                         *)
(* Three groups of facts are inductive in turn: the types; that a          *)
(* connection is served only under a loop that still answers for it        *)
(* (ListenInv); and that what shutdown has joined has ended or is reported *)
(* (JoinInv), which rests on the processor's one-command discipline        *)
(* (CommandInv). Time plays no part in them: Settled stays a black box.    *)
(***************************************************************************)
EXTENDS Cluster, TLAPS

\* The phases before shutdown is called.
Before == {"starting", "startingPlanes", "undo", "failed", "up", "dropped"}

ListenInv ==
    /\ \A i \in 1..Len(Order) : i > started => listener[Order[i]] = "unbound"
    /\ \A k \in Conns :
         conn[k] = "serving" => listener[UpstreamOf[k]] \notin {"unbound", "exited"}
    /\ phase \in Before => \A u \in Upstreams : listener[u] # "killed"
    /\ phase \notin {"starting", "undo", "failed"} => started = Len(Order)
    /\ phase = "starting" => processor = "none"
    /\ FailedStartLeaksNothing

CommandInv ==
    /\ \A c \in Callers : call[c] = "running" => processor = "busy"
    /\ \A c, d \in Callers : call[c] = "running" /\ call[d] = "running" => c = d
    /\ processor = "polling" => queue # <<>>
    /\ processor = "exited" => queue = <<>>

JoinInv ==
    /\ phase \in Before => joined = 0
    /\ phase = "joinListeners" => joined < Len(Order)
    /\ phase \in {"flush"} \cup AfterFlush => joined = Len(Order)
    /\ \A i \in 1..joined : listener[Sorted[i]] = "exited" \/ Sorted[i] \in errors
    /\ phase \in {"joinControl", "closed"} => processor = "exited" \/ "command" \in errors
    /\ phase = "closed" => control # "accepting" \/ "control" \in errors

Inv == TypeOK /\ ListenInv /\ CommandInv /\ JoinInv

----------------------------------------------------------------------------
\* The constants.

\* The lists of listeners name upstreams, every upstream is in both of them, and
\* Order names none twice.
LEMMA Lists ==
    /\ Len(Order) \in Nat \ {0}
    /\ \A i \in 1..Len(Order) : Order[i] \in Upstreams /\ Sorted[i] \in Upstreams
    /\ \A u \in Upstreams : \E i \in 1..Len(Order) : Order[i] = u
    /\ \A u \in Upstreams : \E i \in 1..Len(Order) : Sorted[i] = u
    /\ \A i, j \in 1..Len(Order) : Order[i] = Order[j] => i = j
<1>1. Order \in Seq(Upstreams) /\ Order # <<>>
  BY ClusterAssumption
<1>2. Len(Order) \in Nat \ {0}
  BY <1>1
<1>3. \A u \in Upstreams : \E i \in 1..Len(Order) : Order[i] = u
  BY DEF Upstreams
<1>4. \A i \in 1..Len(Order) : Order[i] \in Upstreams
  BY DEF Upstreams
<1>5. /\ Sorted \in [1..Len(Order) -> Upstreams]
      /\ \A u \in Upstreams : \E i \in 1..Len(Order) : Sorted[i] = u
      /\ \A i, j \in 1..Len(Order) : Order[i] = Order[j] => i = j
  BY ClusterAssumption
<1>6. \A i \in 1..Len(Order) : Sorted[i] \in Upstreams
  BY <1>5
<1> QED BY <1>2, <1>3, <1>4, <1>5, <1>6

\* The deadlines are natural numbers.
LEMMA Deadlines ==
    /\ MaxFlush \in Nat
    /\ Budget \in Nat /\ Slack \in Nat /\ DefaultDrain \in Nat /\ QueueCap \in Nat
BY ClusterAssumption

----------------------------------------------------------------------------
\* Types.

\* Every variable starts within its type.
LEMMA TypeInit == Init => TypeOK
BY Lists, ClusterAssumption DEF Init, TypeOK, Phases, Joining

\* Bring-up keeps the types.
LEMMA TypeStart ==
    ASSUME TypeOK,
           Reject \/ StartListener \/ StartFails \/ StartProcessor \/ StartControl \/ Undone
    PROVE  TypeOK'
<1> USE Lists DEF TypeOK, Phases, Joining, startVars, listenVars, commandVars, joinVars
<1>1. CASE Reject
  BY <1>1 DEF Reject
<1>2. CASE StartListener
  BY <1>2 DEF StartListener
<1>3. CASE StartFails
  BY <1>3 DEF StartFails
<1>4. CASE StartProcessor
  BY <1>4 DEF StartProcessor
<1>5. CASE StartControl
  BY <1>5 DEF StartControl
<1>6. CASE Undone
  BY <1>6 DEF Undone
<1> QED BY <1>1, <1>2, <1>3, <1>4, <1>5, <1>6

ListenStep ==
    \/ \E k \in Conns : Accept(k) \/ ConnEnds(k) \/ ConnAborted(k)
    \/ \E u \in Upstreams : ListenerStep(u) \/ AcceptFatal(u)

\* Listeners and connections keep the types.
LEMMA TypeListen ==
    ASSUME TypeOK, ListenStep
    PROVE  TypeOK'
<1> USE DEF TypeOK, startVars, listenVars, commandVars, joinVars
<1>1. CASE \E k \in Conns : Accept(k) \/ ConnEnds(k) \/ ConnAborted(k)
  <2>1. PICK k \in Conns : Accept(k) \/ ConnEnds(k) \/ ConnAborted(k)
    BY <1>1
  <2>2. conn' \in [Conns -> {"new", "serving", "ended"}]
    BY <2>1 DEF Accept, ConnEnds, ConnAborted
  <2> QED BY <2>1, <2>2 DEF Accept, ConnEnds, ConnAborted
<1>2. ASSUME NEW u \in Upstreams, StopAccepting(u)
      PROVE  TypeOK'
  <2>1. DrainDeadline \in Nat
    BY Deadlines DEF DrainDeadline
  <2> QED BY <1>2, <2>1 DEF StopAccepting
<1>3. ASSUME NEW u \in Upstreams, DrainTimesOut(u)
      PROVE  TypeOK'
  BY <1>3 DEF DrainTimesOut
<1>4. ASSUME NEW u \in Upstreams, ListenerExits(u)
      PROVE  TypeOK'
  BY <1>4 DEF ListenerExits
<1> QED BY <1>1, <1>2, <1>3, <1>4 DEF ListenStep, ListenerStep, SignalSeen, AcceptFatal

CallerStep(c) ==
    \/ Connect(c) \/ Disconnect(c) \/ Send(c)
    \/ Enqueue(c) \/ SendFails(c) \/ Reply(c)

CommandStep == (\E c \in Callers : CallerStep(c)) \/ ProcessorStep \/ ControlStops

\* The command channel keeps the types.
LEMMA TypeCommand ==
    ASSUME TypeOK, CommandInv, CommandStep
    PROVE  TypeOK'
<1> USE DEF TypeOK, startVars, listenVars, commandVars, joinVars
<1>1. ASSUME NEW c \in Callers,
             Connect(c) \/ Disconnect(c) \/ Send(c) \/ SendFails(c)
      PROVE  TypeOK'
  BY <1>1 DEF Connect, Disconnect, Send, SendFails
<1>2. ASSUME NEW c \in Callers, Enqueue(c)
      PROVE  TypeOK'
  <2>1. queue' \in Seq(Callers) /\ Len(queue') <= QueueCap
    BY <1>2, ClusterAssumption DEF Enqueue
  <2> QED BY <1>2, <2>1 DEF Enqueue
<1>3. ASSUME NEW c \in Callers, Reply(c)
      PROVE  TypeOK'
  BY <1>3 DEF Reply
<1>4. CASE Poll
  BY <1>4 DEF Poll
<1>5. CASE Receive
  <2>1. queue # <<>>
    BY <1>5 DEF Receive, CommandInv
  <2>2. /\ Tail(queue) \in Seq(Callers) /\ Len(Tail(queue)) = Len(queue) - 1
        /\ Head(queue) \in Callers
    BY <2>1
  <2>3. queue' \in Seq(Callers) /\ Len(queue') <= QueueCap
    BY <1>5, <2>1, <2>2, Deadlines DEF Receive
  <2> QED BY <1>5, <2>2, <2>3 DEF Receive
<1>6. CASE ProcessorStops
  <2>1. queue' \in Seq(Callers) /\ Len(queue') <= QueueCap
    BY <1>6, ClusterAssumption DEF ProcessorStops
  <2> QED BY <1>6, <2>1 DEF ProcessorStops
<1>7. CASE ControlStops
  BY <1>7 DEF ControlStops
<1> QED BY <1>1, <1>2, <1>3, <1>4, <1>5, <1>6, <1>7
        DEF CommandStep, CallerStep, ProcessorStep

\* The shutdown and the clock keep the types.
LEMMA TypeEnd ==
    ASSUME TypeOK, JoinInv, Shutdown \/ DropHandle \/ ShutdownStep \/ Flush \/ Tick
    PROVE  TypeOK'
<1> USE DEF TypeOK, Phases, Joining, startVars, listenVars, commandVars, joinVars
<1>1. CASE Shutdown
  <2>1. Budget + Slack \in Nat
    BY Deadlines
  <2> QED BY <1>1, <2>1 DEF Shutdown
<1>2. CASE DropHandle
  BY <1>2 DEF DropHandle
<1>3. ASSUME phase = "joinListeners", NextJoin
      PROVE  /\ joined' \in 0..Len(Order) /\ joinLeft' \in Nat /\ phase' \in Phases
             /\ Awaited \in Upstreams
  <2>1. joined \in Nat /\ joined < Len(Order) /\ Len(Order) \in Nat
    BY <1>3, Lists DEF JoinInv
  <2>2. joined + 1 \in 1..Len(Order)
    BY <2>1
  <2>3. Awaited \in Upstreams
    BY <2>2, Lists DEF Awaited
  <2> QED BY <1>3, <2>1, <2>3, Deadlines DEF NextJoin
<1>4. CASE ListenerJoined
  BY <1>3, <1>4 DEF ListenerJoined
<1>9. CASE ListenerKilled
  BY <1>3, <1>9 DEF ListenerKilled
<1>5. CASE Flush
  BY <1>5, Deadlines DEF Flush
<1>6. CASE CommandJoined
  BY <1>6, Deadlines DEF CommandJoined, AfterCommand
<1>7. CASE ControlJoined
  BY <1>7 DEF ControlJoined
<1>8. CASE Tick
  <2>1. \A n \in Nat : Down(n) \in Nat
    BY DEF Down
  <2> DEFINE left(u) == IF listener[u] = "draining" THEN Down(drainLeft[u]) ELSE drainLeft[u]
  <2>2. drainLeft' = [u \in Upstreams |-> left(u)]
    BY <1>8 DEF Tick
  <2>3. drainLeft' \in [Upstreams -> Nat] /\ joinLeft' \in Nat /\ joinTime' \in Nat
        /\ flushTime' \in 0..MaxFlush
    <3>1. \A u \in Upstreams : left(u) \in Nat
      BY <2>1
    <3>2. drainLeft' \in [Upstreams -> Nat]
      <4> HIDE DEF left
      <4> QED BY <2>2, <3>1
    <3>3. joinLeft' \in Nat /\ joinTime' \in Nat
      BY <1>8 DEF Tick, Down
    <3>4. phase = "flush" => flushTime < MaxFlush
      BY <1>8 DEF Tick, Settled, ShutdownSettled
    <3>5. flushTime' \in 0..MaxFlush
      BY <1>8, <3>4, Deadlines DEF Tick
    <3> QED BY <3>2, <3>3, <3>5
  <2> QED BY <1>8, <2>3 DEF Tick
<1> QED BY <1>1, <1>2, <1>3, <1>4, <1>5, <1>6, <1>7, <1>8, <1>9 DEF ShutdownStep

----------------------------------------------------------------------------
\* Listeners and their connections.

\* Nothing is started yet.
LEMMA ListenInit == Init => ListenInv
BY Lists, ClusterAssumption DEF Init, ListenInv, FailedStartLeaksNothing

\* Bring-up: a listener gets bound once, and the error is returned only when all
\* that was started has ended.
LEMMA ListenStart ==
    ASSUME TypeOK, ListenInv,
           Reject \/ StartListener \/ StartFails \/ StartProcessor \/ StartControl \/ Undone
    PROVE  ListenInv'
<1> USE DEF ListenInv, startVars, listenVars, commandVars, joinVars
<1>1. ASSUME listener' = listener, conn' = conn, processor' = processor, phase' = "failed",
             phase \in Before, started' = started,
             \A i \in 1..started : listener[Order[i]] = "exited",
             processor \in {"none", "exited"}
      PROVE  ListenInv'
  <2>1. \A i \in 1..Len(Order) : listener[Order[i]] \in {"unbound", "exited"}
    BY <1>1, Lists DEF TypeOK
  <2>2. \A u \in Upstreams : listener[u] \in {"unbound", "exited"}
    BY <2>1, Lists
  <2>3. \A k \in Conns : conn[k] # "serving"
    BY <2>2, ClusterAssumption
  <2>4. FailedStartLeaksNothing'
    BY <1>1, <2>2, <2>3 DEF FailedStartLeaksNothing
  <2> QED BY <1>1, <2>4 DEF Before
<1>2. CASE Reject
  BY <1>1, <1>2, Lists DEF Reject, Before
<1>3. CASE Undone
  BY <1>1, <1>3 DEF Undone, Before
<1>4. CASE StartListener
  <2> DEFINE u == Order[started + 1]
  <2>1. started + 1 \in 1..Len(Order) /\ started \in Nat
    BY <1>4, Lists DEF StartListener, TypeOK
  <2>2. u \in Upstreams /\ listener[u] = "unbound"
    BY <2>1, Lists
  <2>3. /\ listener' = [listener EXCEPT ![u] = "accepting"] /\ started' = started + 1
        /\ phase' = phase /\ phase = "starting" /\ conn' = conn /\ processor' = processor
    BY <1>4 DEF StartListener
  <2>4. \A i \in 1..Len(Order) : i > started + 1 => Order[i] # u
    BY <2>1, Lists
  <2> HIDE DEF u
  <2>5. \A i \in 1..Len(Order) : i > started' => listener'[Order[i]] = "unbound"
    BY <2>1, <2>3, <2>4, Lists DEF TypeOK
  <2>6. \A k \in Conns :
          conn'[k] = "serving" => listener'[UpstreamOf[k]] \notin {"unbound", "exited"}
    BY <2>2, <2>3, ClusterAssumption DEF TypeOK
  <2>7. \A v \in Upstreams : listener'[v] # "killed"
    BY <2>2, <2>3 DEF TypeOK, Before
  <2> QED BY <2>3, <2>5, <2>6, <2>7 DEF FailedStartLeaksNothing
<1>5. CASE StartFails
  BY <1>5 DEF StartFails, Before, FailedStartLeaksNothing
<1>6. CASE StartProcessor
  BY <1>6 DEF StartProcessor, Before, FailedStartLeaksNothing
<1>7. CASE StartControl
  BY <1>7 DEF StartControl, Before, FailedStartLeaksNothing
<1> QED BY <1>2, <1>3, <1>4, <1>5, <1>6, <1>7

\* A connection is accepted by a loop that runs, and a loop ends only when it
\* serves none.
LEMMA ListenListen ==
    ASSUME TypeOK, ListenInv, ListenStep
    PROVE  ListenInv'
<1>1. phase' = phase /\ started' = started /\ processor' = processor
  BY DEF ListenStep, ListenerStep, Accept, ConnEnds, ConnAborted, SignalSeen, AcceptFatal,
         StopAccepting, DrainTimesOut, ListenerExits, startVars, commandVars
<1>2. ASSUME NEW k \in Conns, Accept(k)
      PROVE  ListenInv'
  <2>1. /\ conn' = [conn EXCEPT ![k] = "serving"] /\ listener' = listener
        /\ listener[UpstreamOf[k]] = "accepting"
    BY <1>2 DEF Accept
  <2>2. phase # "failed"
    BY <2>1, ClusterAssumption DEF ListenInv, FailedStartLeaksNothing
  <2> QED BY <1>1, <2>1, <2>2 DEF ListenInv, FailedStartLeaksNothing, TypeOK
<1>3. ASSUME NEW k \in Conns, ConnEnds(k) \/ ConnAborted(k)
      PROVE  ListenInv'
  <2>1. conn' = [conn EXCEPT ![k] = "ended"] /\ listener' = listener
    BY <1>3 DEF ConnEnds, ConnAborted
  <2> QED BY <1>1, <2>1 DEF ListenInv, FailedStartLeaksNothing, TypeOK
<1>4. ASSUME NEW u \in Upstreams, NEW to \in {"draining", "aborting", "exited"},
             listener[u] \in {"accepting", "draining", "aborting"},
             to = "exited" => Serving(u) = {},
             listener' = [listener EXCEPT ![u] = to], conn' = conn
      PROVE  ListenInv'
  <2>1. \A i \in 1..Len(Order) : i > started' => listener'[Order[i]] = "unbound"
    BY <1>1, <1>4, Lists DEF TypeOK, ListenInv
  <2>2. \A k \in Conns :
          conn'[k] = "serving" => listener'[UpstreamOf[k]] \notin {"unbound", "exited"}
    <3> SUFFICES ASSUME NEW k \in Conns, conn[k] = "serving"
                 PROVE  listener'[UpstreamOf[k]] \notin {"unbound", "exited"}
      BY <1>4
    <3>1. CASE UpstreamOf[k] = u
      <4>1. k \in Serving(u)
        BY <3>1 DEF Serving
      <4> QED BY <1>4, <3>1, <4>1 DEF TypeOK
    <3>2. CASE UpstreamOf[k] # u
      BY <1>4, <3>2, ClusterAssumption DEF TypeOK, ListenInv
    <3> QED BY <3>1, <3>2
  <2>3. phase \in Before => \A v \in Upstreams : listener'[v] # "killed"
    BY <1>4 DEF TypeOK, ListenInv
  <2>4. phase # "failed"
    BY <1>4 DEF ListenInv, FailedStartLeaksNothing
  <2> QED BY <1>1, <2>1, <2>2, <2>3, <2>4 DEF ListenInv, FailedStartLeaksNothing
<1>5. ASSUME NEW u \in Upstreams, ListenerStep(u) \/ AcceptFatal(u)
      PROVE  ListenInv'
  <2>1. CASE StopAccepting(u)
    BY <1>4, <2>1 DEF StopAccepting
  <2>2. CASE DrainTimesOut(u)
    BY <1>4, <2>2 DEF DrainTimesOut
  <2>3. CASE ListenerExits(u)
    BY <1>4, <2>3 DEF ListenerExits
  <2> QED BY <1>5, <2>1, <2>2, <2>3 DEF ListenerStep, SignalSeen, AcceptFatal
<1> QED BY <1>2, <1>3, <1>5 DEF ListenStep

\* Commands do not touch the listeners, and the processor of a failed start has
\* ended for good.
LEMMA ListenCommand ==
    ASSUME TypeOK, ListenInv, CommandInv, CommandStep
    PROVE  ListenInv'
<1>1. phase' = phase /\ started' = started /\ listener' = listener /\ conn' = conn
  BY DEF CommandStep, CallerStep, ProcessorStep, Connect, Disconnect,
         Send, Enqueue, SendFails, Reply, Poll, Receive, ProcessorStops, ControlStops,
         startVars, listenVars
<1>2. processor \in {"none", "exited"} => processor' = processor
  BY DEF CommandStep, CallerStep, ProcessorStep, Connect, Disconnect,
         Send, Enqueue, SendFails, Reply, Poll, Receive, ProcessorStops, ControlStops,
         commandVars, CommandInv
<1> QED BY <1>1, <1>2 DEF ListenInv, FailedStartLeaksNothing

\* Shutdown starts from a cluster that is up, and only then are loops killed.
LEMMA ListenEnd ==
    ASSUME TypeOK, ListenInv, JoinInv, Shutdown \/ DropHandle \/ ShutdownStep \/ Flush \/ Tick
    PROVE  ListenInv'
<1> USE DEF startVars, listenVars, commandVars, joinVars
<1>1. conn' = conn /\ started' = started /\ processor' = processor
  BY DEF Shutdown, DropHandle, ShutdownStep, ListenerJoined, ListenerKilled, Flush,
         CommandJoined, ControlJoined, Tick
<1>2. CASE Tick \/ DropHandle
  BY <1>1, <1>2 DEF Tick, DropHandle, ListenInv, FailedStartLeaksNothing, Before
<1>3. CASE Shutdown \/ ListenerJoined \/ Flush \/ CommandJoined \/ ControlJoined
  <2>1. /\ listener' = listener
        /\ phase' \in Joining \cup {"flush", "closed"}
        /\ phase \notin {"starting", "undo", "failed"}
    BY <1>3 DEF Shutdown, ListenerJoined, NextJoin, Flush, CommandJoined, AfterCommand,
                ControlJoined, Joining
  <2> QED BY <1>1, <2>1 DEF ListenInv, FailedStartLeaksNothing, Before, Joining
<1>4. CASE ListenerKilled
  <2>1. /\ listener' = [listener EXCEPT ![Awaited] = "killed"]
        /\ phase' \in {"joinListeners", "flush"} /\ phase = "joinListeners"
    BY <1>4 DEF ListenerKilled, NextJoin
  <2>2. started = Len(Order)
    BY <2>1 DEF ListenInv
  <2>3. \A k \in Conns :
          conn'[k] = "serving" => listener'[UpstreamOf[k]] \notin {"unbound", "exited"}
    BY <1>1, <2>1, ClusterAssumption DEF ListenInv, TypeOK
  <2> QED BY <1>1, <2>1, <2>2, <2>3, Lists DEF ListenInv, FailedStartLeaksNothing, Before
<1> QED BY <1>2, <1>3, <1>4 DEF ShutdownStep

----------------------------------------------------------------------------
\* The command processor.

\* The processor serves one command at a time and leaves no envelope behind.
LEMMA CommandKept ==
    ASSUME TypeOK, ListenInv, CommandInv, [Next]_vars
    PROVE  CommandInv'
<1> USE DEF CommandInv
<1>1. CASE UNCHANGED commandVars
  BY <1>1 DEF commandVars
<1>2. CASE StartProcessor
  BY <1>2 DEF StartProcessor, ListenInv
<1>3. ASSUME NEW c \in Callers,
             \/ Connect(c) \/ Disconnect(c)
             \/ Send(c) \/ SendFails(c)
      PROVE  CommandInv'
  <2>1. /\ processor' = processor /\ queue' = queue
        /\ \E to \in {"away", "idle", "sending"} : call' = [call EXCEPT ![c] = to]
    BY <1>3 DEF Connect, Disconnect, Send, SendFails
  <2> QED BY <2>1 DEF TypeOK
<1>4. ASSUME NEW c \in Callers, Enqueue(c)
      PROVE  CommandInv'
  <2>1. queue' # <<>>
    <3>1. queue' = Append(queue, c) /\ queue \in Seq(Callers)
      BY <1>4 DEF Enqueue, TypeOK
    <3>2. Append(queue, c) # <<>>
      BY <3>1
    <3> QED BY <3>1, <3>2
  <2> QED BY <1>4, <2>1 DEF Enqueue, TypeOK
<1>5. ASSUME NEW c \in Callers, Reply(c)
      PROVE  CommandInv'
  BY <1>5 DEF Reply, TypeOK
<1>6. CASE Poll
  BY <1>6 DEF Poll
<1>7. CASE Receive
  <2>1. Head(queue) \in Callers
    BY <1>7 DEF Receive, TypeOK
  <2>2. \A c \in Callers : call[c] # "running"
    BY <1>7 DEF Receive
  <2> QED BY <1>7, <2>1, <2>2 DEF Receive, TypeOK
<1>8. CASE ProcessorStops
  BY <1>8 DEF ProcessorStops, TypeOK
<1>9. CASE UNCHANGED vars
  BY <1>9 DEF vars, commandVars
<1>10. CASE Reject \/ StartListener \/ StartFails \/ StartControl \/ Undone
  BY <1>1, <1>10 DEF Reject, StartListener, StartFails, StartControl, Undone
<1>11. CASE ListenStep
  BY <1>1, <1>11 DEF ListenStep, Accept, ConnEnds, ConnAborted, ListenerStep, SignalSeen,
                    AcceptFatal, StopAccepting, DrainTimesOut, ListenerExits
<1>12. CASE ControlStops \/ Shutdown \/ DropHandle \/ ShutdownStep \/ Flush \/ Tick
  BY <1>1, <1>12 DEF ControlStops, Shutdown, DropHandle, ShutdownStep, ListenerJoined,
                    ListenerKilled, Flush, CommandJoined, ControlJoined, Tick
<1> QED
  BY <1>2, <1>3, <1>4, <1>5, <1>6, <1>7, <1>8, <1>9, <1>10, <1>11, <1>12
  DEF Next, ListenStep, ProcessorStep

----------------------------------------------------------------------------
\* The joins of shutdown_with_timeout.

\* A step that changes neither phase nor the joins keeps what they established, if
\* what has ended stays ended.
LEMMA JoinStable ==
    ASSUME TypeOK, JoinInv,
           phase' = phase, joined' = joined, errors' = errors,
           \A u \in Upstreams : listener[u] = "exited" => listener'[u] = "exited",
           processor = "exited" => processor' = "exited",
           control' = "accepting" => control = "accepting"
    PROVE  JoinInv'
<1>1. \A i \in 1..joined : listener'[Sorted[i]] = "exited" \/ Sorted[i] \in errors
  BY Lists DEF JoinInv, TypeOK
<1> QED BY <1>1 DEF JoinInv

\* Before shutdown is called nothing is joined.
LEMMA JoinStart ==
    ASSUME TypeOK, JoinInv,
           Reject \/ StartListener \/ StartFails \/ StartProcessor \/ StartControl \/ Undone
    PROVE  JoinInv'
<1>1. joined' = joined /\ phase \in Before /\ phase' \in Before
  BY DEF Reject, StartListener, StartFails, StartProcessor, StartControl, Undone, joinVars,
         Before
<1> QED BY <1>1 DEF JoinInv, Before, AfterFlush

\* Listeners, connections and commands undo nothing that shutdown relies on.
LEMMA JoinOthers ==
    ASSUME TypeOK, CommandInv, JoinInv, ListenStep \/ CommandStep
    PROVE  JoinInv'
<1> USE DEF startVars, listenVars, commandVars, joinVars
<1>1. CASE ListenStep
  <2>1. /\ phase' = phase /\ joined' = joined /\ errors' = errors
        /\ processor' = processor /\ control' = control
    BY <1>1 DEF ListenStep, Accept, ConnEnds, ConnAborted, ListenerStep, SignalSeen,
                AcceptFatal, StopAccepting, DrainTimesOut, ListenerExits
  <2>2. \A u \in Upstreams : listener[u] = "exited" => listener'[u] = "exited"
    BY <1>1 DEF ListenStep, Accept, ConnEnds, ConnAborted, ListenerStep, SignalSeen,
                AcceptFatal, StopAccepting, DrainTimesOut, ListenerExits, TypeOK
  <2> QED BY <2>1, <2>2, JoinStable
<1>2. CASE CommandStep
  <2>1. phase' = phase /\ joined' = joined /\ errors' = errors /\ listener' = listener
    BY <1>2 DEF CommandStep, CallerStep, ProcessorStep, Connect, Disconnect, Send, Enqueue, SendFails, Reply, Poll, Receive,
                ProcessorStops, ControlStops
  <2>2. /\ processor = "exited" => processor' = "exited"
        /\ control' = "accepting" => control = "accepting"
    BY <1>2 DEF CommandStep, CallerStep, ProcessorStep, Connect, Disconnect, Send, Enqueue, SendFails, Reply, Poll, Receive,
                ProcessorStops, ControlStops, CommandInv
  <2> QED BY <2>1, <2>2, JoinStable
<1> QED BY <1>1, <1>2

\* Every join establishes that its task has ended, or notes the failure.
LEMMA JoinEnd ==
    ASSUME TypeOK, JoinInv, Shutdown \/ DropHandle \/ ShutdownStep \/ Flush \/ Tick
    PROVE  JoinInv'
<1> USE DEF startVars, listenVars, commandVars, joinVars
<1>1. joined \in 0..Len(Order) /\ Len(Order) \in Nat \ {0}
  BY Lists DEF TypeOK
<1>2. CASE Shutdown
  BY <1>1, <1>2 DEF Shutdown, JoinInv, Before, AfterFlush
<1>3. CASE DropHandle
  BY <1>3 DEF DropHandle, JoinInv, Before, AfterFlush
<1>4. CASE Tick
  <2>1. /\ phase' = phase /\ joined' = joined /\ errors' = errors /\ listener' = listener
        /\ processor' = processor /\ control' = control
    BY <1>4 DEF Tick
  <2> QED BY <2>1, JoinStable
<1>5. CASE ListenerJoined \/ ListenerKilled
  <2>1. /\ joined' = joined + 1 /\ phase = "joinListeners"
        /\ phase' = IF joined + 1 = Len(Order) THEN "flush" ELSE "joinListeners"
    BY <1>5 DEF ListenerJoined, ListenerKilled, NextJoin
  <2>2. joined < Len(Order)
    BY <2>1 DEF JoinInv
  <2>3. Awaited \in Upstreams /\ Awaited = Sorted[joined + 1]
    BY <1>1, <2>2, Lists DEF Awaited
  <2>4. listener'[Awaited] = "exited" \/ Awaited \in errors'
    BY <1>5 DEF ListenerJoined, ListenerKilled
  <2>5. /\ errors \subseteq errors'
        /\ \A u \in Upstreams : listener[u] = "exited" => listener'[u] = "exited"
    BY <1>5 DEF ListenerJoined, ListenerKilled, TypeOK
  <2>6. \A i \in 1..joined : listener'[Sorted[i]] = "exited" \/ Sorted[i] \in errors'
    BY <1>1, <2>5, Lists DEF JoinInv
  <2>7. \A i \in 1..joined' : listener'[Sorted[i]] = "exited" \/ Sorted[i] \in errors'
    BY <1>1, <2>1, <2>3, <2>4, <2>6
  <2> QED BY <1>1, <2>1, <2>2, <2>7 DEF JoinInv, Before, AfterFlush
<1>6. CASE Flush
  BY <1>6 DEF Flush, JoinInv, Before, AfterFlush
<1>7. CASE CommandJoined
  <2>1. /\ phase = "joinCommand" /\ phase' = AfterCommand /\ joined' = joined
        /\ listener' = listener /\ processor' = processor /\ control' = control
        /\ errors \subseteq errors'
        /\ processor = "exited" \/ "command" \in errors'
    BY <1>7 DEF CommandJoined
  <2> QED BY <2>1 DEF AfterCommand, JoinInv, Before, AfterFlush
<1>8. CASE ControlJoined
  BY <1>8 DEF ControlJoined, JoinInv, Before, AfterFlush
<1> QED BY <1>2, <1>3, <1>4, <1>5, <1>6, <1>7, <1>8 DEF ShutdownStep

----------------------------------------------------------------------------
\* The time shutdown_with_timeout takes.

Outer == Budget + Slack

\* What is spent and what may still be spent in the current wait.
TimeInv ==
    /\ phase \in Before => joinTime = 0
    /\ phase \notin Before => signal # "none"
    /\ phase = "joinListeners" => joinTime + joinLeft <= (joined + 1) * Outer
    /\ phase = "flush" => joinTime <= Len(Order) * Outer
    /\ phase = "joinCommand" => joinTime + joinLeft <= Len(Order) * Outer + Budget
    /\ phase = "joinControl" => control # "none"
    /\ phase \in {"joinControl", "closed"} => joinTime <= Len(Order) * Outer + Budget

\* One more listener costs one more outer limit.
LEMMA OneMore == \A n, m \in Nat : n * m \in Nat /\ (n + 1) * m = n * m + m
OBVIOUS

\* Time passes only in a join that has some left, and a join starts with what it is
\* given.
LEMMA TimeKept ==
    ASSUME TypeOK, JoinInv, TimeInv, [Next]_vars
    PROVE  TimeInv'
<1> USE DEF startVars, listenVars, commandVars, joinVars
<1>1. /\ joined \in 0..Len(Order) /\ Len(Order) \in Nat /\ joinTime \in Nat /\ joinLeft \in Nat
      /\ Outer \in Nat /\ Budget \in Nat
  BY Lists, Deadlines DEF TypeOK, Outer
<1>2. CASE UNCHANGED <<phase, signal, joined, joinLeft, joinTime, control>>
  BY <1>2 DEF TimeInv
<1>3. CASE Reject \/ StartListener \/ StartFails \/ StartProcessor \/ StartControl \/ Undone
           \/ DropHandle
  <2>1. phase \in Before /\ phase' \in Before /\ joinTime' = joinTime
    BY <1>3 DEF Reject, StartListener, StartFails, StartProcessor, StartControl, Undone,
                DropHandle, Before
  <2> QED BY <2>1 DEF TimeInv, Before
<1>4. CASE ListenStep
  BY <1>2, <1>4 DEF ListenStep, Accept, ConnEnds, ConnAborted, ListenerStep, SignalSeen,
                    AcceptFatal, StopAccepting, DrainTimesOut, ListenerExits
<1>5. CASE (\E c \in Callers : CallerStep(c)) \/ ProcessorStep
  BY <1>2, <1>5 DEF CallerStep, ProcessorStep, Connect, Disconnect, Send, Enqueue,
                    SendFails, Reply, Poll, Receive, ProcessorStops
<1>6. CASE ControlStops
  BY <1>6 DEF ControlStops, TimeInv
<1>7. CASE Shutdown
  <2>1. joined = 0 /\ joinTime = 0
    BY <1>7 DEF Shutdown, Before, JoinInv, TimeInv
  <2>2. (joined + 1) * Outer = Outer
    BY <1>1, <2>1
  <2> QED BY <1>1, <1>7, <2>1, <2>2 DEF Shutdown, TimeInv, Before, Outer
<1>8. CASE ListenerJoined \/ ListenerKilled
  <2>1. /\ joined' = joined + 1 /\ phase = "joinListeners" /\ joinTime' = joinTime
        /\ joinLeft' = Outer /\ signal' = signal
        /\ phase' = IF joined + 1 = Len(Order) THEN "flush" ELSE "joinListeners"
    BY <1>8 DEF ListenerJoined, ListenerKilled, NextJoin, Outer
  <2> DEFINE spent == (joined + 1) * Outer
             next == (joined' + 1) * Outer
  <2>2. joinTime <= spent /\ spent \in Nat
    BY <1>1, <2>1, OneMore DEF TimeInv
  <2>3. next = spent + Outer
    BY <1>1, <2>1, OneMore
  <2>4. joined + 1 = Len(Order) => spent = Len(Order) * Outer
    OBVIOUS
  <2>5. signal # "none"
    BY <2>1 DEF TimeInv, Before
  <2>6. phase' = "joinListeners" => joinTime' + joinLeft' <= next
    <3> HIDE DEF spent, next
    <3> QED BY <1>1, <2>1, <2>2, <2>3
  <2>7. phase' = "flush" => joinTime' <= Len(Order) * Outer
    BY <2>1, <2>2, <2>4
  <2> QED BY <2>1, <2>5, <2>6, <2>7 DEF TimeInv, Before
<1>9. CASE Flush
  <2>1. Len(Order) * Outer \in Nat
    BY <1>1, OneMore
  <2> QED BY <1>1, <1>9, <2>1 DEF Flush, TimeInv, Before
<1>10. CASE CommandJoined
  <2>1. /\ phase = "joinCommand" /\ phase' = AfterCommand /\ joinTime' = joinTime
        /\ control' = control /\ signal' = signal
    BY <1>10 DEF CommandJoined
  <2>2. Len(Order) * Outer \in Nat
    BY <1>1, OneMore
  <2>3. joinTime <= Len(Order) * Outer + Budget
    BY <1>1, <2>1, <2>2 DEF TimeInv
  <2> QED BY <2>1, <2>3 DEF AfterCommand, TimeInv, Before
<1>11. CASE ControlJoined
  BY <1>11 DEF ControlJoined, TimeInv, Before
<1>12. CASE Tick
  <2>1. /\ phase' = phase /\ signal' = signal /\ joined' = joined /\ control' = control
        /\ phase \notin Joining => joinTime' = joinTime
        /\ phase \in Joining => joinTime' \in {joinTime, joinTime + 1} /\ joinLeft' = Down(joinLeft)
        /\ Settled
    BY <1>12 DEF Tick
  <2>2. phase \in {"joinListeners", "joinCommand"} => joinLeft > 0
    BY <2>1 DEF Settled, ShutdownSettled
  <2>3. phase # "joinControl"
    BY <2>1 DEF Settled, ShutdownSettled, TypeOK, TimeInv, Before
  <2>4. phase \in {"joinListeners", "joinCommand"} =>
           joinTime' \in Nat /\ joinTime' + joinLeft' <= joinTime + joinLeft
    BY <1>1, <2>1, <2>2 DEF Down, Joining
  <2>5. (joined + 1) * Outer \in Nat /\ Len(Order) * Outer + Budget \in Nat
    BY <1>1, OneMore
  <2>6. joinLeft' \in Nat
    BY <1>1, <1>12 DEF Tick, Down
  <2>7. phase = "joinListeners" => joinTime' + joinLeft' <= (joined + 1) * Outer
    BY <1>1, <2>4, <2>5, <2>6 DEF TimeInv
  <2>8. phase = "joinCommand" => joinTime' + joinLeft' <= Len(Order) * Outer + Budget
    BY <1>1, <2>4, <2>5, <2>6 DEF TimeInv
  <2> QED BY <2>1, <2>3, <2>7, <2>8 DEF TimeInv, Before, Joining
<1>13. CASE UNCHANGED vars
  BY <1>2, <1>13 DEF vars
<1> QED
  BY <1>3, <1>4, <1>5, <1>6, <1>7, <1>8, <1>9, <1>10, <1>11, <1>12, <1>13
  DEF Next, ListenStep, CallerStep, ShutdownStep

----------------------------------------------------------------------------
\* Together.

\* Every step keeps the invariant.
LEMMA InvStep ==
    ASSUME Inv, [Next]_vars
    PROVE  Inv'
<1>1. CommandInv'
  BY CommandKept DEF Inv
<1>2. CASE Reject \/ StartListener \/ StartFails \/ StartProcessor \/ StartControl \/ Undone
  BY <1>1, <1>2, TypeStart, ListenStart, JoinStart DEF Inv
<1>3. CASE ListenStep
  BY <1>1, <1>3, TypeListen, ListenListen, JoinOthers DEF Inv
<1>4. CASE CommandStep
  BY <1>1, <1>4, TypeCommand, ListenCommand, JoinOthers DEF Inv
<1>5. CASE Shutdown \/ DropHandle \/ ShutdownStep \/ Flush \/ Tick
  BY <1>1, <1>5, TypeEnd, ListenEnd, JoinEnd DEF Inv
<1>6. CASE UNCHANGED vars
  <2> USE <1>6 DEF vars, startVars, listenVars, commandVars, joinVars
  <2>1. TypeOK'
    BY DEF Inv, TypeOK
  <2>2. ListenInv'
    BY DEF Inv, ListenInv, FailedStartLeaksNothing
  <2>3. JoinInv'
    BY DEF Inv, JoinInv
  <2> QED BY <1>1, <2>1, <2>2, <2>3 DEF Inv
<1> QED BY <1>2, <1>3, <1>4, <1>5, <1>6 DEF Next, ListenStep, CommandStep, CallerStep

\* The invariant holds in every state of an execution.
LEMMA Invariance == Spec => []Inv
<1>1. Init => CommandInv /\ JoinInv
  BY Lists DEF Init, CommandInv, JoinInv, Before, AfterFlush
<1>2. Init => Inv
  BY <1>1, TypeInit, ListenInit DEF Inv
<1>3. Inv /\ [Next]_vars => Inv'
  BY InvStep
<1> QED BY <1>2, <1>3, PTL DEF Spec

\* When every listener was joined, each has ended or is reported.
LEMMA AllJoined ==
    ASSUME Inv, phase \in {"flush"} \cup AfterFlush, NEW u \in Upstreams
    PROVE  listener[u] = "exited" \/ u \in errors
<1>1. PICK i \in 1..Len(Order) : Sorted[i] = u
  BY Lists
<1> QED BY <1>1 DEF Inv, JoinInv

\* Every variable keeps its type: among others, the command channel never holds
\* more than its capacity.
THEOREM ClusterTypeCorrect == Spec => []TypeOK
BY Invariance, PTL DEF Inv

\* A bring-up that fails returns its error only when every accept loop, every
\* connection and the command processor it started have ended.
THEOREM FailedStartIsClean == Spec => []FailedStartLeaksNothing
<1>1. Inv => FailedStartLeaksNothing
  BY DEF Inv, ListenInv
<1> QED BY <1>1, Invariance, PTL

\* If every listener was joined in time, no connection runs once the storage
\* backends are flushed.
THEOREM FlushFences == Spec => []FlushIsFence
<1>1. Inv => FlushIsFence
  <2> SUFFICES ASSUME Inv, phase \in AfterFlush, errors \cap Upstreams = {}, NEW k \in Conns
               PROVE  conn[k] # "serving"
    BY DEF FlushIsFence
  <2>1. UpstreamOf[k] \in Upstreams
    BY ClusterAssumption
  <2>2. listener[UpstreamOf[k]] = "exited"
    BY <2>1, AllJoined
  <2> QED BY <2>2 DEF Inv, ListenInv
<1> QED BY <1>1, Invariance, PTL

\* A shutdown that reports no error leaves no accept loop, connection, command
\* processor or queued command behind.
THEOREM CleanShutdown == Spec => []CleanShutdownIsQuiet
<1>1. Inv => CleanShutdownIsQuiet
  <2> SUFFICES ASSUME Inv, phase = "closed", errors = {}
               PROVE  /\ \A u \in Upstreams : listener[u] = "exited"
                      /\ \A k \in Conns : conn[k] # "serving"
                      /\ processor = "exited" /\ queue = <<>>
                      /\ control # "accepting"
    BY DEF CleanShutdownIsQuiet
  <2>1. \A u \in Upstreams : listener[u] = "exited"
    BY AllJoined DEF AfterFlush
  <2>2. ASSUME NEW k \in Conns PROVE conn[k] # "serving"
    <3>1. UpstreamOf[k] \in Upstreams
      BY ClusterAssumption
    <3> QED BY <2>1, <3>1 DEF Inv, ListenInv
  <2>3. processor = "exited" /\ control # "accepting"
    BY DEF Inv, JoinInv
  <2> QED BY <2>1, <2>2, <2>3 DEF Inv, CommandInv
<1> QED BY <1>1, Invariance, PTL

\* The joins of shutdown_with_timeout take no longer than the sum of their limits: one
\* outer limit per listener, and the budget for the command task, whatever connections
\* and commands do. (The flush, which has no limit, is not part of joinTime.)
THEOREM JoinTime == Spec => []JoinsBounded
<1>1. Init => TimeInv
  BY DEF Init, TimeInv, Before
<1>2. Inv /\ TimeInv /\ [Next]_vars => TimeInv'
  BY TimeKept DEF Inv
<1>3. Inv /\ TimeInv => JoinsBounded
  <2> SUFFICES ASSUME Inv, TimeInv PROVE joinTime <= Len(Order) * Outer + Budget
    BY DEF JoinsBounded, JoinLimit, Outer
  <2>1. /\ joined \in 0..Len(Order) /\ Len(Order) \in Nat /\ joinTime \in Nat
        /\ joinLeft \in Nat /\ Outer \in Nat /\ Budget \in Nat
    BY Lists, Deadlines DEF Inv, TypeOK, Outer
  <2>2. Len(Order) * Outer \in Nat
    BY <2>1, OneMore
  <2>3. CASE phase = "joinListeners"
    <3>1. joined + 1 <= Len(Order)
      BY <2>1, <2>3 DEF Inv, JoinInv
    <3>2. (joined + 1) * Outer <= Len(Order) * Outer
      <4>1. \A a, b, c \in Nat : a <= b => a * c <= b * c
        OBVIOUS
      <4> QED BY <2>1, <3>1, <4>1
    <3>3. (joined + 1) * Outer \in Nat
      BY <2>1, OneMore
    <3>4. joinTime + joinLeft <= (joined + 1) * Outer
      BY <2>3 DEF TimeInv
    <3> DEFINE one == (joined + 1) * Outer
               all == Len(Order) * Outer
    <3> HIDE DEF one, all
    <3> QED BY <2>1, <2>2, <3>2, <3>3, <3>4 DEF one, all
  <2>4. CASE phase # "joinListeners"
    <3>1. phase \in Before \cup {"flush", "joinCommand", "joinControl", "closed"}
      BY <2>4 DEF Inv, TypeOK, Phases, Joining, Before
    <3> QED BY <2>1, <2>2, <3>1 DEF TimeInv
  <2> QED BY <2>3, <2>4
<1> QED BY <1>1, <1>2, <1>3, Invariance, PTL DEF Spec
============================================================================
