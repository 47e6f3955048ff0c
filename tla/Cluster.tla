------------------------------ MODULE Cluster -------------------------------
(***************************************************************************)
(* The life of a cluster (partly-proxy-lib/src/builder.rs run, cluster.rs, *)
(* the accept loop of listener.rs, the command channel of command.rs and   *)
(* the TCP control plane of control_plane.rs): bring-up and its teardown   *)
(* when one listener fails, the command processor and its callers, and the *)
(* graceful shutdown with its three kinds of deadline.                     *)
(*                                                                         *)
(* What a connection does while it is served is module Proxy's business,   *)
(* what a command does while it is dispatched module WaitFor's: here a     *)
(* connection or a command merely takes as long as it takes.               *)
(*                                                                         *)
(* Time advances in whole seconds (Tick) and only when no task is ready to *)
(* run: a runnable task needs much less than a second.                     *)
(***************************************************************************)
EXTENDS Integers, Sequences, FiniteSets

CONSTANTS
    Order,          \* upstream names, in the order they were added
    Sorted,         \* the same names in the order of the handle's BTreeMap
    Conns,          \* inbound HTTP connections
    UpstreamOf,     \* the listener each of them arrives at
    Wedged,         \* connections that do not yield when aborted
    Callers,        \* holders of a CommandSender
    TcpCallers,     \* those of them that are TCP control connections
    QueueCap,       \* capacity of the command channel
    Budget,         \* drain budget given to shutdown_with_timeout, seconds
    Slack,          \* the outer slack on top of it
    DefaultDrain,   \* drain deadline when no budget was sent
    FatalAccepts,   \* listeners whose accept() may fail for good
    MaxFlush        \* bound: the longest the final flush takes, seconds

Upstreams == {Order[i] : i \in 1..Len(Order)}

ASSUME ClusterAssumption ==
    /\ Order \in Seq(Upstreams) /\ Order # <<>>
    /\ \A i, j \in 1..Len(Order) : Order[i] = Order[j] => i = j
    /\ Sorted \in [1..Len(Order) -> Upstreams]
    /\ \A u \in Upstreams : \E i \in 1..Len(Order) : Sorted[i] = u
    /\ UpstreamOf \in [Conns -> Upstreams]
    /\ Wedged \subseteq Conns
    /\ TcpCallers \subseteq Callers
    /\ QueueCap \in Nat \ {0}
    /\ {Budget, Slack, DefaultDrain, MaxFlush} \subseteq Nat
    /\ FatalAccepts \subseteq Upstreams

VARIABLES
    phase,      \* progress of run() and then of shutdown_with_timeout()
    started,    \* listeners run() has started, a prefix of Order
    signal,     \* the shutdown watch: what was sent, or that its sender is gone
    listener,   \* state of each accept loop
    drainLeft,  \* seconds left of each listener's drain deadline
    conn,       \* state of each connection
    processor,  \* state of the command processor
    queue,      \* the command channel: callers whose envelope is in it
    call,       \* progress of each caller's send()
    control,    \* state of the TCP control accept loop
    joined,     \* listeners that shutdown has joined, a prefix of Sorted
    joinLeft,   \* seconds left of the join shutdown is waiting in
    joinTime,   \* seconds shutdown has waited in its joins
    flushTime,  \* seconds it has waited for the final flush
    errors      \* the parts whose join or flush failed

startVars == <<phase, started, signal>>
listenVars == <<listener, drainLeft, conn>>
commandVars == <<processor, queue, call>>
joinVars == <<joined, joinLeft, joinTime, flushTime, errors>>
vars == <<startVars, listenVars, commandVars, control, joinVars>>

Joining == {"joinListeners", "joinCommand", "joinControl"}
AfterFlush == {"joinCommand", "joinControl", "closed"}
Phases == {"starting", "startingPlanes", "undo", "failed", "up", "dropped", "flush", "closed"}
            \cup Joining

TypeOK ==
    /\ phase \in Phases
    /\ started \in 0..Len(Order)
    /\ signal \in {"none", "zero", "budget", "closed"}
    /\ listener \in [Upstreams -> {"unbound", "accepting", "draining", "aborting",
                                   "exited", "killed"}]
    /\ drainLeft \in [Upstreams -> Nat]
    /\ conn \in [Conns -> {"new", "serving", "ended"}]
    /\ processor \in {"none", "idle", "polling", "busy", "exited"}
    /\ queue \in Seq(Callers) /\ Len(queue) <= QueueCap
    /\ call \in [Callers -> {"away", "idle", "sending", "queued", "running"}]
    /\ control \in {"none", "accepting", "exited"}
    /\ joined \in 0..Len(Order)
    /\ joinLeft \in Nat
    /\ joinTime \in Nat
    /\ flushTime \in 0..MaxFlush
    /\ errors \in SUBSET (Upstreams \cup {"flush", "command", "control"})

Init ==
    /\ phase = "starting"
    /\ started = 0
    /\ signal = "none"
    /\ listener = [u \in Upstreams |-> "unbound"]
    /\ drainLeft = [u \in Upstreams |-> 0]
    /\ conn = [k \in Conns |-> "new"]
    /\ processor = "none"
    /\ queue = <<>>
    /\ call = [c \in Callers |-> IF c \in TcpCallers THEN "away" ELSE "idle"]
    /\ control = "none"
    /\ joined = 0
    /\ joinLeft = 0
    /\ joinTime = 0
    /\ flushTime = 0
    /\ errors = {}

----------------------------------------------------------------------------
\* Bring-up: ProxyClusterBuilder::run.

\* A duplicate name or a storage backend that fails to load: nothing is started.
Reject ==
    /\ phase = "starting" /\ started = 0
    /\ phase' = "failed"
    /\ UNCHANGED <<started, signal, listenVars, commandVars, control, joinVars>>

\* spawn_listener binds the next listener and spawns its accept loop.
StartListener ==
    /\ phase = "starting" /\ started < Len(Order)
    /\ started' = started + 1
    /\ listener' = [listener EXCEPT ![Order[started + 1]] = "accepting"]
    /\ UNCHANGED <<phase, signal, drainLeft, conn, commandVars, control, joinVars>>

\* Binding, the TLS acceptor or the forwarder fails: tell what was brought up to
\* stop at once.
StartFails ==
    /\ \/ phase = "starting" /\ started < Len(Order)
       \/ phase = "startingPlanes"
    /\ signal' = "zero"
    /\ phase' = "undo"
    /\ UNCHANGED <<started, listenVars, commandVars, control, joinVars>>

StartProcessor ==
    /\ phase = "starting" /\ started = Len(Order)
    /\ processor' = "idle"
    /\ phase' = "startingPlanes"
    /\ UNCHANGED <<started, signal, listenVars, queue, call, control, joinVars>>

\* The TCP control plane, if one is configured, and then the handle is returned.
StartControl ==
    /\ phase = "startingPlanes"
    /\ control' \in {"none", "accepting"}
    /\ phase' = "up"
    /\ UNCHANGED <<started, signal, listenVars, commandVars, joinVars>>

\* Mutant of Undone: the tasks are not awaited.
UndoneAtOnce ==
    /\ phase = "undo"
    /\ phase' = "failed"
    /\ UNCHANGED <<started, signal, listenVars, commandVars, control, joinVars>>

\* run() returns its error once every task it had spawned has ended.
Undone ==
    /\ phase = "undo"
    /\ \A i \in 1..started : listener[Order[i]] = "exited"
    /\ processor \in {"none", "exited"}
    /\ phase' = "failed"
    /\ UNCHANGED <<started, signal, listenVars, commandVars, control, joinVars>>

----------------------------------------------------------------------------
\* Listeners and connections: accept_loop and serve_one.

Serving(u) == {k \in Conns : UpstreamOf[k] = u /\ conn[k] = "serving"}

\* A connection is accepted and tracked. The signal may come between the loop's
\* check of it and the accept.
Accept(k) ==
    /\ conn[k] = "new"
    /\ listener[UpstreamOf[k]] = "accepting"
    /\ conn' = [conn EXCEPT ![k] = "serving"]
    /\ UNCHANGED <<startVars, listener, drainLeft, commandVars, control, joinVars>>

\* The connection finishes by itself, gracefully or not.
ConnEnds(k) ==
    /\ conn[k] = "serving"
    /\ conn' = [conn EXCEPT ![k] = "ended"]
    /\ UNCHANGED <<startVars, listener, drainLeft, commandVars, control, joinVars>>

DrainDeadline ==
    CASE signal = "zero" -> 0
      [] signal = "budget" -> Budget
      [] OTHER -> DefaultDrain

\* The loop is left on the signal, on the loss of its sender, or on a fatal
\* accept error; the drain starts.
StopAccepting(u) ==
    /\ listener[u] = "accepting"
    /\ listener' = [listener EXCEPT ![u] = "draining"]
    /\ drainLeft' = [drainLeft EXCEPT ![u] = DrainDeadline]
    /\ UNCHANGED <<startVars, conn, commandVars, control, joinVars>>

\* Mutant of SignalSeen: the loss of the sender is taken for nothing.
SignalSeenSent(u) == signal \in {"zero", "budget"} /\ StopAccepting(u)

SignalSeen(u) == signal # "none" /\ StopAccepting(u)

AcceptFatal(u) == u \in FatalAccepts /\ StopAccepting(u)

\* tracker.wait() timed out: abort_token is cancelled.
DrainTimesOut(u) ==
    /\ listener[u] = "draining"
    /\ drainLeft[u] = 0
    /\ Serving(u) # {}
    /\ listener' = [listener EXCEPT ![u] = "aborting"]
    /\ UNCHANGED <<startVars, drainLeft, conn, commandVars, control, joinVars>>

\* serve_one sees the abort token and drops the connection's future.
ConnAborted(k) ==
    /\ conn[k] = "serving"
    /\ k \notin Wedged
    /\ listener[UpstreamOf[k]] = "aborting"
    /\ conn' = [conn EXCEPT ![k] = "ended"]
    /\ UNCHANGED <<startVars, listener, drainLeft, commandVars, control, joinVars>>

\* Mutant of ListenerExits: the second tracker.wait() is missing.
ListenerExitsOnAbort(u) ==
    /\ listener[u] \in {"draining", "aborting"}
    /\ Serving(u) = {} \/ listener[u] = "aborting"
    /\ listener' = [listener EXCEPT ![u] = "exited"]
    /\ UNCHANGED <<startVars, drainLeft, conn, commandVars, control, joinVars>>

\* tracker.wait() returned: every tracked connection has ended.
ListenerExits(u) ==
    /\ listener[u] \in {"draining", "aborting"}
    /\ Serving(u) = {}
    /\ listener' = [listener EXCEPT ![u] = "exited"]
    /\ UNCHANGED <<startVars, drainLeft, conn, commandVars, control, joinVars>>

----------------------------------------------------------------------------
\* The command channel: CommandSender::send and process_loop.

\* A TCP control connection is accepted; it then reads lines.
Connect(c) ==
    /\ c \in TcpCallers /\ call[c] = "away"
    /\ control = "accepting"
    /\ call' = [call EXCEPT ![c] = "idle"]
    /\ UNCHANGED <<startVars, listenVars, processor, queue, control, joinVars>>

\* serve_connection returns: end of input, a failed write, or the signal.
Disconnect(c) ==
    /\ c \in TcpCallers /\ call[c] = "idle"
    /\ call' = [call EXCEPT ![c] = "away"]
    /\ UNCHANGED <<startVars, listenVars, processor, queue, control, joinVars>>

\* send() is called; a clone of the sender may outlive the handle. A TCP connection
\* looks at the signal before it takes its next line, and answers a line that is no
\* command by itself.
Send(c) ==
    /\ phase \notin {"starting", "startingPlanes", "undo", "failed"}
    /\ call[c] = "idle"
    /\ c \in TcpCallers => signal = "none"
    /\ call' = [call EXCEPT ![c] = "sending"]
    /\ UNCHANGED <<startVars, listenVars, processor, queue, control, joinVars>>

\* Mutant of Enqueue: the channel is unbounded.
EnqueueUnbounded(c) ==
    /\ call[c] = "sending"
    /\ processor # "exited"
    /\ queue' = Append(queue, c)
    /\ call' = [call EXCEPT ![c] = "queued"]
    /\ UNCHANGED <<startVars, listenVars, processor, control, joinVars>>

\* The envelope goes into the bounded channel as soon as there is room.
Enqueue(c) ==
    /\ call[c] = "sending"
    /\ processor # "exited"
    /\ Len(queue) < QueueCap
    /\ queue' = Append(queue, c)
    /\ call' = [call EXCEPT ![c] = "queued"]
    /\ UNCHANGED <<startVars, listenVars, processor, control, joinVars>>

\* "command channel closed": the receiver is gone, also for blocked senders.
SendFails(c) ==
    /\ call[c] = "sending"
    /\ processor = "exited"
    /\ call' = [call EXCEPT ![c] = "idle"]
    /\ UNCHANGED <<startVars, listenVars, processor, queue, control, joinVars>>

\* One poll of the biased select: shutdown is looked at first, then the channel;
\* the signal may be sent in between.
Poll ==
    /\ processor = "idle"
    /\ signal = "none" /\ queue # <<>>
    /\ processor' = "polling"
    /\ UNCHANGED <<startVars, listenVars, queue, call, control, joinVars>>

Receive ==
    /\ processor = "polling"
    /\ processor' = "busy"
    /\ queue' = Tail(queue)
    /\ call' = [call EXCEPT ![Head(queue)] = "running"]
    /\ UNCHANGED <<startVars, listenVars, control, joinVars>>

\* dispatch returned and the reply is sent. An assertion takes up to its own
\* timeout, and dispatch does not look at the signal.
Reply(c) ==
    /\ call[c] = "running"
    /\ call' = [call EXCEPT ![c] = "idle"]
    /\ processor' = "idle"
    /\ UNCHANGED <<startVars, listenVars, queue, control, joinVars>>

\* Mutant of ProcessorStops: queued envelopes are kept, and their reply channels.
ProcessorStopsSilently ==
    /\ processor = "idle" /\ signal # "none"
    /\ processor' = "exited"
    /\ UNCHANGED <<startVars, listenVars, queue, call, control, joinVars>>

\* The processor returns and drops the receiver: every envelope still queued is
\* dropped with its reply channel, and its caller gets "command reply dropped".
ProcessorStops ==
    /\ processor = "idle" /\ signal # "none"
    /\ processor' = "exited"
    /\ queue' = <<>>
    /\ call' = [c \in Callers |-> IF call[c] = "queued" THEN "idle" ELSE call[c]]
    /\ UNCHANGED <<startVars, listenVars, control, joinVars>>

\* The control accept loop ends on the signal or on a fatal accept error. Its
\* connections are not tracked.
ControlStops ==
    /\ control = "accepting"
    /\ control' = "exited"
    /\ UNCHANGED <<startVars, listenVars, commandVars, joinVars>>

----------------------------------------------------------------------------
\* The end: ClusterHandle::shutdown_with_timeout, or the handle is dropped.

\* The signal carries the budget; the listeners are joined one after the other,
\* each for at most budget + slack.
Shutdown ==
    /\ phase = "up"
    /\ phase' = "joinListeners"
    /\ signal' = "budget"
    /\ joinLeft' = Budget + Slack
    /\ UNCHANGED <<started, listenVars, commandVars, control, joined, joinTime, flushTime, errors>>

\* Dropping the handle drops the sender of the watch.
DropHandle ==
    /\ phase = "up"
    /\ phase' = "dropped"
    /\ signal' = "closed"
    /\ UNCHANGED <<started, listenVars, commandVars, control, joinVars>>

\* The listener shutdown is waiting for.
Awaited == Sorted[joined + 1]

NextJoin ==
    /\ joined' = joined + 1
    /\ joinLeft' = Budget + Slack
    /\ phase' = IF joined + 1 = Len(Order) THEN "flush" ELSE "joinListeners"

ListenerJoined ==
    /\ phase = "joinListeners"
    /\ listener[Awaited] = "exited"
    /\ NextJoin
    /\ UNCHANGED <<started, signal, listenVars, commandVars, control, joinTime, flushTime, errors>>

\* The accept loop is aborted. Its connections are tasks of their own: they are
\* neither aborted nor told to stop by that.
ListenerKilled ==
    /\ phase = "joinListeners"
    /\ listener[Awaited] # "exited"
    /\ joinLeft = 0
    /\ listener' = [listener EXCEPT ![Awaited] = "killed"]
    /\ errors' = errors \cup {Awaited}
    /\ NextJoin
    /\ UNCHANGED <<started, signal, drainLeft, conn, commandVars, control, joinTime, flushTime>>

\* Mutant of Flush: the next join keeps the outer limit.
FlushOuter ==
    /\ phase = "flush"
    /\ errors' \in {errors, errors \cup {"flush"}}
    /\ joinLeft' = Budget + Slack
    /\ phase' = "joinCommand"
    /\ UNCHANGED <<started, signal, listenVars, commandVars, control, joined, joinTime, flushTime>>

\* The storage backends are fenced, without a timeout; a failure is only noted.
Flush ==
    /\ phase = "flush"
    /\ errors' \in {errors, errors \cup {"flush"}}
    /\ joinLeft' = Budget
    /\ phase' = "joinCommand"
    /\ UNCHANGED <<started, signal, listenVars, commandVars, control, joined, joinTime, flushTime>>

AfterCommand == IF control = "none" THEN "closed" ELSE "joinControl"

\* Mutants of CommandJoined: the error is swallowed; the join has no timeout.
CommandJoinedQuietly ==
    /\ phase = "joinCommand"
    /\ processor = "exited" \/ joinLeft = 0
    /\ joinLeft' = Budget
    /\ phase' = AfterCommand
    /\ UNCHANGED <<started, signal, listenVars, commandVars, control, joined, joinTime, flushTime, errors>>

CommandJoinedUntimed ==
    /\ phase = "joinCommand"
    /\ processor = "exited"
    /\ joinLeft' = Budget
    /\ phase' = AfterCommand
    /\ UNCHANGED <<started, signal, listenVars, commandVars, control, joined, joinTime, flushTime, errors>>

\* The command task ended in time, or is left to itself.
CommandJoined ==
    /\ phase = "joinCommand"
    /\ \/ processor = "exited" /\ UNCHANGED errors
       \/ processor # "exited" /\ joinLeft = 0 /\ errors' = errors \cup {"command"}
    /\ joinLeft' = Budget
    /\ phase' = AfterCommand
    /\ UNCHANGED <<started, signal, listenVars, commandVars, control, joined, joinTime, flushTime>>

\* The control accept loop waits for nothing but connections and the signal: only a
\* zero budget can be too short for it.
ControlJoined ==
    /\ phase = "joinControl"
    /\ control = "exited" \/ joinLeft = 0
    /\ errors' = IF control = "exited" THEN errors ELSE errors \cup {"control"}
    /\ phase' = "closed"
    /\ UNCHANGED <<started, signal, listenVars, commandVars, control, joined, joinLeft, joinTime, flushTime>>

\* What the runtime does without anybody's help once it can.
ListenerStep(u) == SignalSeen(u) \/ DrainTimesOut(u) \/ ListenerExits(u)
ShutdownStep ==
    ListenerJoined \/ ListenerKilled \/ CommandJoined \/ ControlJoined
ProcessorStep == Poll \/ Receive \/ ProcessorStops

\* Every task waits for time, for a peer or for a command to end: none of the
\* steps above is possible, nor ControlStops on the signal, nor ConnAborted.
ListenerSettled(u) ==
    CASE listener[u] = "accepting" -> signal = "none"
      [] listener[u] = "draining"  -> drainLeft[u] > 0 /\ Serving(u) # {}
      [] listener[u] = "aborting"  -> Serving(u) # {} /\ Serving(u) \subseteq Wedged
      [] OTHER -> TRUE

ProcessorSettled ==
    CASE processor = "idle"    -> signal = "none" /\ queue = <<>>
      [] processor = "polling" -> FALSE
      [] OTHER -> TRUE

ShutdownSettled ==
    CASE phase = "joinListeners" -> listener[Awaited] # "exited" /\ joinLeft > 0
      [] phase = "flush"         -> flushTime < MaxFlush
      [] phase = "joinCommand"   -> processor # "exited" /\ joinLeft > 0
      [] phase = "joinControl"   -> control # "exited" /\ joinLeft > 0
      [] OTHER -> TRUE

Settled ==
    /\ \A u \in Upstreams : ListenerSettled(u)
    /\ ProcessorSettled
    /\ control = "accepting" => signal = "none"
    /\ ShutdownSettled

\* A second passes: the running timers count down.
Down(n) == IF n = 0 THEN 0 ELSE n - 1

\* How long shutdown_with_timeout can wait in its joins: every listener may use up
\* its own outer limit, and the command task the budget once more. joinTime counts
\* no further than the first second past it.
JoinLimit == Len(Order) * (Budget + Slack) + Budget

Tick ==
    /\ Settled
    /\ \/ phase \in Joining \cup {"flush"}
       \/ \E u \in Upstreams : listener[u] = "draining"
    /\ drainLeft' = [u \in Upstreams |->
                        IF listener[u] = "draining" THEN Down(drainLeft[u]) ELSE drainLeft[u]]
    /\ joinLeft' = IF phase \in Joining THEN Down(joinLeft) ELSE joinLeft
    /\ joinTime' = IF phase \in Joining /\ joinTime <= JoinLimit THEN joinTime + 1 ELSE joinTime
    /\ flushTime' = IF phase = "flush" THEN flushTime + 1 ELSE flushTime
    /\ UNCHANGED <<startVars, listener, conn, commandVars, control, joined, errors>>

Next ==
    \/ Reject \/ StartListener \/ StartFails \/ StartProcessor \/ StartControl \/ Undone
    \/ \E k \in Conns : Accept(k) \/ ConnEnds(k) \/ ConnAborted(k)
    \/ \E u \in Upstreams : ListenerStep(u) \/ AcceptFatal(u)
    \/ \E c \in Callers : \/ Connect(c) \/ Disconnect(c) \/ Send(c)
                           \/ Enqueue(c) \/ SendFails(c) \/ Reply(c)
    \/ ProcessorStep
    \/ ControlStops
    \/ Shutdown \/ DropHandle \/ ShutdownStep \/ Flush
    \/ Tick

Spec == Init /\ [][Next]_vars

\* Runnable tasks are polled and time goes on. The channel serves blocked senders
\* in the order they came. The storage backends return from the flush, which has no
\* timeout. Nothing is assumed of connections, of callers, or of how long a command
\* takes.
Fairness ==
    /\ WF_vars(Undone)
    /\ WF_vars(Tick)
    /\ \A u \in Upstreams : WF_vars(ListenerStep(u))
    /\ \A k \in Conns : WF_vars(ConnAborted(k))
    /\ WF_vars(ProcessorStep)
    /\ WF_vars(signal # "none" /\ ControlStops)
    /\ WF_vars(ShutdownStep)
    /\ WF_vars(Flush)
    /\ \A c \in Callers : SF_vars(Enqueue(c)) /\ WF_vars(SendFails(c))

FairSpec == Spec /\ Fairness

----------------------------------------------------------------------------
\* Properties.

\* run() leaks nothing: when bring-up fails at any point, with connections
\* already accepted by the listeners that had started, no accept loop, no tracked
\* connection and no command processor is left when the error is returned.
FailedStartLeaksNothing ==
    phase = "failed" =>
        /\ \A u \in Upstreams : listener[u] \in {"unbound", "exited"}
        /\ \A k \in Conns : conn[k] # "serving"
        /\ processor \in {"none", "exited"}

\* The flush is a fence: if every listener was joined in time, no connection is
\* left that could still hand an exchange to the recorder once it is flushed.
FlushIsFence ==
    phase \in AfterFlush /\ errors \cap Upstreams = {} =>
        \A k \in Conns : conn[k] # "serving"

\* A shutdown that reports no error has stopped everything: no accept loop, no
\* connection, no command processor and no queued command is left behind.
CleanShutdownIsQuiet ==
    phase = "closed" /\ errors = {} =>
        /\ \A u \in Upstreams : listener[u] = "exited"
        /\ \A k \in Conns : conn[k] # "serving"
        /\ processor = "exited" /\ queue = <<>>
        /\ control # "accepting"

\* The joins of shutdown_with_timeout take no longer than one outer limit for every
\* listener and the budget once more for the command task, over overlapping drain
\* deadlines; the control plane adds nothing. The flush between them has no timeout:
\* what it takes comes on top.
JoinsBounded == joinTime <= JoinLimit

\* shutdown_with_timeout returns, though connections are wedged, a command never
\* ends and callers keep sending, if the storage backends return from the flush.
ShutdownReturns == phase = "joinListeners" ~> phase = "closed"

\* Dropping the handle stops the cluster as well: every accept loop ends but one
\* that has to wait for a wedged connection, and its connections with it, within
\* the default drain and without anybody joining them (changed() fails in every
\* loop once the sender is gone).
DropStopsListeners ==
    \A u \in Upstreams :
        phase = "dropped" ~> \/ listener[u] = "exited" /\ Serving(u) = {}
                             \/ Serving(u) \cap Wedged # {}

\* Nobody waits for ever on the command channel: every send() gets a reply or an
\* error, across a full channel and the exit of the processor, provided the
\* commands themselves end.
CommandAnswered ==
    []<>(processor # "busy") =>
        \A c \in Callers : call[c] = "sending" ~> call[c] = "idle"
============================================================================
