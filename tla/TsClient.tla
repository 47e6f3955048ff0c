------------------------------ MODULE TsClient ------------------------------
(***************************************************************************)
(* The TypeScript control client (ts-client/src/index.ts): calls that are  *)
(* chained so that one command is on its way at a time, replies that are   *)
(* matched to the oldest waiter, command timeouts, and the three socket    *)
(* events that fail everything that waits.                                 *)
(*                                                                         *)
(* The client runs on one event loop: a callback runs to its end, and the  *)
(* promise reactions it caused (the next doSend of the chain) run before   *)
(* the next callback (Quiet).                                              *)
(* The server answers lines one by one and in order (control_plane.rs,     *)
(* serve_connection).                                                      *)
(***************************************************************************)
EXTENDS Naturals, Sequences

CONSTANTS
    Commands,   \* calls of the client's methods, each with its command
    Timed,      \* those with a commandTimeoutMs: the assertions
    Unset,      \* responsePromise is pending
    Failed      \* responsePromise is rejected

ASSUME TsClientAssumption ==
    /\ Timed \subseteq Commands
    /\ Unset # Failed
    /\ {Unset, Failed} \cap Commands = {}

VARIABLES
    call,       \* progress of each call
    chain,      \* the inflight chain: calls whose doSend has not started
    pending,    \* waiters, oldest first, each known by its call
    got,        \* responsePromise of each call: the command that was answered
    fatal,      \* whether fail() has run
    socket,     \* state of the socket
    toServer,   \* command lines the server has not answered yet
    toClient    \* answers on their way, each known by its command

vars == <<call, chain, pending, got, fatal, socket, toServer, toClient>>
lines == <<toServer, toClient>>

Settled == {"resolved", "rejected"}

TypeOK ==
    /\ call \in [Commands -> {"new", "queued", "draining", "sent"} \cup Settled]
    /\ chain \in Seq(Commands)
    /\ pending \in Seq(Commands)
    /\ got \in [Commands -> Commands \cup {Unset, Failed}]
    /\ fatal \in BOOLEAN
    /\ socket \in {"open", "ended", "closed"}
    /\ toServer \in Seq(Commands)
    /\ toClient \in Seq(Commands)

Init ==
    /\ call = [c \in Commands |-> "new"]
    /\ chain = <<>>
    /\ pending = <<>>
    /\ got = [c \in Commands |-> Unset]
    /\ fatal = FALSE
    /\ socket = "open"
    /\ toServer = <<>>
    /\ toClient = <<>>

----------------------------------------------------------------------------
\* Calls.

\* The call whose doSend is under way.
Active == {c \in Commands : call[c] \in {"draining", "sent"}}

\* No promise reaction is left to run.
Quiet == Active # {} \/ chain = <<>>

\* send(): refused if the client has failed, otherwise chained.
Send(c) ==
    /\ call[c] = "new"
    /\ IF fatal
       THEN call' = [call EXCEPT ![c] = "rejected"] /\ UNCHANGED chain
       ELSE call' = [call EXCEPT ![c] = "queued"] /\ chain' = Append(chain, c)
    /\ UNCHANGED <<pending, got, fatal, socket, lines>>

\* doSend() of the next call, once the one before it has settled: queue the waiter
\* and write the line. write() returns false when its buffer is full, and also on
\* a socket that was ended or closed, where "drain" never comes. Whether fail()
\* has run meanwhile is not looked at.
DoSend ==
    /\ Active = {} /\ chain # <<>>
    /\ chain' = Tail(chain)
    /\ pending' = Append(pending, Head(chain))
    /\ \/ /\ socket = "open"
          /\ toServer' = Append(toServer, Head(chain))
          /\ \E stage \in {"sent", "draining"} : call' = [call EXCEPT ![Head(chain)] = stage]
       \/ /\ socket # "open"
          /\ call' = [call EXCEPT ![Head(chain)] = "draining"]
          /\ UNCHANGED toServer
    /\ UNCHANGED <<got, fatal, socket, toClient>>

\* How a call goes on when it awaits a promise in this state.
Awaiting(promise) ==
    CASE promise = Unset  -> "sent"
      [] promise = Failed -> "rejected"
      [] OTHER            -> "resolved"

\* The "drain" event: the call goes on to await its response.
Drain(c) ==
    /\ Quiet
    /\ call[c] = "draining" /\ socket = "open"
    /\ call' = [call EXCEPT ![c] = Awaiting(got[c])]
    /\ UNCHANGED <<chain, pending, got, fatal, socket, lines>>

\* Mutant of CommandTimesOut: the waiter goes with its call.
TimesOutWithWaiter(c) ==
    /\ Quiet
    /\ c \in Timed /\ call[c] = "sent"
    /\ call' = [call EXCEPT ![c] = "rejected"]
    /\ pending' = SelectSeq(pending, LAMBDA w : w # c)
    /\ UNCHANGED <<chain, got, fatal, socket, lines>>

\* The timer of a command wins the race. Its waiter stays queued and will take the
\* late answer.
CommandTimesOut(c) ==
    /\ Quiet
    /\ c \in Timed /\ call[c] = "sent"
    /\ call' = [call EXCEPT ![c] = "rejected"]
    /\ UNCHANGED <<chain, pending, got, fatal, socket, lines>>

----------------------------------------------------------------------------
\* Socket events.

\* Promises settle; a call that awaits one of them goes on.
Settle(promises) ==
    /\ got' = promises
    /\ call' = [c \in Commands |->
                  IF call[c] = "sent" THEN Awaiting(promises[c]) ELSE call[c]]

\* onData: a chunk with n lines, each for the oldest waiter; a line without a
\* waiter is dropped.
OnData(n) ==
    /\ Quiet
    /\ n \in 1..Len(toClient)
    /\ LET taken == IF n < Len(pending) THEN n ELSE Len(pending) IN
         /\ pending' = SubSeq(pending, taken + 1, Len(pending))
         /\ Settle([c \in Commands |->
                      IF \E i \in 1..taken : pending[i] = c
                      THEN toClient[CHOOSE i \in 1..taken : pending[i] = c]
                      ELSE got[c]])
    /\ toClient' = SubSeq(toClient, n + 1, Len(toClient))
    /\ UNCHANGED <<chain, fatal, socket, toServer>>

\* Mutant of Fail: the client is marked but nobody is told.
FailQuietly ==
    /\ fatal' = TRUE
    /\ UNCHANGED <<pending, got, call>>

\* fail(): every waiter is rejected. The socket is left as it is.
Fail ==
    /\ fatal' = TRUE
    /\ pending' = <<>>
    /\ Settle([c \in Commands |->
                 IF \E i \in 1..Len(pending) : pending[i] = c THEN Failed ELSE got[c]])

\* "timeout": the socket was idle for socketTimeoutMs, with or without a command
\* on its way. The socket is not closed.
SocketTimesOut ==
    /\ Quiet
    /\ socket # "closed"
    /\ ~fatal \/ pending # <<>>
    /\ Fail
    /\ UNCHANGED <<chain, socket, lines>>

\* "error" or "close": the peer or the network is gone; nothing arrives any more.
SocketCloses ==
    /\ Quiet
    /\ socket # "closed"
    /\ socket' = "closed"
    /\ toServer' = <<>> /\ toClient' = <<>>
    /\ Fail
    /\ UNCHANGED chain

\* close() ends the sending side.
Close ==
    /\ socket = "open"
    /\ socket' = "ended"
    /\ UNCHANGED <<call, chain, pending, got, fatal, lines>>

\* The server answers the next line.
Answer ==
    /\ toServer # <<>>
    /\ toClient' = Append(toClient, Head(toServer))
    /\ toServer' = Tail(toServer)
    /\ UNCHANGED <<call, chain, pending, got, fatal, socket>>

Next ==
    \/ \E c \in Commands : Send(c) \/ Drain(c) \/ CommandTimesOut(c)
    \/ DoSend
    \/ \E n \in 1..Len(toClient) : OnData(n)
    \/ SocketTimesOut
    \/ SocketCloses
    \/ Close
    \/ Answer

Spec == Init /\ [][Next]_vars

\* Promise reactions run, the kernel takes what was written while the socket is
\* open, and a socket on which nothing happens any more times out. Nothing is
\* assumed of the server.
Fairness ==
    /\ WF_vars(DoSend)
    /\ \A c \in Commands : WF_vars(Drain(c))
    /\ WF_vars(SocketTimesOut)

FairSpec == Spec /\ Fairness

----------------------------------------------------------------------------
\* Properties.

\* Every call that resolves has its own answer, though earlier commands timed out
\* and their answers come late, as long as fail() has not run: the waiter a timed
\* out command leaves behind takes exactly the late line.
OwnAnswer ==
    ~fatal => \A c \in Commands : call[c] = "resolved" => got[c] = c

\* While the socket stays open no call is left hanging, though the server may never
\* answer: the chain goes on after failures and the socket timeout rejects what
\* waits. (On a socket that was ended or closed a chained call hangs: its write
\* returns false and "drain" never comes.)
CallsSettle ==
    [](socket = "open") =>
        \A c \in Commands : call[c] = "queued" ~> call[c] \in Settled
============================================================================
