--------------------------- MODULE TsClientProofs ---------------------------
(***************************************************************************)
(* Proofs about module TsClient, for any number of calls.                  *)
(*                                                                         *)
(* That a call gets its own answer rests on the order of three queues:     *)
(* until fail() runs, the answers and commands on their way are, in this   *)
(* order, the waiters (Aligned). The waiter a timed out command leaves     *)
(* behind is what keeps them aligned.                                      *)
(***************************************************************************)
EXTENDS TsClient, TLAPS

Aligned ==
    ~fatal =>
        /\ Len(toClient) + Len(toServer) <= Len(pending)
        /\ socket = "open" => Len(toClient) + Len(toServer) = Len(pending)
        /\ \A i \in 1..Len(toClient) : pending[i] = toClient[i]
        /\ \A i \in 1..Len(toServer) : pending[Len(toClient) + i] = toServer[i]

\* Promises are settled with their own answers, and calls resolve with them.
Own ==
    ~fatal => \A c \in Commands :
        /\ got[c] \in {Unset, c}
        /\ call[c] = "resolved" => got[c] = c

Inv == TypeOK /\ Aligned /\ Own

----------------------------------------------------------------------------
\* The socket callbacks.

\* What pushing one more element does to a queue of calls.
LEMMA Pushed ==
    ASSUME NEW S, NEW queue \in Seq(S), NEW e \in S
    PROVE  /\ Append(queue, e) \in Seq(S)
           /\ Len(Append(queue, e)) = Len(queue) + 1
           /\ Append(queue, e)[Len(queue) + 1] = e
           /\ \A i \in 1..Len(queue) : Append(queue, e)[i] = queue[i]
OBVIOUS

\* Settling promises keeps the types.
LEMMA SettleType ==
    ASSUME TypeOK, NEW promises \in [Commands -> Commands \cup {Unset, Failed}],
           Settle(promises)
    PROVE  /\ call' \in [Commands -> {"new", "queued", "draining", "sent"} \cup Settled]
           /\ got' \in [Commands -> Commands \cup {Unset, Failed}]
<1>1. \A c \in Commands : Awaiting(promises[c]) \in {"sent", "rejected", "resolved"}
  BY DEF Awaiting
<1> QED BY <1>1 DEF Settle, TypeOK, Settled

\* A failure rejects waiters and keeps the types.
LEMMA FailType ==
    ASSUME TypeOK, Fail
    PROVE  /\ call' \in [Commands -> {"new", "queued", "draining", "sent"} \cup Settled]
           /\ got' \in [Commands -> Commands \cup {Unset, Failed}]
           /\ pending' = <<>> /\ fatal' = TRUE
<1> DEFINE promises == [c \in Commands |->
               IF \E i \in 1..Len(pending) : pending[i] = c THEN Failed ELSE got[c]]
<1>1. promises \in [Commands -> Commands \cup {Unset, Failed}]
  BY DEF TypeOK
<1>2. Settle(promises) /\ pending' = <<>> /\ fatal' = TRUE
  BY DEF Fail
<1> HIDE DEF promises
<1> QED BY <1>1, <1>2, SettleType

\* A chunk of answers reaches the waiters it is for.
LEMMA OnDataInv ==
    ASSUME Inv, NEW n \in 1..Len(toClient), OnData(n)
    PROVE  Inv'
<1> DEFINE taken == IF n < Len(pending) THEN n ELSE Len(pending)
           holds(c) == \E i \in 1..taken : pending[i] = c
           promises == [c \in Commands |->
               IF holds(c) THEN toClient[CHOOSE i \in 1..taken : pending[i] = c] ELSE got[c]]
<1>1. /\ Settle(promises)
      /\ pending' = SubSeq(pending, taken + 1, Len(pending))
      /\ toClient' = SubSeq(toClient, n + 1, Len(toClient))
      /\ UNCHANGED <<chain, fatal, socket, toServer>>
  BY DEF OnData
<1>2. /\ pending \in Seq(Commands) /\ toClient \in Seq(Commands) /\ toServer \in Seq(Commands)
      /\ taken \in 0..Len(pending) /\ taken <= n /\ n \in 1..Len(toClient)
  BY DEF Inv, TypeOK
<1>3. /\ pending' \in Seq(Commands) /\ Len(pending') = Len(pending) - taken
      /\ \A i \in 1..(Len(pending) - taken) : pending'[i] = pending[taken + i]
  <2> HIDE DEF taken
  <2> QED BY <1>1, <1>2
<1>4. /\ toClient' \in Seq(Commands) /\ Len(toClient') = Len(toClient) - n
      /\ \A i \in 1..(Len(toClient) - n) : toClient'[i] = toClient[n + i]
  BY <1>1, <1>2
<1>5. ASSUME NEW c \in Commands, holds(c)
      PROVE  \E i \in 1..taken : pending[i] = c /\ promises[c] = toClient[i]
  <2>1. (CHOOSE i \in 1..taken : pending[i] = c) \in 1..taken
    BY <1>5
  <2>2. pending[CHOOSE i \in 1..taken : pending[i] = c] = c
    BY <1>5
  <2>3. promises[c] = toClient[CHOOSE i \in 1..taken : pending[i] = c]
    BY <1>5
  <2> QED BY <2>1, <2>2, <2>3
<1>6. \A c \in Commands : ~holds(c) => promises[c] = got[c]
  OBVIOUS
<1>7. promises \in [Commands -> Commands \cup {Unset, Failed}]
  <2>1. \A i \in 1..taken : toClient[i] \in Commands
    BY <1>2
  <2>2. \A c \in Commands : promises[c] \in Commands \cup {Unset, Failed}
    BY <1>5, <1>6, <2>1 DEF Inv, TypeOK
  <2> QED BY <2>2
<1> HIDE DEF promises, holds
<1>8. TypeOK'
  BY <1>1, <1>3, <1>4, <1>7, SettleType DEF Inv, TypeOK
<1>9. CASE fatal
  BY <1>1, <1>8, <1>9 DEF Inv, Aligned, Own
<1>10. CASE ~fatal
  <2>1. /\ Len(toClient) + Len(toServer) <= Len(pending)
        /\ socket = "open" => Len(toClient) + Len(toServer) = Len(pending)
        /\ \A i \in 1..Len(toClient) : pending[i] = toClient[i]
        /\ \A i \in 1..Len(toServer) : pending[Len(toClient) + i] = toServer[i]
    BY <1>10 DEF Inv, Aligned
  <2>2. taken = n
    BY <1>2, <2>1
  <2>3. Aligned'
    <3> HIDE DEF taken
    <3>l. Len(pending) \in Nat /\ Len(toClient) \in Nat /\ Len(toServer) \in Nat
      BY <1>2
    <3>1. \A i \in 1..Len(toClient') : pending'[i] = toClient'[i]
      <4> SUFFICES ASSUME NEW i \in 1..(Len(toClient) - n)
                   PROVE  pending'[i] = toClient'[i]
        BY <1>4
      <4>1. n + i \in 1..Len(toClient) /\ i \in 1..(Len(pending) - n)
        BY <1>2, <2>1, <3>l
      <4> QED BY <1>3, <1>4, <2>1, <2>2, <4>1
    <3>2. \A i \in 1..Len(toServer') : pending'[Len(toClient') + i] = toServer'[i]
      <4> SUFFICES ASSUME NEW i \in 1..Len(toServer)
                   PROVE  pending'[(Len(toClient) - n) + i] = toServer[i]
        BY <1>1, <1>4
      <4>1. (Len(toClient) - n) + i \in 1..(Len(pending) - n)
        BY <1>2, <2>1, <3>l
      <4>2. n + ((Len(toClient) - n) + i) = Len(toClient) + i
        BY <1>2, <3>l
      <4> QED BY <1>3, <2>1, <2>2, <4>1, <4>2
    <3>3. /\ Len(toClient') + Len(toServer') <= Len(pending')
          /\ socket' = "open" => Len(toClient') + Len(toServer') = Len(pending')
      <4>1. toServer' = toServer /\ socket' = socket
        BY <1>1
      <4> QED BY <1>2, <1>3, <1>4, <2>1, <2>2, <3>l, <4>1
    <3> QED BY <3>1, <3>2, <3>3 DEF Aligned
  <2>4. \A c \in Commands : holds(c) => promises[c] = c
    BY <1>2, <1>5, <2>1, <2>2
  <2>5. \A c \in Commands : promises[c] \in {Unset, c}
    BY <1>6, <1>10, <2>4 DEF Inv, Own
  <2>6. \A c \in Commands : call'[c] = "resolved" => promises[c] = c
    <3> SUFFICES ASSUME NEW c \in Commands, call'[c] = "resolved" PROVE promises[c] = c
      OBVIOUS
    <3>1. CASE call[c] = "sent"
      <4>1. Awaiting(promises[c]) = "resolved"
        BY <1>1, <3>1 DEF Settle
      <4> QED BY <2>5, <4>1 DEF Awaiting
    <3>2. CASE call[c] # "sent"
      <4>1. call[c] = "resolved"
        BY <1>1, <3>2 DEF Settle
      <4>2. got[c] = c
        BY <1>10, <4>1 DEF Inv, Own
      <4> QED BY <1>6, <2>4, <4>2
    <3> QED BY <3>1, <3>2
  <2>7. Own'
    BY <1>1, <2>5, <2>6 DEF Own, Settle
  <2> QED BY <1>8, <2>3, <2>7 DEF Inv
<1> QED BY <1>9, <1>10

\* The next command joins the waiters and, if the socket is open, the line.
LEMMA DoSendInv ==
    ASSUME Inv, DoSend
    PROVE  Inv'
<1> DEFINE c == Head(chain)
<1>1. c \in Commands /\ chain' \in Seq(Commands)
  BY DEF DoSend, Inv, TypeOK
<1>2. /\ pending' = Append(pending, c) /\ UNCHANGED <<got, fatal, socket, toClient>>
      /\ \E stage \in {"sent", "draining"} : call' = [call EXCEPT ![c] = stage]
      /\ \/ socket = "open" /\ toServer' = Append(toServer, c)
         \/ socket # "open" /\ toServer' = toServer
  BY DEF DoSend
<1> HIDE DEF c
<1>3. TypeOK'
  <2>1. pending' \in Seq(Commands) /\ toServer' \in Seq(Commands)
    <3>1. /\ pending \in Seq(Commands) /\ pending' = Append(pending, c)
          /\ toServer \in Seq(Commands) /\ toServer' \in {toServer, Append(toServer, c)}
      BY <1>2 DEF Inv, TypeOK
    <3> QED BY <1>1, <3>1, Pushed
  <2>2. call' \in [Commands -> {"new", "queued", "draining", "sent"} \cup Settled]
    <3>1. call \in [Commands -> {"new", "queued", "draining", "sent"} \cup Settled]
      BY DEF Inv, TypeOK
    <3>2. PICK stage \in {"sent", "draining"} : call' = [call EXCEPT ![c] = stage]
      BY <1>2
    <3> QED BY <1>1, <3>1, <3>2
  <2> QED BY <1>1, <1>2, <2>1, <2>2 DEF Inv, TypeOK
<1>4. Own'
  BY <1>2 DEF Inv, TypeOK, Own
<1>5. Aligned'
  <2> SUFFICES ASSUME ~fatal PROVE Aligned'
    BY <1>2 DEF Aligned
  <2>1. /\ pending \in Seq(Commands) /\ toServer \in Seq(Commands) /\ toClient \in Seq(Commands)
        /\ Len(toClient) + Len(toServer) <= Len(pending)
        /\ socket = "open" => Len(toClient) + Len(toServer) = Len(pending)
        /\ \A i \in 1..Len(toClient) : pending[i] = toClient[i]
        /\ \A i \in 1..Len(toServer) : pending[Len(toClient) + i] = toServer[i]
    BY DEF Inv, TypeOK, Aligned
  <2>2. /\ Len(pending') = Len(pending) + 1 /\ pending'[Len(pending) + 1] = c
        /\ \A i \in 1..Len(pending) : pending'[i] = pending[i]
    BY <1>1, <1>2, <2>1, Pushed
  <2>3. CASE socket # "open"
    BY <1>2, <2>1, <2>2, <2>3 DEF Aligned
  <2>4. CASE socket = "open"
    <3>1. /\ Len(toServer') = Len(toServer) + 1 /\ toServer'[Len(toServer) + 1] = c
          /\ \A i \in 1..Len(toServer) : toServer'[i] = toServer[i]
      BY <1>1, <1>2, <2>1, <2>4, Pushed
    <3>2. toClient' = toClient /\ socket' = socket /\ Len(pending) \in Nat
          /\ Len(toClient) \in Nat /\ Len(toServer) \in Nat
      BY <1>2, <2>1
    <3>l. Len(toClient) + Len(toServer) = Len(pending)
      BY <2>1, <2>4
    <3>3. \A i \in 1..Len(toClient') : pending'[i] = toClient'[i]
      <4>1. \A i \in 1..Len(toClient) : i \in 1..Len(pending)
        BY <2>1, <3>2
      <4> QED BY <2>1, <2>2, <3>2, <4>1
    <3>4. \A i \in 1..Len(toServer') : pending'[Len(toClient') + i] = toServer'[i]
      <4> SUFFICES ASSUME NEW i \in 1..(Len(toServer) + 1)
                   PROVE  pending'[Len(toClient) + i] = toServer'[i]
        BY <3>1, <3>2
      <4>1. CASE i = Len(toServer) + 1
        <5>1. Len(toClient) + i = Len(pending) + 1
          BY <3>2, <3>l, <4>1
        <5> QED BY <2>2, <3>1, <4>1, <5>1
      <4>2. CASE i # Len(toServer) + 1
        <5>1. i \in 1..Len(toServer) /\ Len(toClient) + i \in 1..Len(pending)
          BY <2>1, <3>2, <4>2
        <5> QED BY <2>1, <2>2, <3>1, <5>1
      <4> QED BY <4>1, <4>2
    <3>5. Len(toClient') + Len(toServer') = Len(pending') /\ Len(pending') \in Nat
      <4>1. Len(toClient') = Len(toClient) /\ Len(toServer') = Len(toServer) + 1
            /\ Len(pending') = Len(pending) + 1
        BY <2>2, <3>1, <3>2
      <4> QED BY <3>2, <3>l, <4>1
    <3> QED BY <3>3, <3>4, <3>5 DEF Aligned
  <2> QED BY <2>3, <2>4
<1> QED BY <1>3, <1>4, <1>5 DEF Inv

\* An answer takes the place of its command.
LEMMA AnswerInv ==
    ASSUME Inv, Answer
    PROVE  Inv'
<1> DEFINE c == Head(toServer)
<1>1. /\ toServer # <<>> /\ toClient' = Append(toClient, c) /\ toServer' = Tail(toServer)
      /\ UNCHANGED <<call, chain, pending, got, fatal, socket>>
  BY DEF Answer
<1>2. pending \in Seq(Commands) /\ toServer \in Seq(Commands) /\ toClient \in Seq(Commands)
  BY DEF Inv, TypeOK
<1>3. /\ c = toServer[1] /\ c \in Commands /\ Len(toServer) > 0
      /\ toServer' \in Seq(Commands) /\ Len(toServer') = Len(toServer) - 1
      /\ \A i \in 1..(Len(toServer) - 1) : toServer'[i] = toServer[i + 1]
  BY <1>1, <1>2
<1> HIDE DEF c
<1>4. /\ toClient' \in Seq(Commands) /\ Len(toClient') = Len(toClient) + 1
      /\ toClient'[Len(toClient) + 1] = c
      /\ \A i \in 1..Len(toClient) : toClient'[i] = toClient[i]
  BY <1>1, <1>2, <1>3
<1>5. TypeOK' /\ Own'
  BY <1>1, <1>3, <1>4 DEF Inv, TypeOK, Own
<1>6. Aligned'
  <2> SUFFICES ASSUME ~fatal PROVE Aligned'
    BY <1>1 DEF Aligned
  <2>1. /\ Len(toClient) + Len(toServer) <= Len(pending)
        /\ socket = "open" => Len(toClient) + Len(toServer) = Len(pending)
        /\ \A i \in 1..Len(toClient) : pending[i] = toClient[i]
        /\ \A i \in 1..Len(toServer) : pending[Len(toClient) + i] = toServer[i]
    BY DEF Inv, Aligned
  <2>2. pending[Len(toClient) + 1] = c
    BY <1>2, <1>3, <2>1
  <2>3. \A i \in 1..Len(toClient') : pending[i] = toClient'[i]
    <3> SUFFICES ASSUME NEW i \in 1..(Len(toClient) + 1) PROVE pending[i] = toClient'[i]
      BY <1>4
    <3>1. CASE i = Len(toClient) + 1
      BY <1>4, <2>2, <3>1
    <3>2. CASE i # Len(toClient) + 1
      <4>1. i \in 1..Len(toClient)
        BY <1>2, <3>2
      <4> QED BY <1>4, <2>1, <4>1
    <3> QED BY <3>1, <3>2
  <2>4. \A i \in 1..Len(toServer') : pending[Len(toClient') + i] = toServer'[i]
    <3> SUFFICES ASSUME NEW i \in 1..Len(toServer')
                 PROVE  pending[Len(toClient') + i] = toServer'[i]
      OBVIOUS
    <3>1. i + 1 \in 1..Len(toServer) /\ Len(toClient') + i = Len(toClient) + (i + 1)
      BY <1>2, <1>3, <1>4
    <3> QED BY <1>3, <1>4, <2>1, <3>1
  <2>5. /\ Len(toClient') + Len(toServer') <= Len(pending)
        /\ socket = "open" => Len(toClient') + Len(toServer') = Len(pending)
    <3>1. Len(pending) \in Nat /\ Len(toClient) \in Nat /\ Len(toServer) \in Nat
      BY <1>2
    <3>2. Len(toClient') + Len(toServer') = Len(toClient) + Len(toServer)
      BY <1>3, <1>4, <3>1
    <3> QED BY <2>1, <3>2
  <2> QED BY <1>1, <2>3, <2>4, <2>5 DEF Aligned
<1> QED BY <1>5, <1>6 DEF Inv

\* Every step keeps the invariant.
LEMMA InvStep ==
    ASSUME Inv, [Next]_vars
    PROVE  Inv'
<1>1. ASSUME NEW c \in Commands, Send(c)
      PROVE  Inv'
  <2>1. UNCHANGED <<pending, got, fatal, socket, toServer, toClient>>
    BY <1>1 DEF Send, lines
  <2>2. chain' \in Seq(Commands)
    <3>1. chain \in Seq(Commands) /\ chain' \in {chain, Append(chain, c)}
      BY <1>1 DEF Send, Inv, TypeOK
    <3> QED BY <3>1, Pushed
  <2>3. \E stage \in {"queued", "rejected"} : call' = [call EXCEPT ![c] = stage]
    BY <1>1 DEF Send
  <2>4. TypeOK'
    BY <2>1, <2>2, <2>3 DEF Inv, TypeOK, Settled
  <2>5. Own'
    BY <2>1, <2>3 DEF Inv, TypeOK, Own
  <2>6. Aligned'
    BY <2>1 DEF Inv, Aligned
  <2> QED BY <2>4, <2>5, <2>6 DEF Inv
<1>2. ASSUME NEW c \in Commands, Drain(c)
      PROVE  Inv'
  <2>1. /\ call' = [call EXCEPT ![c] = Awaiting(got[c])]
        /\ UNCHANGED <<chain, pending, got, fatal, socket, toServer, toClient>>
    BY <1>2 DEF Drain, lines
  <2>2. Awaiting(got[c]) \in {"sent", "rejected", "resolved"}
    BY DEF Awaiting
  <2>3. ~fatal /\ Awaiting(got[c]) = "resolved" => got[c] = c
    BY DEF Awaiting, Inv, Own
  <2>4. TypeOK'
    BY <2>1, <2>2 DEF Inv, TypeOK, Settled
  <2>5. Own'
    BY <2>1, <2>3 DEF Inv, TypeOK, Own
  <2>6. Aligned'
    BY <2>1 DEF Inv, Aligned
  <2> QED BY <2>4, <2>5, <2>6 DEF Inv
<1>3. ASSUME NEW c \in Commands, CommandTimesOut(c)
      PROVE  Inv'
  BY <1>3 DEF CommandTimesOut, Inv, TypeOK, Settled, Aligned, Own, lines
<1>4. CASE DoSend
  BY <1>4, DoSendInv
<1>5. CASE \E n \in 1..Len(toClient) : OnData(n)
  BY <1>5, OnDataInv
<1>6. CASE SocketTimesOut \/ SocketCloses
  <2>1. Fail /\ chain' = chain /\ socket' \in {"open", "ended", "closed"}
        /\ toServer' \in {toServer, <<>>} /\ toClient' \in {toClient, <<>>}
    BY <1>6 DEF SocketTimesOut, SocketCloses, lines, Inv, TypeOK
  <2>2. TypeOK' /\ fatal' = TRUE
    <3>1. <<>> \in Seq(Commands)
      OBVIOUS
    <3>2. TypeOK
      BY DEF Inv
    <3>3. /\ call' \in [Commands -> {"new", "queued", "draining", "sent"} \cup Settled]
          /\ got' \in [Commands -> Commands \cup {Unset, Failed}]
          /\ pending' = <<>> /\ fatal' = TRUE
      BY <2>1, <3>2, FailType
    <3> QED BY <2>1, <3>1, <3>2, <3>3 DEF TypeOK
  <2> QED BY <2>2 DEF Inv, Aligned, Own
<1>7. CASE Close
  BY <1>7 DEF Close, Inv, TypeOK, Aligned, Own, lines
<1>8. CASE Answer
  BY <1>8, AnswerInv
<1>9. CASE UNCHANGED vars
  BY <1>9 DEF vars, Inv, TypeOK, Aligned, Own
<1> QED BY <1>1, <1>2, <1>3, <1>4, <1>5, <1>6, <1>7, <1>8, <1>9 DEF Next

\* The invariant holds in every state of an execution.
LEMMA Invariance == Spec => []Inv
<1>1. Init => Inv
  <2> SUFFICES ASSUME Init PROVE Inv
    OBVIOUS
  <2>1. TypeOK
    <3>1. <<>> \in Seq(Commands)
      OBVIOUS
    <3>2. call \in [Commands -> {"new", "queued", "draining", "sent"} \cup Settled]
      BY DEF Init
    <3>3. got \in [Commands -> Commands \cup {Unset, Failed}]
      BY DEF Init
    <3> QED BY <3>1, <3>2, <3>3 DEF Init, TypeOK
  <2>2. Aligned
    BY DEF Init, Aligned
  <2>3. Own
    BY DEF Init, Own
  <2> QED BY <2>1, <2>2, <2>3 DEF Inv
<1>2. Inv /\ [Next]_vars => Inv'
  BY InvStep
<1> QED BY <1>1, <1>2, PTL DEF Spec

\* For any number of calls and any command timeouts, a call that resolves has its
\* own answer, until the socket fails.
THEOREM CallsGetTheirAnswers == Spec => []OwnAnswer
<1>1. Inv => OwnAnswer
  BY DEF Inv, Own, OwnAnswer
<1> QED BY <1>1, Invariance, PTL
============================================================================
