--------------------------- MODULE WaitForProofs ----------------------------
(***************************************************************************)
(* Proofs about module WaitFor, for any assertions and any number of       *)
(* record() calls.                                                         *)
(*                                                                         *)
(* Every step of an assertion is a step of the recorder or leaves it alone *)
(* (WaitForIsRecorder), so what RecorderProofs shows holds here too. The   *)
(* absence of lost wakeups is inductive given the types.                   *)
(***************************************************************************)
EXTENDS WaitFor, RecorderProofs, FiniteSetTheorems

WaitInv == WaitTypeOK /\ SleepsOnlyWhilePending

\* What remains of a timeout and what was spent of it never exceed it.
TimeInv ==
    \A w \in Waiters :
        /\ wpc[w] = "idle" => spent[w] = 0
        /\ left[w] + spent[w] <= Timeout[w]

----------------------------------------------------------------------------
\* Verdicts.

\* A count of matching exchanges is a natural number, and zero on an empty ring.
LEMMA CountIsNat ==
    ASSUME NEW w \in Waiters, NEW buf \in Seq(Calls)
    PROVE  /\ CountMatching(w, buf) \in Nat
           /\ CountMatching(w, <<>>) = 0
<1> DEFINE hits == {i \in 1..Len(buf) : buf[i] \in Matching[w]}
<1>1. IsFiniteSet(1..Len(buf))
  BY FS_Interval
<1>2. IsFiniteSet(hits)
  BY <1>1, FS_Subset
<1>3. CountMatching(w, buf) \in Nat
  BY <1>2, FS_CardinalityType DEF CountMatching
<1>4. {i \in 1..Len(<<>>) : <<>>[i] \in Matching[w]} = {}
  OBVIOUS
<1>5. CountMatching(w, <<>>) = 0
  BY <1>4, FS_EmptySet DEF CountMatching
<1> QED BY <1>3, <1>5

\* evaluate() gives one of three verdicts.
LEMMA VerdictType ==
    ASSUME NEW w \in Waiters, NEW buf \in Seq(Calls)
    PROVE  Verdict(w, buf) \in {"passed", "failed", "pending"}
<1>1. CountMatching(w, buf) \in Nat
  BY CountIsNat
<1>2. Expected[w] \in Nat \cup {Seen}
  BY WaitForAssumption
<1> QED BY <1>1, <1>2 DEF Verdict, Evaluate

\* Emptying the ring keeps a pending verdict pending: a count that is still
\* missing something is not met by zero.
LEMMA ClearKeepsPending ==
    ASSUME NEW w \in Waiters, NEW buf \in Seq(Calls), Verdict(w, buf) = "pending"
    PROVE  Verdict(w, <<>>) = "pending"
<1>1. CountMatching(w, buf) \in Nat /\ CountMatching(w, <<>>) = 0
  BY CountIsNat
<1>2. Expected[w] \in Nat \cup {Seen}
  BY WaitForAssumption
<1>3. CASE Expected[w] = Seen
  BY <1>1, <1>3 DEF Verdict, Evaluate
<1>4. CASE Expected[w] # Seen
  <2>1. Expected[w] \in Nat
    BY <1>2, <1>4
  <2>2. CountMatching(w, buf) < Expected[w]
    BY <1>1, <1>4, <2>1 DEF Verdict, Evaluate
  <2> QED BY <1>1, <1>4, <2>1, <2>2 DEF Verdict, Evaluate
<1> QED BY <1>3, <1>4

----------------------------------------------------------------------------
\* The recorder under assertions.

\* A step of the recorder with assertions is a step of the recorder.
LEMMA StepIsRecorderStep ==
    ASSUME [WaitNext]_allVars
    PROVE  [Next]_vars
<1>1. CASE RecorderStep
  BY <1>1 DEF RecorderStep, Next
<1>2. ASSUME NEW w \in Waiters, Start(w) \/ AssertStep(w) \/ Tick(w)
      PROVE  [Next]_vars
  <2>1. Enable(w) \/ Release(w) \/ UNCHANGED vars
    BY <1>2 DEF Start, AssertStep, Tick, Register, CountAndEvaluate,
                GiveUp, Park, Wake, TimeOut, FailOnTimeout
  <2> QED BY <2>1 DEF Next
<1>3. CASE UNCHANGED allVars
  BY <1>3 DEF allVars
<1> QED BY <1>1, <1>2, <1>3 DEF WaitNext

\* The recorder keeps its specification whatever assertions run on it, so that
\* the ring stays bounded, storage comes first and the orders agree.
THEOREM WaitForIsRecorder == WaitSpec => Spec
<1>1. WaitInit => Init
  BY DEF WaitInit
<1>2. [WaitNext]_allVars => [Next]_vars
  BY StepIsRecorderStep
<1> QED BY <1>1, <1>2, PTL DEF WaitSpec, Spec

----------------------------------------------------------------------------
\* The invariant.

\* The invariant holds before any assertion started.
LEMMA WaitInvInit == WaitInit => WaitInv
<1> SUFFICES ASSUME WaitInit PROVE WaitInv
  OBVIOUS
<1>1. Init => TypeOK
  BY DEF Init, TypeOK, Stages
<1>2. /\ wpc = [w \in Waiters |-> "idle"]
      /\ left = [w \in Waiters |-> 0] /\ spent = [w \in Waiters |-> 0]
      /\ wakers = [w \in Waiters |-> "none"]
  BY DEF WaitInit, Init
<1>3. WaitTypeOK
  BY <1>1, <1>2 DEF WaitInit, WaitTypeOK, WaitStages
<1>4. SleepsOnlyWhilePending
  BY <1>2 DEF SleepsOnlyWhilePending
<1> QED BY <1>3, <1>4 DEF WaitInv

\* Every step keeps the types, and drops the waiter of an assertion that leaves
\* its wait.
LEMMA WaitTypeStep ==
    ASSUME WaitTypeOK, TypeOK', [WaitNext]_allVars
    PROVE  WaitTypeOK'
<1> USE DEF WaitTypeOK, WaitStages, Registered
<1>1. CASE RecorderStep
  <2>1. wpc' = wpc /\ left' = left /\ spent' = spent
    BY <1>1 DEF RecorderStep, wvars, clock
  <2>2. \A w \in Waiters : wakers'[w] # "none" => wakers[w] # "none"
    BY <1>1 DEF RecorderStep, RecordStep, Begin, Acquire, AppendOk, AppendErr, Push,
                Notify, Cancel, Clear, TypeOK
  <2> QED BY <2>1, <2>2
<1>2. ASSUME NEW w \in Waiters, Start(w)
      PROVE  WaitTypeOK'
  <2>1. UntilDeadline(Timeout[w]) \in Nat
    BY WaitForAssumption DEF UntilDeadline
  <2> QED BY <1>2, <2>1 DEF Start, Running, vars
<1>3. ASSUME NEW w \in Waiters, Register(w)
      PROVE  WaitTypeOK'
  BY <1>3 DEF Register, Enable, TypeOK, clock
<1>4. ASSUME NEW w \in Waiters, CountAndEvaluate(w)
      PROVE  WaitTypeOK'
  <2>1. Verdict(w, buffer) \in {"passed", "failed", "pending"}
    BY VerdictType DEF TypeOK
  <2>2. wpc' = [wpc EXCEPT ![w] = Verdict(w, buffer)] /\ left' = left /\ spent' = spent
    BY <1>4 DEF CountAndEvaluate, clock
  <2>3. CASE Verdict(w, buffer) = "pending"
    <3>1. wakers' = wakers
      BY <1>4, <2>3 DEF CountAndEvaluate, vars
    <3> QED BY <2>2, <2>3, <3>1
  <2>4. CASE Verdict(w, buffer) # "pending"
    <3>1. wakers' = [wakers EXCEPT ![w] = "none"]
      BY <1>4, <2>4 DEF CountAndEvaluate, Release
    <3> QED BY <2>1, <2>2, <2>4, <3>1 DEF TypeOK
  <2> QED BY <2>3, <2>4
<1>5. ASSUME NEW w \in Waiters, GiveUp(w)
      PROVE  WaitTypeOK'
  BY <1>5 DEF GiveUp, Release, TypeOK, clock
<1>6. ASSUME NEW w \in Waiters, Park(w)
      PROVE  WaitTypeOK'
  BY <1>6 DEF Park, vars, clock
<1>7. ASSUME NEW w \in Waiters, Wake(w)
      PROVE  WaitTypeOK'
  BY <1>7 DEF Wake, Release, TypeOK, clock
<1>8. ASSUME NEW w \in Waiters, TimeOut(w)
      PROVE  WaitTypeOK'
  BY <1>8 DEF TimeOut, vars, clock
<1>9. ASSUME NEW w \in Waiters, FailOnTimeout(w)
      PROVE  WaitTypeOK'
  BY <1>9 DEF FailOnTimeout, Release, TypeOK, clock
<1>10. ASSUME NEW w \in Waiters, Tick(w)
       PROVE  WaitTypeOK'
  BY <1>10 DEF Tick, vars, Running
<1>11. CASE UNCHANGED allVars
  BY <1>11 DEF allVars, vars, wvars, clock
<1> QED
  BY <1>1, <1>2, <1>3, <1>4, <1>5, <1>6, <1>7, <1>8, <1>9, <1>10, <1>11
  DEF WaitNext, AssertStep

\* A step of the recorder alone loses no wakeup: a push is followed by a
\* notification, and clearing the ring decides nothing.
LEMMA RecorderKeepsSleep ==
    ASSUME WaitTypeOK, SleepsOnlyWhilePending, RecorderStep
    PROVE  SleepsOnlyWhilePending'
<1> SUFFICES ASSUME NEW w \in Waiters,
                    wpc'[w] \in {"pending", "parked"},
                    wakers'[w] = "enabled",
                    \A c \in Calls : pc'[c] # "notifying"
             PROVE  Verdict(w, buffer)' = "pending"
  BY DEF SleepsOnlyWhilePending
<1>1. wpc' = wpc
  BY DEF RecorderStep, wvars
<1>2. ASSUME NEW c \in Calls, RecordStep(c)
      PROVE  wakers[w] = "enabled" /\ buffer' = buffer /\ pc[c] # "notifying"
  <2>1. ~Push(c)
    BY DEF Push, WaitTypeOK, TypeOK
  <2>2. ~Notify(c)
    BY DEF Notify
  <2> QED BY <1>2, <2>1, <2>2 DEF RecordStep, Begin, Acquire, AppendOk, AppendErr, Cancel
<1>3. ASSUME NEW c \in Calls, RecordStep(c), NEW d \in Calls
      PROVE  pc[d] # "notifying"
  <2>1. d # c => pc'[d] = pc[d]
    BY <1>3 DEF RecordStep, Begin, Acquire, AppendOk, AppendErr, Push, Notify, Cancel,
                WaitTypeOK, TypeOK
  <2> QED BY <1>2, <1>3, <2>1
<1>4. CASE \E c \in Calls : RecordStep(c)
  <2>1. Verdict(w, buffer) = "pending"
    BY <1>1, <1>2, <1>3, <1>4 DEF SleepsOnlyWhilePending
  <2> QED BY <1>2, <1>4, <2>1
<1>5. CASE Clear
  <2>1. pc' = pc /\ wakers' = wakers /\ buffer' = <<>>
    BY <1>5 DEF Clear
  <2>2. Verdict(w, buffer) = "pending"
    BY <1>1, <2>1 DEF SleepsOnlyWhilePending
  <2>3. Verdict(w, <<>>) = "pending"
    BY <2>2, ClearKeepsPending DEF WaitTypeOK, TypeOK
  <2> QED BY <2>1, <2>3
<1> QED BY <1>4, <1>5 DEF RecorderStep

\* A step of an assertion loses no wakeup: it goes to sleep on a count taken after
\* it registered.
LEMMA AssertKeepsSleep ==
    ASSUME WaitTypeOK, SleepsOnlyWhilePending,
           NEW v \in Waiters, Start(v) \/ AssertStep(v) \/ Tick(v)
    PROVE  SleepsOnlyWhilePending'
<1> SUFFICES ASSUME NEW w \in Waiters,
                    wpc'[w] \in {"pending", "parked"},
                    wakers'[w] = "enabled",
                    \A c \in Calls : pc'[c] # "notifying"
             PROVE  Verdict(w, buffer)' = "pending"
  BY DEF SleepsOnlyWhilePending
<1>1. pc' = pc /\ buffer' = buffer
  BY DEF Start, AssertStep, Tick, Register, CountAndEvaluate, GiveUp, Park,
         Wake, TimeOut, FailOnTimeout, Enable, Release, vars
<1>2. w # v => wpc'[w] = wpc[w] /\ wakers'[w] = wakers[w]
  BY DEF Start, AssertStep, Tick, Register, CountAndEvaluate, GiveUp, Park,
         Wake, TimeOut, FailOnTimeout, Enable, Release, vars, WaitTypeOK, TypeOK
<1>3. CASE w # v
  BY <1>1, <1>2, <1>3 DEF SleepsOnlyWhilePending
<1>4. CASE w = v /\ CountAndEvaluate(v)
  <2>1. wpc'[v] = Verdict(v, buffer)
    BY <1>4 DEF CountAndEvaluate, WaitTypeOK
  <2>2. Verdict(v, buffer) \in {"passed", "failed", "pending"}
    BY VerdictType DEF WaitTypeOK, TypeOK
  <2> QED BY <1>1, <1>4, <2>1, <2>2
<1>5. CASE w = v /\ (Park(v) \/ Tick(v))
  <2>1. wpc[v] \in {"pending", "parked"} /\ wakers[v] = "enabled"
    BY <1>5 DEF Park, Tick, vars, WaitTypeOK
  <2> QED BY <1>1, <1>5, <2>1 DEF SleepsOnlyWhilePending
<1>6. CASE w = v /\ (\/ Start(v) \/ Register(v) \/ GiveUp(v) \/ Wake(v)
                     \/ TimeOut(v) \/ FailOnTimeout(v))
  BY <1>6 DEF Start, Register, GiveUp, Wake, TimeOut, FailOnTimeout, WaitTypeOK
<1> QED BY <1>3, <1>4, <1>5, <1>6 DEF AssertStep

\* Every step keeps the invariant.
LEMMA WaitInvStep ==
    ASSUME WaitInv, TypeOK', [WaitNext]_allVars
    PROVE  WaitInv'
<1>1. WaitTypeOK'
  BY WaitTypeStep DEF WaitInv
<1>2. SleepsOnlyWhilePending'
  <2>1. CASE RecorderStep
    BY <2>1, RecorderKeepsSleep DEF WaitInv
  <2>2. CASE \E v \in Waiters : Start(v) \/ AssertStep(v) \/ Tick(v)
    BY <2>2, AssertKeepsSleep DEF WaitInv
  <2>3. CASE UNCHANGED allVars
    BY <2>3 DEF WaitInv, SleepsOnlyWhilePending, allVars, vars, wvars, clock, Verdict, CountMatching
  <2> QED BY <2>1, <2>2, <2>3 DEF WaitNext
<1> QED BY <1>1, <1>2 DEF WaitInv

\* The invariant holds in every state of an execution.
LEMMA WaitInvariant == WaitSpec => []WaitInv
<1>1. WaitInit => WaitInv
  BY WaitInvInit
<1>2. WaitInv /\ TypeOK' /\ [WaitNext]_allVars => WaitInv'
  BY WaitInvStep
<1>3. WaitSpec => []TypeOK
  BY WaitForIsRecorder, TypeCorrect, PTL
<1> QED BY <1>1, <1>2, <1>3, PTL DEF WaitSpec

\* A finished assertion leaves no waiter behind in the Notify of the recorder, and
\* every variable keeps its type.
THEOREM NoWaiterLeaks == WaitSpec => []WaitTypeOK
BY WaitInvariant, PTL DEF WaitInv

\* No insert is missed between the count and the wait of wait_for_assertion: a
\* waiting assertion that nobody is about to notify is undecided on the ring.
THEOREM NoLostWakeup == WaitSpec => []SleepsOnlyWhilePending
BY WaitInvariant, PTL DEF WaitInv

----------------------------------------------------------------------------
\* Counts.

\* A ring that only grew at its end has lost no match.
LEMMA AppendKeepsCount ==
    ASSUME NEW w \in Waiters, NEW buf \in Seq(Calls), NEW c \in Calls
    PROVE  ~(CountMatching(w, Append(buf, c)) < CountMatching(w, buf))
<1> DEFINE old == {i \in 1..Len(buf) : buf[i] \in Matching[w]}
           new == {i \in 1..Len(Append(buf, c)) : Append(buf, c)[i] \in Matching[w]}
<1>1. /\ Len(Append(buf, c)) = Len(buf) + 1 /\ Len(buf) \in Nat
      /\ \A i \in 1..Len(buf) : Append(buf, c)[i] = buf[i]
  OBVIOUS
<1>2. old \subseteq new
  BY <1>1
<1>3. IsFiniteSet(new)
  <2>1. IsFiniteSet(1..(Len(buf) + 1))
    BY <1>1, FS_Interval
  <2>2. new \subseteq 1..(Len(buf) + 1)
    BY <1>1
  <2> QED BY <2>1, <2>2, FS_Subset
<1>4. /\ Cardinality(old) \in Nat /\ Cardinality(new) \in Nat
      /\ Cardinality(old) <= Cardinality(new)
  <2> HIDE DEF old, new
  <2>1. IsFiniteSet(old) /\ Cardinality(old) <= Cardinality(new)
    BY <1>2, <1>3, FS_Subset
  <2> QED BY <1>3, <2>1, FS_CardinalityType
<1>5. /\ CountMatching(w, buf) = Cardinality(old)
      /\ CountMatching(w, Append(buf, c)) = Cardinality(new)
  BY DEF CountMatching
<1> HIDE DEF old, new
<1> QED BY <1>4, <1>5

\* A push into a ring below its cap loses no match.
LEMMA PushKeepsCount ==
    ASSUME TypeOK, NEW c \in Calls, Push(c), NEW w \in Waiters,
           Len(buffer) < MaxInMemory
    PROVE  ~(CountMatching(w, buffer') < CountMatching(w, buffer))
<1>1. buffer \in Seq(Calls) /\ Len(buffer) \in Nat /\ MaxInMemory \in Nat
  BY RecorderAssumption DEF TypeOK
<1>2. buffer' = Append(buffer, c)
  BY <1>1 DEF Push, Retain, Evict
<1> QED BY <1>1, <1>2, AppendKeepsCount

\* Where "further traffic cannot bring the count back down" (command.rs:267) is true:
\* while the ring is below its cap, an overshoot stays one until a clear().
THEOREM OvershootFinalBelowCap ==
    WaitSpec /\ [](Len(buffer) < MaxInMemory) => OvershootIsFinal
<1> DEFINE A == \A w \in Waiters :
        /\ Expected[w] \in Nat
        /\ CountMatching(w, buffer) > Expected[w]
        /\ buffer' # <<>>
        => CountMatching(w, buffer') > Expected[w]
<1>1. ASSUME TypeOK, TypeOK', Len(buffer) < MaxInMemory, [Next]_vars
      PROVE  A
  <2> SUFFICES ASSUME NEW w \in Waiters,
                      Expected[w] \in Nat,
                      CountMatching(w, buffer) > Expected[w],
                      buffer' # <<>>
               PROVE  CountMatching(w, buffer') > Expected[w]
    OBVIOUS
  <2>1. buffer \in Seq(Calls) /\ buffer' \in Seq(Calls)
    BY <1>1 DEF TypeOK
  <2>2. CountMatching(w, buffer) \in Nat /\ CountMatching(w, buffer') \in Nat
    BY <2>1, CountIsNat
  <2>3. CASE buffer' = buffer
    BY <2>3
  <2>4. CASE buffer' # buffer
    <3>1. (\E c \in Calls : Push(c)) \/ Clear
      BY <1>1, <2>4 DEF Next, RecordStep, Begin, Acquire, AppendOk, AppendErr, Notify,
                        Cancel, Enable, Release, vars
    <3>2. PICK c \in Calls : Push(c)
      BY <3>1 DEF Clear
    <3>3. ~(CountMatching(w, buffer') < CountMatching(w, buffer))
      BY <1>1, <3>2, PushKeepsCount
    <3> QED BY <2>2, <3>3
  <2> QED BY <2>3, <2>4
<1>2. TypeOK /\ TypeOK' /\ Len(buffer) < MaxInMemory /\ [WaitNext]_allVars => [A]_allVars
  BY <1>1, StepIsRecorderStep
<1>3. WaitSpec => []TypeOK
  BY WaitForIsRecorder, TypeCorrect, PTL
<1> QED BY <1>2, <1>3, PTL DEF WaitSpec, OvershootIsFinal

----------------------------------------------------------------------------
\* Time.

\* A timeout that overflows leaves nothing, any other one leaves itself.
LEMMA UntilDeadlineBound ==
    ASSUME NEW w \in Waiters
    PROVE  /\ Timeout[w] \in Nat
           /\ UntilDeadline(Timeout[w]) \in Nat
           /\ UntilDeadline(Timeout[w]) <= Timeout[w]
BY WaitForAssumption DEF UntilDeadline

\* Every step keeps the account of time: only the dispatch of an assertion that has
\* spent nothing sets its deadline.
LEMMA TimeStep ==
    ASSUME WaitTypeOK, TimeInv, [WaitNext]_allVars
    PROVE  TimeInv'
<1> SUFFICES ASSUME NEW w \in Waiters
             PROVE  /\ wpc'[w] = "idle" => spent'[w] = 0
                    /\ left'[w] + spent'[w] <= Timeout[w]
  BY DEF TimeInv
<1>1. /\ left[w] \in Nat /\ spent[w] \in Nat
      /\ wpc[w] = "idle" => spent[w] = 0
      /\ left[w] + spent[w] <= Timeout[w]
  BY DEF TimeInv, WaitTypeOK
<1>2. Timeout[w] \in Nat /\ UntilDeadline(Timeout[w]) \in Nat
      /\ UntilDeadline(Timeout[w]) <= Timeout[w]
  BY UntilDeadlineBound
<1>3. ASSUME NEW v \in Waiters, Start(v)
      PROVE  /\ spent'[w] = spent[w]
             /\ wpc'[w] = "idle" => wpc[w] = "idle"
             /\ left'[w] = IF w = v THEN UntilDeadline(Timeout[w]) ELSE left[w]
             /\ w = v => wpc[w] = "idle"
  BY <1>3 DEF Start, WaitTypeOK
<1>4. ASSUME NEW v \in Waiters, Tick(v)
      PROVE  /\ w = v => left'[w] = left[w] - 1 /\ spent'[w] = spent[w] + 1 /\ wpc[w] # "idle"
             /\ w # v => left'[w] = left[w] /\ spent'[w] = spent[w]
             /\ wpc'[w] = wpc[w]
  BY <1>4 DEF Tick, Running, WaitTypeOK
<1>5. ASSUME NEW v \in Waiters, AssertStep(v)
      PROVE  left' = left /\ spent' = spent /\ (wpc'[w] = "idle" => wpc[w] = "idle")
  <2>1. CountAndEvaluate(v) => wpc' = [wpc EXCEPT ![v] = Verdict(v, buffer)]
                               /\ Verdict(v, buffer) \in {"passed", "failed", "pending"}
    BY VerdictType DEF CountAndEvaluate, WaitTypeOK, TypeOK
  <2>2. CASE CountAndEvaluate(v)
    BY <2>1, <2>2 DEF CountAndEvaluate, clock, WaitTypeOK
  <2>3. CASE ~CountAndEvaluate(v)
    BY <1>5, <2>3 DEF AssertStep, Register, GiveUp, Park, Wake, TimeOut, FailOnTimeout, clock,
                      WaitTypeOK
  <2> QED BY <2>2, <2>3
<1>6. CASE RecorderStep \/ UNCHANGED allVars
  BY <1>1, <1>6 DEF RecorderStep, allVars, wvars, clock
<1> QED BY <1>1, <1>2, <1>3, <1>4, <1>5, <1>6 DEF WaitNext

\* For any timeouts, the one that overflows the clock included: however often traffic
\* wakes the loop of wait_for_assertion, an assertion waits no longer than its timeout.
THEOREM NoWaitOutlastsTimeout == WaitSpec => []WaitsWithinTimeout
<1>1. WaitInit => TimeInv
  BY WaitForAssumption DEF WaitInit, TimeInv
<1>2. WaitTypeOK /\ TimeInv /\ [WaitNext]_allVars => TimeInv'
  BY TimeStep
<1>3. WaitTypeOK /\ TimeInv => WaitsWithinTimeout
  <2> SUFFICES ASSUME WaitTypeOK, TimeInv, NEW w \in Waiters
               PROVE  spent[w] <= Timeout[w]
    BY DEF WaitsWithinTimeout
  <2>1. left[w] \in Nat /\ spent[w] \in Nat /\ left[w] + spent[w] <= Timeout[w]
    BY DEF WaitTypeOK, TimeInv
  <2> QED BY <2>1, UntilDeadlineBound
<1> QED BY <1>1, <1>2, <1>3, NoWaiterLeaks, PTL DEF WaitSpec
============================================================================
