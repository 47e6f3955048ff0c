------------------------------ MODULE WaitFor -------------------------------
(***************************************************************************)
(* AssertSeen and AssertCount (partly-proxy-lib/src/command.rs,            *)
(* wait_for_assertion): the eventual assertions of the control plane,      *)
(* evaluated against the recorder while record() calls race with them.     *)
(*                                                                         *)
(* One member of Waiters is one assertion command. The command processor   *)
(* awaits each dispatch before it receives the next command, so at most    *)
(* one assertion runs at a time; record() calls and Recorder::clear (which *)
(* ClusterHandle::recorder exposes) run concurrently with it.              *)
(* Time is discrete: Tick takes one unit from what remains to the deadline *)
(* of the running assertion. The deadline is computed once, at dispatch.   *)
(***************************************************************************)
EXTENDS Recorder, FiniteSets

CONSTANTS
    Matching,     \* per assertion, the exchanges its TrafficFilter matches
    Expected,     \* per assertion, the count it waits for (AssertionShape)
    Seen,         \* the shape AssertionShape::Seen, in the range of Expected
    Timeout,      \* per assertion, its timeout
    MaxTimeout    \* the longest timeout Instant::checked_add can add to now

ASSUME WaitForAssumption ==
    /\ Matching \in [Waiters -> SUBSET Calls]
    /\ Expected \in [Waiters -> Nat \cup {Seen}]
    /\ Seen \notin Nat
    /\ Timeout \in [Waiters -> Nat]
    /\ MaxTimeout \in Nat

VARIABLES
    wpc,        \* progress of each assertion
    left,       \* what remains of each timeout until its deadline
    spent       \* history: the time each assertion took, up to its deadline

clock == <<left, spent>>
wvars == <<wpc, clock>>
allVars == <<vars, wvars>>

WaitStages == {"idle", "registering", "counting", "pending", "parked",
               "timedOut", "passed", "failed"}

\* The stages in which the assertion holds a Notified future.
Registered == {"counting", "pending", "parked", "timedOut"}

Running(w) == wpc[w] \notin {"idle", "passed", "failed"}

WaitTypeOK ==
    /\ TypeOK
    /\ wpc \in [Waiters -> WaitStages]
    /\ left \in [Waiters -> Nat]
    /\ spent \in [Waiters -> Nat]
    /\ \A w \in Waiters : wakers[w] # "none" => wpc[w] \in Registered

WaitInit ==
    /\ Init
    /\ wpc = [w \in Waiters |-> "idle"]
    /\ left = [w \in Waiters |-> 0]
    /\ spent = [w \in Waiters |-> 0]

----------------------------------------------------------------------------
\* Recorder::count_matching on a given ring.
CountMatching(w, buf) == Cardinality({i \in 1..Len(buf) : buf[i] \in Matching[w]})

\* evaluate(shape, count)
Evaluate(shape, count) ==
    IF shape = Seen
    THEN IF count >= 1 THEN "passed" ELSE "pending"
    ELSE CASE count = shape -> "passed"
           [] count > shape -> "failed"
           [] count < shape -> "pending"

Verdict(w, buf) == Evaluate(Expected[w], CountMatching(w, buf))

\* A read of the ring waits for the write lock to be free.
Readable == writer = {}

----------------------------------------------------------------------------
\* Instant::now().checked_add(timeout): a timeout that overflows leaves no
\* deadline, and nothing remains until it.
UntilDeadline(timeout) == IF timeout <= MaxTimeout THEN timeout ELSE 0

\* process_loop receives the command: no other assertion is being dispatched.
Start(w) ==
    /\ wpc[w] = "idle"
    /\ \A v \in Waiters : ~Running(v)
    /\ wpc' = [wpc EXCEPT ![w] = "registering"]
    /\ left' = [left EXCEPT ![w] = UntilDeadline(Timeout[w])]
    /\ UNCHANGED <<vars, spent>>

\* Top of the loop: create the Notified future and enable it.
Register(w) ==
    /\ wpc[w] = "registering"
    /\ Enable(w)
    /\ wpc' = [wpc EXCEPT ![w] = "counting"]
    /\ UNCHANGED clock

\* count_matching and evaluate; a verdict ends the command and drops the
\* Notified future.
CountAndEvaluate(w) ==
    /\ wpc[w] = "counting"
    /\ Readable
    /\ LET verdict == Verdict(w, buffer) IN
         /\ wpc' = [wpc EXCEPT ![w] = verdict]
         /\ IF verdict = "pending" THEN UNCHANGED vars ELSE Release(w)
    /\ UNCHANGED clock

\* Mutant of GiveUp: the future is kept.
GiveUpRegistered(w) ==
    /\ wpc[w] = "pending"
    /\ left[w] = 0
    /\ wpc' = [wpc EXCEPT ![w] = "failed"]
    /\ UNCHANGED <<vars, clock>>

\* Still pending: give up if the timeout is zero, or nothing remains of it, or
\* there is no deadline.
GiveUp(w) ==
    /\ wpc[w] = "pending"
    /\ left[w] = 0
    /\ Release(w)
    /\ wpc' = [wpc EXCEPT ![w] = "failed"]
    /\ UNCHANGED clock

\* Mutant of Park: the future is created only after the count.
ParkThenRegister(w) ==
    /\ wpc[w] = "pending"
    /\ left[w] > 0
    /\ Enable(w)
    /\ wpc' = [wpc EXCEPT ![w] = "parked"]
    /\ UNCHANGED clock

\* ... or start waiting on the Notified future for the remaining time.
Park(w) ==
    /\ wpc[w] = "pending"
    /\ left[w] > 0
    /\ wpc' = [wpc EXCEPT ![w] = "parked"]
    /\ UNCHANGED <<vars, clock>>

\* Mutant of Wake: every round computes the deadline anew.
WakeRestartsClock(w) ==
    /\ wpc[w] = "parked"
    /\ wakers[w] = "notified"
    /\ Release(w)
    /\ wpc' = [wpc EXCEPT ![w] = "registering"]
    /\ left' = [left EXCEPT ![w] = UntilDeadline(Timeout[w])]
    /\ UNCHANGED spent

\* The Notified future completed: go round the loop again.
Wake(w) ==
    /\ wpc[w] = "parked"
    /\ wakers[w] = "notified"
    /\ Release(w)
    /\ wpc' = [wpc EXCEPT ![w] = "registering"]
    /\ UNCHANGED clock

\* Mutant of TimeOut: the future is awaited without tokio::time::timeout.
TimeOutMissing(w) ==
    /\ wpc[w] = "timedOut"
    /\ UNCHANGED allVars

\* tokio::time::timeout polls the future first: it reports elapsed only while
\* the waiter has not been notified.
TimeOut(w) ==
    /\ wpc[w] = "parked"
    /\ left[w] = 0
    /\ wakers[w] = "enabled"
    /\ wpc' = [wpc EXCEPT ![w] = "timedOut"]
    /\ UNCHANGED <<vars, clock>>

\* The final count only goes into the message; the verdict is a failure, and
\* the Notified future goes with the iteration.
FailOnTimeout(w) ==
    /\ wpc[w] = "timedOut"
    /\ Readable
    /\ Release(w)
    /\ wpc' = [wpc EXCEPT ![w] = "failed"]
    /\ UNCHANGED clock

\* One unit of time passes. Past the deadline time is not counted: the loop waits
\* for the lock then, no longer for traffic.
Tick(w) ==
    /\ Running(w)
    /\ left[w] > 0
    /\ left' = [left EXCEPT ![w] = @ - 1]
    /\ spent' = [spent EXCEPT ![w] = @ + 1]
    /\ UNCHANGED <<vars, wpc>>

AssertStep(w) ==
    \/ Register(w)
    \/ CountAndEvaluate(w)
    \/ GiveUp(w)
    \/ Park(w)
    \/ Wake(w)
    \/ TimeOut(w)
    \/ FailOnTimeout(w)

RecorderStep ==
    /\ (\E c \in Calls : RecordStep(c)) \/ Clear
    /\ UNCHANGED wvars

WaitNext ==
    \/ RecorderStep
    \/ \E w \in Waiters : Start(w) \/ AssertStep(w) \/ Tick(w)

WaitSpec == WaitInit /\ [][WaitNext]_allVars

\* Running tasks are polled and record() calls progress. Nothing is assumed of
\* the clock: what a property says of time, it says of a deadline that has come.
Polled ==
    /\ Fairness
    /\ \A w \in Waiters : WF_allVars(AssertStep(w))

WaitFairSpec == WaitSpec /\ Polled

----------------------------------------------------------------------------
\* Properties.

\* No wakeup is lost: while an assertion waits un-notified and no record() call
\* is on its way to notify it, the predicate it waits for is still undecided on
\* the ring as it is now. (Registering the waker before the count is what makes
\* this true; an insert between count and await would be missed otherwise.)
SleepsOnlyWhilePending ==
    \A w \in Waiters :
        /\ wpc[w] \in {"pending", "parked"}
        /\ wakers[w] = "enabled"
        /\ \A c \in Calls : pc[c] # "notifying"
        => Verdict(w, buffer) = "pending"

\* The deadline is computed once: however often traffic wakes the loop, an
\* assertion waits for traffic no longer than its timeout.
WaitsWithinTimeout == \A w \in Waiters : spent[w] <= Timeout[w]

\* If a matching exchange is in the ring for good and the deadline does not come
\* first, a started AssertSeen passes: the wait-for loop needs no further traffic.
StableMatchPasses ==
    \A w \in {v \in Waiters : Expected[v] = Seen} :
        <>[](Verdict(w, buffer) = "passed") /\ [](Running(w) => left[w] > 0)
            => (wpc[w] = "registering" ~> wpc[w] = "passed")

\* An assertion whose deadline has come is answered though no traffic ever wakes it
\* again (the command processor serves nobody else until then).
AssertionAnswered ==
    \A w \in Waiters : Running(w) /\ left[w] = 0 ~> ~Running(w)

----------------------------------------------------------------------------
\* "Overshoot is terminal -- further traffic cannot bring the count back down"
\* (command.rs:267): a count above what an AssertCount expects stays above it until
\* the ring is cleared. It holds below the cap only: a full ring evicts.
OvershootIsFinal ==
    [][\A w \in Waiters :
        /\ Expected[w] \in Nat
        /\ CountMatching(w, buffer) > Expected[w]
        /\ buffer' # <<>>
        => CountMatching(w, buffer') > Expected[w]]_allVars
============================================================================
