------------------------------ MODULE Recorder ------------------------------
(***************************************************************************)
(* The shared traffic recorder (partly-proxy-lib/src/recorder.rs).         *)
(*                                                                         *)
(* Every finished exchange of every upstream is handed to one Recorder.    *)
(* Concurrent record() calls are serialised by an async write lock that is *)
(* held across the storage append, so that the medium and the in-memory    *)
(* ring see insertions in the same order; after the lock is dropped every  *)
(* registered wait-for assertion is notified.                              *)
(*                                                                         *)
(* One member of Calls is one record() call together with the exchange it  *)
(* carries (exchanges have unique ids and are recorded at most once).      *)
(* A call is cancelled when its connection's future is dropped; that can   *)
(* only happen at the two awaits, the lock and the append.                 *)
(***************************************************************************)
EXTENDS Naturals, Sequences, Functions

CONSTANTS
    Calls,          \* record() calls, each with its own exchange
    Waiters,        \* tasks that may register on the on_insert Notify
    Upstreams,      \* upstream names
    UpstreamOf,     \* exchange.upstream, per call
    NoName,         \* exchange.upstream = None
    Routes,         \* upstream names with a registered storage medium
    MaxInMemory,    \* RecordingConfig::max_in_memory
    RecordingOn     \* RecordingConfig::enabled

ASSUME RecorderAssumption ==
    /\ UpstreamOf \in [Calls -> Upstreams \cup {NoName}]
    /\ NoName \notin Upstreams
    /\ Routes \subseteq Upstreams
    /\ MaxInMemory \in Nat
    /\ RecordingOn \in BOOLEAN

VARIABLES
    pc,       \* progress of each record() call
    writer,   \* the calls holding the write lock of RecorderState
    buffer,   \* RecorderState::buffer, oldest first
    medium,   \* what each storage medium holds, in append order
    wakers    \* the on_insert Notify: state of each registered waiter

vars == <<pc, writer, buffer, medium, wakers>>

Stages == {"start", "locking", "appending", "pushing", "notifying",
           "ok", "rejected", "cancelled"}

Routed(c) == UpstreamOf[c] \in Routes

TypeOK ==
    /\ pc \in [Calls -> Stages]
    /\ writer \in {{}} \cup {{c} : c \in Calls}
    /\ buffer \in Seq(Calls)
    /\ medium \in [Routes -> Seq(Calls)]
    /\ wakers \in [Waiters -> {"none", "enabled", "notified"}]

Init ==
    /\ pc = [c \in Calls |-> "start"]
    /\ writer = {}
    /\ buffer = <<>>
    /\ medium = [u \in Routes |-> <<>>]
    /\ wakers = [w \in Waiters |-> "none"]

----------------------------------------------------------------------------
\* The two data steps of record().

\* medium after c's exchange reached the medium of its upstream
Landed(c) == [medium EXCEPT ![UpstreamOf[c]] = Append(@, c)]

\* Mutants of Evict: one entry too many is kept; the newest go.
EvictLate(buf) == IF Len(buf) > MaxInMemory THEN Tail(buf) ELSE buf
EvictNewest(buf) ==
    IF Len(buf) >= MaxInMemory THEN SubSeq(buf, 1, MaxInMemory - 1) ELSE buf

\* pop_front while len >= max_in_memory
Evict(buf) ==
    IF Len(buf) >= MaxInMemory
    THEN SubSeq(buf, Len(buf) - MaxInMemory + 2, Len(buf))
    ELSE buf

\* A cap of zero retains nothing: storage-only mode.
Retain(buf, c) == IF MaxInMemory = 0 THEN buf ELSE Append(Evict(buf), c)

----------------------------------------------------------------------------
\* record()

\* The call starts; a disabled recorder returns Ok at once.
Begin(c) ==
    /\ pc[c] = "start"
    /\ pc' = [pc EXCEPT ![c] = IF RecordingOn THEN "locking" ELSE "ok"]
    /\ UNCHANGED <<writer, buffer, medium, wakers>>

\* Mutant of Acquire: the append is not under the lock.
AcquireShared(c) ==
    /\ pc[c] = "locking"
    /\ writer' = writer \cup {c}
    /\ pc' = [pc EXCEPT ![c] = IF Routed(c) THEN "appending" ELSE "pushing"]
    /\ UNCHANGED <<buffer, medium, wakers>>

\* The write lock is granted.
Acquire(c) ==
    /\ pc[c] = "locking"
    /\ writer = {}
    /\ writer' = {c}
    /\ pc' = [pc EXCEPT ![c] = IF Routed(c) THEN "appending" ELSE "pushing"]
    /\ UNCHANGED <<buffer, medium, wakers>>

\* storage.append returned Ok.
AppendOk(c) ==
    /\ pc[c] = "appending"
    /\ medium' = Landed(c)
    /\ pc' = [pc EXCEPT ![c] = "pushing"]
    /\ UNCHANGED <<writer, buffer, wakers>>

\* Mutants of AppendErr: the error is ignored; the guard leaks.
AppendErrIgnored(c, landed) ==
    /\ pc[c] = "appending"
    /\ medium' = IF landed THEN Landed(c) ELSE medium
    /\ pc' = [pc EXCEPT ![c] = "pushing"]
    /\ UNCHANGED <<writer, buffer, wakers>>

AppendErrLeaksGuard(c, landed) ==
    /\ pc[c] = "appending"
    /\ medium' = IF landed THEN Landed(c) ELSE medium
    /\ pc' = [pc EXCEPT ![c] = "rejected"]
    /\ UNCHANGED <<writer, buffer, wakers>>

\* storage.append returned Err and `?` returns, dropping the guard. The bytes
\* may have reached the medium all the same (a buffered writer that failed to
\* flush keeps them and writes them with the next flush).
AppendErr(c, landed) ==
    /\ pc[c] = "appending"
    /\ medium' = IF landed THEN Landed(c) ELSE medium
    /\ writer' = writer \ {c}
    /\ pc' = [pc EXCEPT ![c] = "rejected"]
    /\ UNCHANGED <<buffer, wakers>>

\* Evict, push, and drop the guard.
Push(c) ==
    /\ pc[c] = "pushing"
    /\ buffer' = Retain(buffer, c)
    /\ writer' = writer \ {c}
    /\ pc' = [pc EXCEPT ![c] = "notifying"]
    /\ UNCHANGED <<medium, wakers>>

\* notify_waiters: wakes every waiter registered now, stores no permit.
Notify(c) ==
    /\ pc[c] = "notifying"
    /\ wakers' = [w \in Waiters |->
                    IF wakers[w] = "enabled" THEN "notified" ELSE wakers[w]]
    /\ pc' = [pc EXCEPT ![c] = "ok"]
    /\ UNCHANGED <<writer, buffer, medium>>

\* The future is dropped while it awaits the lock or the append. An append
\* that was under way may or may not have landed.
Cancel(c, landed) ==
    /\ \/ pc[c] = "locking" /\ ~landed
       \/ pc[c] = "appending"
    /\ medium' = IF landed THEN Landed(c) ELSE medium
    /\ writer' = writer \ {c}
    /\ pc' = [pc EXCEPT ![c] = "cancelled"]
    /\ UNCHANGED <<buffer, wakers>>

----------------------------------------------------------------------------
\* The other operations on the shared state.

\* clear(): takes the write lock, empties the ring, leaves the media alone.
Clear ==
    /\ writer = {}
    /\ buffer' = <<>>
    /\ UNCHANGED <<pc, writer, medium, wakers>>

\* on_insert().notified() followed by enable(): the waiter is registered.
Enable(w) ==
    /\ wakers' = [wakers EXCEPT ![w] = "enabled"]
    /\ UNCHANGED <<pc, writer, buffer, medium>>

\* The Notified future completes or is dropped.
Release(w) ==
    /\ wakers' = [wakers EXCEPT ![w] = "none"]
    /\ UNCHANGED <<pc, writer, buffer, medium>>

RecordStep(c) ==
    \/ Begin(c)
    \/ Acquire(c)
    \/ AppendOk(c)
    \/ \E landed \in BOOLEAN : AppendErr(c, landed)
    \/ Push(c)
    \/ Notify(c)
    \/ \E landed \in BOOLEAN : Cancel(c, landed)

Next ==
    \/ \E c \in Calls : RecordStep(c)
    \/ Clear
    \/ \E w \in Waiters : Enable(w) \/ Release(w)

Spec == Init /\ [][Next]_vars

\* Tokio's lock is granted in FIFO order, an append returns, and a runnable
\* task is polled: a started call is never starved by the scheduler.
Fairness ==
    \A c \in Calls :
        /\ WF_vars(Acquire(c))
        /\ WF_vars(AppendOk(c) \/ \E landed \in BOOLEAN : AppendErr(c, landed))
        /\ WF_vars(Push(c))
        /\ WF_vars(Notify(c))

FairSpec == Spec /\ Fairness

----------------------------------------------------------------------------
\* Properties.

\* x was placed in s before y.
Before(s, x, y) ==
    \E i, j \in 1..Len(s) : i < j /\ s[i] = x /\ s[j] = y

\* The in-memory ring never holds more than max_in_memory exchanges, however
\* many record() calls race (the cap the eviction loop of record() enforces).
RingBounded == Len(buffer) <= MaxInMemory

\* An exchange of a routed upstream is visible to predicate scans only when its
\* medium holds it: a failed or cancelled append never becomes visible
\* (record() appends before it pushes).
StorageFirst ==
    \A i \in 1..Len(buffer) :
        Routed(buffer[i]) => buffer[i] \in Range(medium[UpstreamOf[buffer[i]]])

\* Ring order and medium order agree under concurrent record() calls, with
\* failures, cancellations, evictions and clears in between: this is what
\* holding the write lock across storage.append is for.
SameOrder ==
    \A i, j \in 1..Len(buffer) :
        /\ i < j
        /\ UpstreamOf[buffer[i]] = UpstreamOf[buffer[j]]
        /\ Routed(buffer[i])
        => Before(medium[UpstreamOf[buffer[i]]], buffer[i], buffer[j])

\* The media as a caller may see them: an append whose exchange is about to be
\* pushed under the same lock has not happened yet.
CommittedMedium ==
    [u \in Routes |->
        IF \E c \in writer : pc[c] = "pushing" /\ UpstreamOf[c] = u
        THEN SubSeq(medium[u], 1, Len(medium[u]) - 1)
        ELSE medium[u]]

Atomic == INSTANCE AtomicRecorder WITH
    open   <- {c \in Calls : pc[c] \in {"start", "locking", "appending", "pushing"}},
    ring   <- buffer,
    stored <- CommittedMedium

\* record() is atomic: its append and its push, two steps with an await before
\* them, appear to every observer as one step (or as none on the ring).
RecordIsAtomic == Atomic!Spec

\* No record() call is stuck: a call that asked for the lock ends, whatever
\* other calls fail, are cancelled or clear the ring meanwhile.
RecordCompletes ==
    \A c \in Calls :
        pc[c] = "locking" ~> pc[c] \in {"ok", "rejected", "cancelled"}
============================================================================
