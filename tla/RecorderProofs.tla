--------------------------- MODULE RecorderProofs ---------------------------
(***************************************************************************)
(* Proofs about module Recorder, for any number of record() calls, any     *)
(* routes and any max_in_memory.                                           *)
(*                                                                         *)
(* The inductive invariant Inv adds to the properties what the lock gives: *)
(* only its holder is between lock and push (LockHeld), nothing of a call  *)
(* is visible before it pushed (RingSettled) or was appended (MediumOwn),  *)
(* and the holder that is about to push wrote last (PushingLast).          *)
(***************************************************************************)
EXTENDS Recorder, SequenceTheorems, TLAPS

LockHeld ==
    \A c \in Calls : c \in writer <=> pc[c] \in {"appending", "pushing"}

RingSettled ==
    \A i \in 1..Len(buffer) : pc[buffer[i]] \in {"notifying", "ok"}

MediumOwn ==
    \A u \in Routes : \A i \in 1..Len(medium[u]) :
        /\ UpstreamOf[medium[u][i]] = u
        /\ pc[medium[u][i]] \notin {"start", "locking", "appending"}

AppendingRouted == \A c \in Calls : pc[c] = "appending" => Routed(c)

PushingLast ==
    \A c \in Calls :
        pc[c] = "pushing" /\ Routed(c) =>
            /\ Len(medium[UpstreamOf[c]]) > 0
            /\ medium[UpstreamOf[c]][Len(medium[UpstreamOf[c]])] = c

Inv ==
    /\ TypeOK
    /\ LockHeld
    /\ RingSettled
    /\ MediumOwn
    /\ PushingLast
    /\ AppendingRouted
    /\ RingBounded
    /\ StorageFirst
    /\ SameOrder

----------------------------------------------------------------------------
\* What pushing does to the ring.

\* Retain keeps a suffix of the ring and makes c its newest entry, within the
\* cap; k is the number of evicted exchanges.
LEMMA RetainSuffix ==
    ASSUME NEW buf \in Seq(Calls), NEW c \in Calls,
           Len(buf) <= MaxInMemory, MaxInMemory > 0
    PROVE  LET new == Retain(buf, c) IN
           /\ new \in Seq(Calls)
           /\ Len(new) <= MaxInMemory
           /\ \E k \in 0..Len(buf) :
                /\ Len(new) = Len(buf) - k + 1
                /\ \A i \in 1..(Len(buf) - k) : new[i] = buf[i + k]
                /\ new[Len(buf) - k + 1] = c
<1>1. CASE Len(buf) < MaxInMemory
  <2>1. Retain(buf, c) = Append(buf, c)
    BY <1>1, RecorderAssumption DEF Retain, Evict
  <2>2. /\ Append(buf, c) \in Seq(Calls)
        /\ Len(Append(buf, c)) = Len(buf) - 0 + 1
        /\ \A i \in 1..(Len(buf) - 0) : Append(buf, c)[i] = buf[i + 0]
        /\ Append(buf, c)[Len(buf) - 0 + 1] = c
    OBVIOUS
  <2>3. 0 \in 0..Len(buf)
    OBVIOUS
  <2> QED BY <1>1, <2>1, <2>2, <2>3, RecorderAssumption
<1>2. CASE Len(buf) = MaxInMemory
  <2> DEFINE rest == SubSeq(buf, 2, Len(buf))
  <2>1. Retain(buf, c) = Append(rest, c)
    BY <1>2, RecorderAssumption DEF Retain, Evict
  <2>2. /\ rest \in Seq(Calls)
        /\ Len(rest) = Len(buf) - 1
        /\ \A i \in 1..(Len(buf) - 1) : rest[i] = buf[i + 1]
    BY <1>2, RecorderAssumption
  <2> HIDE DEF rest
  <2>3. 1 \in 0..Len(buf)
    BY <1>2, RecorderAssumption
  <2> QED BY <1>2, <2>1, <2>2, <2>3, RecorderAssumption
<1> QED BY <1>1, <1>2, RecorderAssumption

----------------------------------------------------------------------------
\* Every step preserves Inv, one action at a time.

\* An empty recorder.
LEMMA InitInv == Init => Inv
BY RecorderAssumption
   DEF Init, Inv, TypeOK, Stages, LockHeld, RingSettled, MediumOwn, PushingLast,
       AppendingRouted, RingBounded, StorageFirst, SameOrder

\* Begin, Acquire and Notify move c between stages; ring and media stay.
LEMMA BeginInv == ASSUME Inv, NEW c \in Calls, Begin(c) PROVE Inv'
<1> USE DEF Inv
<1>1. TypeOK' BY DEF Begin, TypeOK, Stages
<1>2. LockHeld' BY DEF Begin, TypeOK, LockHeld
<1>3. RingSettled' BY DEF Begin, TypeOK, RingSettled
<1>4. MediumOwn' BY DEF Begin, TypeOK, MediumOwn
<1>5. PushingLast' BY DEF Begin, TypeOK, PushingLast, Routed
<1>6. RingBounded' BY DEF Begin, RingBounded
<1>7. StorageFirst' BY DEF Begin, StorageFirst, Routed
<1>8. SameOrder' BY DEF Begin, SameOrder, Routed
<1>9. AppendingRouted' BY DEF Begin, TypeOK, AppendingRouted, Routed
<1> QED BY <1>1, <1>2, <1>3, <1>4, <1>5, <1>6, <1>7, <1>8, <1>9

\* Taking the writer lock.
LEMMA AcquireInv == ASSUME Inv, NEW c \in Calls, Acquire(c) PROVE Inv'
<1> USE DEF Inv
<1>1. TypeOK' BY DEF Acquire, TypeOK, Stages
<1>2. LockHeld' BY DEF Acquire, TypeOK, LockHeld
<1>3. RingSettled' BY DEF Acquire, TypeOK, RingSettled
<1>4. MediumOwn' BY DEF Acquire, TypeOK, MediumOwn
<1>5. PushingLast' BY DEF Acquire, TypeOK, PushingLast, Routed
<1>6. RingBounded' BY DEF Acquire, RingBounded
<1>7. StorageFirst' BY DEF Acquire, StorageFirst, Routed
<1>8. SameOrder' BY DEF Acquire, SameOrder, Routed
<1>9. AppendingRouted' BY DEF Acquire, TypeOK, AppendingRouted, Routed
<1> QED BY <1>1, <1>2, <1>3, <1>4, <1>5, <1>6, <1>7, <1>8, <1>9

\* Waking the waiters after a push.
LEMMA NotifyInv == ASSUME Inv, NEW c \in Calls, Notify(c) PROVE Inv'
<1> USE DEF Inv
<1>1. TypeOK' BY DEF Notify, TypeOK, Stages
<1>2. LockHeld' BY DEF Notify, TypeOK, LockHeld
<1>3. RingSettled' BY DEF Notify, TypeOK, RingSettled
<1>4. MediumOwn' BY DEF Notify, TypeOK, MediumOwn
<1>5. PushingLast' BY DEF Notify, TypeOK, PushingLast, Routed
<1>6. RingBounded' BY DEF Notify, RingBounded
<1>7. StorageFirst' BY DEF Notify, StorageFirst, Routed
<1>8. SameOrder' BY DEF Notify, SameOrder, Routed
<1>9. AppendingRouted' BY DEF Notify, TypeOK, AppendingRouted, Routed
<1> QED BY <1>1, <1>2, <1>3, <1>4, <1>5, <1>6, <1>7, <1>8, <1>9

\* clear() empties the ring.
LEMMA ClearInv == ASSUME Inv, Clear PROVE Inv'
<1> USE DEF Inv
<1>1. TypeOK' BY DEF Clear, TypeOK, Stages
<1>2. LockHeld' BY DEF Clear, TypeOK, LockHeld
<1>3. RingSettled' BY DEF Clear, TypeOK, RingSettled
<1>4. MediumOwn' BY DEF Clear, TypeOK, MediumOwn
<1>5. PushingLast' BY DEF Clear, TypeOK, PushingLast, Routed
<1>6. RingBounded' BY RecorderAssumption DEF Clear, RingBounded
<1>7. StorageFirst' BY DEF Clear, StorageFirst, Routed
<1>8. SameOrder' BY DEF Clear, SameOrder, Routed
<1>9. AppendingRouted' BY DEF Clear, TypeOK, AppendingRouted, Routed
<1> QED BY <1>1, <1>2, <1>3, <1>4, <1>5, <1>6, <1>7, <1>8, <1>9

\* The append, whatever becomes of it: c leaves "appending" for the given stage
\* and its exchange landed, or did not and c is not going to push. Because c holds
\* the lock, nobody else is about to push, and nothing the ring shows moves.
LEMMA AppendInv ==
    ASSUME Inv, NEW c \in Calls, pc[c] = "appending",
           NEW stage \in {"pushing", "rejected", "cancelled"},
           medium' = Landed(c) \/ (medium' = medium /\ stage # "pushing"),
           pc' = [pc EXCEPT ![c] = stage],
           writer' = IF stage = "pushing" THEN writer ELSE writer \ {c},
           UNCHANGED <<buffer, wakers>>
    PROVE  Inv'
<1> DEFINE u == UpstreamOf[c]
<1> USE DEF Inv
<1>0. u \in Routes /\ medium[u] \in Seq(Calls)
  BY DEF AppendingRouted, Routed, TypeOK
<1>a. writer = {c}
  BY DEF TypeOK, LockHeld
<1>b. \A d \in Calls : pc[d] # "pushing"
  BY <1>a DEF LockHeld
<1>c. CASE medium' = Landed(c)
  <2>1. /\ medium' \in [Routes -> Seq(Calls)]
        /\ \A v \in Routes \ {u} : medium'[v] = medium[v]
        /\ medium'[u] = Append(medium[u], c)
    BY <1>0, <1>c DEF Landed, TypeOK
  <2>2. /\ Len(medium'[u]) = Len(medium[u]) + 1
        /\ \A i \in 1..Len(medium[u]) : medium'[u][i] = medium[u][i]
        /\ medium'[u][Len(medium[u]) + 1] = c
    BY <1>0, <2>1
  <2>3. TypeOK' BY <1>a, <2>1 DEF TypeOK, Stages
  <2>4. LockHeld' BY <1>a DEF TypeOK, LockHeld
  <2>5. RingSettled' BY DEF TypeOK, RingSettled
  <2>6. MediumOwn' 
    <3>1. SUFFICES ASSUME NEW v \in Routes, NEW i \in 1..Len(medium'[v])
                   PROVE  /\ UpstreamOf[medium'[v][i]] = v
                          /\ pc'[medium'[v][i]] \notin {"start", "locking", "appending"}
      BY DEF MediumOwn
    <3>2. CASE v = u /\ i = Len(medium[u]) + 1
      BY <2>2, <3>2 DEF TypeOK
    <3>3. CASE v = u /\ i # Len(medium[u]) + 1
      <4>1. i \in 1..Len(medium[u]) BY <1>0, <2>2, <3>3
      <4>2. medium'[v][i] = medium[u][i] BY <2>2, <3>3, <4>1
      <4>3. medium[u][i] \in Calls BY <1>0, <4>1
      <4> QED BY <1>0, <3>3, <4>1, <4>2, <4>3 DEF MediumOwn, TypeOK
    <3>4. CASE v # u
      <4>1. medium'[v] = medium[v] BY <2>1, <3>4
      <4>2. medium[v][i] \in Calls BY <4>1 DEF TypeOK
      <4> QED BY <4>1, <4>2 DEF MediumOwn, TypeOK
    <3> QED BY <3>2, <3>3, <3>4
  <2>7. PushingLast' BY <1>0, <1>b, <2>2 DEF TypeOK, PushingLast, Routed
  <2>8. AppendingRouted' BY DEF TypeOK, AppendingRouted, Routed
  <2>9. RingBounded' BY DEF RingBounded
  <2>a. ASSUME NEW v \in Routes, NEW i \in 1..Len(medium[v])
        PROVE  i \in 1..Len(medium'[v]) /\ medium'[v][i] = medium[v][i]
    <3>1. CASE v = u BY <1>0, <2>2, <3>1
    <3>2. CASE v # u BY <2>1, <3>2
    <3> QED BY <3>1, <3>2
  <2>10. \A v \in Routes : Range(medium[v]) \subseteq Range(medium'[v])
    <3>1. ASSUME NEW v \in Routes, NEW x \in Range(medium[v])
          PROVE  x \in Range(medium'[v])
      <4>1. PICK i \in 1..Len(medium[v]) : x = medium[v][i]
        BY DEF Range, TypeOK
      <4>2. i \in 1..Len(medium'[v]) /\ x = medium'[v][i]
        BY <2>a, <4>1
      <4> QED BY <2>1, <4>2 DEF Range
    <3> QED BY <3>1
  <2>11. StorageFirst' BY <2>10 DEF StorageFirst, Routed
  <2>12. \A v \in Routes : \A x, y : Before(medium[v], x, y) => Before(medium'[v], x, y)
    BY <2>a DEF Before
  <2>13. SameOrder' BY <2>12 DEF SameOrder, Routed
  <2> QED BY <2>3, <2>4, <2>5, <2>6, <2>7, <2>8, <2>9, <2>11, <2>13
<1>d. CASE medium' = medium /\ stage # "pushing"
  <2>1. TypeOK' BY <1>d DEF TypeOK, Stages
  <2>2. LockHeld' BY <1>d DEF TypeOK, LockHeld
  <2>3. RingSettled' BY DEF TypeOK, RingSettled
  <2>4. MediumOwn' BY <1>d DEF TypeOK, MediumOwn
  <2>5. PushingLast' BY <1>d DEF TypeOK, PushingLast, Routed
  <2>6. AppendingRouted' BY DEF TypeOK, AppendingRouted, Routed
  <2>7. RingBounded' BY DEF RingBounded
  <2>8. StorageFirst' BY <1>d DEF StorageFirst, Routed
  <2>9. SameOrder' BY <1>d DEF SameOrder, Routed
  <2> QED BY <2>1, <2>2, <2>3, <2>4, <2>5, <2>6, <2>7, <2>8, <2>9
<1> QED BY <1>c, <1>d

\* The three ways an append ends: it succeeds, it fails, its caller goes away.
LEMMA AppendOkInv == ASSUME Inv, NEW c \in Calls, AppendOk(c) PROVE Inv'
BY AppendInv DEF AppendOk

LEMMA AppendErrInv ==
    ASSUME Inv, NEW c \in Calls, NEW landed \in BOOLEAN, AppendErr(c, landed) PROVE Inv'
BY AppendInv DEF AppendErr

LEMMA CancelInv ==
    ASSUME Inv, NEW c \in Calls, NEW landed \in BOOLEAN, Cancel(c, landed) PROVE Inv'
<1>1. CASE pc[c] = "appending"
  BY <1>1, AppendInv DEF Cancel
<1>2. CASE pc[c] = "locking"
  <2> USE DEF Inv
  <2>0. /\ medium' = medium /\ buffer' = buffer /\ wakers' = wakers
        /\ pc' = [pc EXCEPT ![c] = "cancelled"]
        /\ writer' = writer \ {c}
    BY <1>2 DEF Cancel
  <2>1. TypeOK' BY <2>0 DEF TypeOK, Stages
  <2>2. LockHeld' BY <1>2, <2>0 DEF TypeOK, LockHeld
  <2>3. RingSettled' BY <1>2, <2>0 DEF TypeOK, RingSettled
  <2>4. MediumOwn' BY <2>0 DEF TypeOK, MediumOwn
  <2>5. PushingLast' BY <2>0 DEF TypeOK, PushingLast, Routed
  <2>6. AppendingRouted' BY <2>0 DEF TypeOK, AppendingRouted, Routed
  <2>7. RingBounded' BY <2>0 DEF RingBounded
  <2>8. StorageFirst' BY <2>0 DEF StorageFirst, Routed
  <2>9. SameOrder' BY <2>0 DEF SameOrder, Routed
  <2> QED BY <2>1, <2>2, <2>3, <2>4, <2>5, <2>6, <2>7, <2>8, <2>9
<1> QED BY <1>1, <1>2 DEF Cancel

\* The push. Without a ring nothing is shown; otherwise every older entry keeps
\* its place before c, which wrote to its medium last.
LEMMA PushInv == ASSUME Inv, NEW c \in Calls, Push(c) PROVE Inv'
<1> USE DEF Inv
<1>0. /\ medium' = medium /\ wakers' = wakers
      /\ pc[c] = "pushing" /\ pc' = [pc EXCEPT ![c] = "notifying"]
      /\ writer' = writer \ {c} /\ buffer' = Retain(buffer, c)
  BY DEF Push
<1>2. LockHeld' BY <1>0 DEF TypeOK, LockHeld
<1>4. MediumOwn' BY <1>0 DEF TypeOK, MediumOwn
<1>5. PushingLast' BY <1>0 DEF TypeOK, PushingLast, Routed
<1>9. AppendingRouted' BY <1>0 DEF TypeOK, AppendingRouted, Routed
<1>a. CASE MaxInMemory = 0
  <2>0. buffer' = buffer BY <1>0, <1>a DEF Retain
  <2>1. TypeOK' BY <1>0, <2>0 DEF TypeOK, Stages
  <2>3. RingSettled' BY <1>0, <2>0 DEF TypeOK, RingSettled
  <2>6. RingBounded' BY <2>0 DEF RingBounded
  <2>7. StorageFirst' BY <1>0, <2>0 DEF StorageFirst, Routed
  <2>8. SameOrder' BY <1>0, <2>0 DEF SameOrder, Routed
  <2> QED BY <1>2, <1>4, <1>5, <1>9, <2>1, <2>3, <2>6, <2>7, <2>8
<1>b. CASE MaxInMemory > 0
  <2> DEFINE n == Len(buffer')
  <2>0. /\ buffer \in Seq(Calls) /\ buffer' \in Seq(Calls)
        /\ Len(buffer') <= MaxInMemory
    BY <1>0, <1>b, RetainSuffix DEF TypeOK, RingBounded
  <2>k. PICK k \in 0..Len(buffer) :
          /\ Len(buffer') = Len(buffer) - k + 1
          /\ \A i \in 1..(Len(buffer) - k) : buffer'[i] = buffer[i + k]
          /\ buffer'[Len(buffer) - k + 1] = c
    BY <1>0, <1>b, RetainSuffix DEF TypeOK, RingBounded
  <2>i. ASSUME NEW i \in 1..n
        PROVE  \/ i < n /\ i + k \in 1..Len(buffer) /\ buffer'[i] = buffer[i + k]
               \/ i = n /\ buffer'[i] = c
    <3>1. Len(buffer) \in Nat /\ k \in 0..Len(buffer) /\ n = Len(buffer) - k + 1
      BY <2>0, <2>k
    <3>2. CASE i = n BY <2>k, <3>1, <3>2
    <3>3. CASE i # n
      <4>1. i \in 1..(Len(buffer) - k) /\ i < n /\ i + k \in 1..Len(buffer)
        BY <3>1, <3>3
      <4> QED BY <2>k, <4>1
    <3> QED BY <3>2, <3>3
  <2>1. TypeOK' BY <1>0, <2>0 DEF TypeOK, Stages
  <2>3. RingSettled'
    <3>1. ASSUME NEW i \in 1..n PROVE pc'[buffer'[i]] \in {"notifying", "ok"}
      <4>1. buffer'[i] \in Calls BY <2>0
      <4>2. CASE i = n /\ buffer'[i] = c BY <1>0, <4>2 DEF TypeOK
      <4>3. CASE i + k \in 1..Len(buffer) /\ buffer'[i] = buffer[i + k]
        BY <1>0, <4>1, <4>3 DEF TypeOK, RingSettled
      <4> QED BY <2>i, <4>2, <4>3
    <3> QED BY <3>1 DEF RingSettled
  <2>6. RingBounded' BY <2>0 DEF RingBounded
  <2>s. Routed(c) => c \in Range(medium[UpstreamOf[c]])
    BY <1>0 DEF PushingLast, TypeOK, Range, Routed
  <2>7. StorageFirst'
    <3>1. ASSUME NEW i \in 1..n, Routed(buffer'[i])
          PROVE  buffer'[i] \in Range(medium[UpstreamOf[buffer'[i]]])
      <4>2. CASE i = n /\ buffer'[i] = c BY <2>s, <3>1, <4>2
      <4>3. CASE i + k \in 1..Len(buffer) /\ buffer'[i] = buffer[i + k]
        BY <3>1, <4>3 DEF StorageFirst
      <4> QED BY <2>i, <4>2, <4>3
    <3> QED BY <1>0, <3>1 DEF StorageFirst, Routed
  <2>8. SameOrder'
    <3>1. ASSUME NEW i \in 1..n, NEW j \in 1..n, i < j,
                 UpstreamOf[buffer'[i]] = UpstreamOf[buffer'[j]], Routed(buffer'[i])
          PROVE  Before(medium[UpstreamOf[buffer'[i]]], buffer'[i], buffer'[j])
      <4> DEFINE m == medium[UpstreamOf[c]]
      <4>1. i + k \in 1..Len(buffer) /\ buffer'[i] = buffer[i + k]
        BY <2>0, <2>i, <3>1
      <4>2. CASE j < n
        <5>1. j + k \in 1..Len(buffer) /\ buffer'[j] = buffer[j + k]
          BY <2>i, <4>2
        <5>2. i + k < j + k BY <2>k, <3>1
        <5> QED BY <3>1, <4>1, <5>1, <5>2 DEF SameOrder
      <4>3. CASE j = n
        <5>1. buffer'[j] = c BY <2>0, <2>i, <4>3
        <5>2. UpstreamOf[c] \in Routes /\ m \in Seq(Calls)
          BY <3>1, <5>1 DEF Routed, TypeOK
        <5>3. Len(m) > 0 /\ m[Len(m)] = c
          BY <1>0, <5>2 DEF PushingLast, Routed
        <5>4. buffer'[i] \in Range(m)
          BY <3>1, <4>1, <5>1 DEF StorageFirst
        <5>5. PICK p \in 1..Len(m) : m[p] = buffer'[i]
          BY <5>2, <5>4 DEF Range
        <5>6. buffer'[i] # c
          BY <1>0, <4>1 DEF RingSettled
        <5>7. p < Len(m)
          <6>1. p # Len(m) BY <5>3, <5>5, <5>6
          <6>2. Len(m) \in Nat BY <5>2
          <6> QED BY <6>1, <6>2
        <5>8. Before(m, buffer'[i], c)
          <6>1. Len(m) \in 1..Len(m) BY <5>2, <5>3
          <6> QED BY <5>3, <5>5, <5>7, <6>1 DEF Before
        <5>9. UpstreamOf[buffer'[i]] = UpstreamOf[c] BY <3>1, <5>1
        <5> QED BY <5>1, <5>8, <5>9
      <4> QED BY <2>0, <4>2, <4>3
    <3> QED BY <1>0, <3>1 DEF SameOrder, Routed
  <2> QED BY <1>2, <1>4, <1>5, <1>9, <2>1, <2>3, <2>6, <2>7, <2>8
<1> QED BY <1>a, <1>b, RecorderAssumption

\* A waiter that registers or leaves touches neither ring nor media.
LEMMA WakersInv ==
    ASSUME Inv, NEW w \in Waiters, Enable(w) \/ Release(w) PROVE Inv'
<1> USE DEF Inv
<1>0. UNCHANGED <<pc, writer, buffer, medium>> BY DEF Enable, Release
<1>1. TypeOK' BY <1>0 DEF Enable, Release, TypeOK
<1>2. LockHeld' BY <1>0 DEF LockHeld
<1>3. RingSettled' BY <1>0 DEF RingSettled
<1>4. MediumOwn' BY <1>0 DEF MediumOwn
<1>5. PushingLast' BY <1>0 DEF PushingLast, Routed
<1>6. AppendingRouted' BY <1>0 DEF AppendingRouted, Routed
<1>7. RingBounded' BY <1>0 DEF RingBounded
<1>8. StorageFirst' BY <1>0 DEF StorageFirst, Routed
<1>9. SameOrder' BY <1>0 DEF SameOrder, Routed
<1> QED BY <1>1, <1>2, <1>3, <1>4, <1>5, <1>6, <1>7, <1>8, <1>9

\* A step that changes nothing.
LEMMA StutterInv == ASSUME Inv, UNCHANGED vars PROVE Inv'
BY DEF vars, Inv, TypeOK, LockHeld, RingSettled, MediumOwn, PushingLast,
       AppendingRouted, RingBounded, StorageFirst, SameOrder, Routed

\* Inv is inductive: every step of every call, and every other operation on the
\* recorder, preserves it.
LEMMA NextInv == ASSUME Inv, [Next]_vars PROVE Inv'
<1>1. CASE UNCHANGED vars BY <1>1, StutterInv
<1>2. ASSUME NEW c \in Calls, RecordStep(c) PROVE Inv'
  <2>1. CASE Begin(c) BY <2>1, BeginInv
  <2>2. CASE Acquire(c) BY <2>2, AcquireInv
  <2>3. CASE AppendOk(c) BY <2>3, AppendOkInv
  <2>4. ASSUME NEW landed \in BOOLEAN, AppendErr(c, landed) PROVE Inv'
    BY <2>4, AppendErrInv
  <2>5. CASE Push(c) BY <2>5, PushInv
  <2>6. CASE Notify(c) BY <2>6, NotifyInv
  <2>7. ASSUME NEW landed \in BOOLEAN, Cancel(c, landed) PROVE Inv'
    BY <2>7, CancelInv
  <2> QED BY <1>2, <2>1, <2>2, <2>3, <2>4, <2>5, <2>6, <2>7 DEF RecordStep
<1>3. CASE Clear BY <1>3, ClearInv
<1>4. ASSUME NEW w \in Waiters, Enable(w) \/ Release(w) PROVE Inv'
  BY <1>4, WakersInv
<1> QED BY <1>1, <1>2, <1>3, <1>4 DEF Next

\* Inv holds in every reachable state.
LEMMA Invariance == Spec => []Inv
BY InitInv, NextInv, PTL DEF Spec

----------------------------------------------------------------------------
\* The recorder's safety properties, for every value of the constants.

\* Every variable keeps its type and at most one record() call ever holds the
\* write lock, under any number of concurrent, failing and cancelled calls.
THEOREM TypeCorrect == Spec => []TypeOK
BY Invariance, PTL DEF Inv

\* The ring never outgrows max_in_memory, whatever max_in_memory is.
THEOREM RingIsBounded == Spec => []RingBounded
BY Invariance, PTL DEF Inv

\* A routed exchange is visible to predicate scans only once its medium has it.
THEOREM StorageComesFirst == Spec => []StorageFirst
BY Invariance, PTL DEF Inv

\* Holding the write lock across storage.append keeps ring and media in the same
\* order, for any number of calls, upstreams, failures and cancellations.
THEOREM OrdersAgree == Spec => []SameOrder
BY Invariance, PTL DEF Inv

----------------------------------------------------------------------------
(***************************************************************************)
(* Module Recorder implements module AtomicRecorder: every step of a       *)
(* record() call is one atomic Record or Abandon, or invisible. The append *)
(* is invisible while its call holds the lock (CommittedMedium); the push  *)
(* is the step at which the exchange appears in ring and medium at once.   *)
(***************************************************************************)

Open == {c \in Calls : pc[c] \in {"start", "locking", "appending", "pushing"}}

----------------------------------------------------------------------------
\* The ring after a push holds the newest MaxInMemory exchanges.
LEMMA RetainNewest ==
    ASSUME NEW buf \in Seq(Calls), NEW c \in Calls, Len(buf) <= MaxInMemory
    PROVE  Retain(buf, c) = Atomic!Newest(Append(buf, c), MaxInMemory)
<1> USE RecorderAssumption
<1> DEFINE all == Append(buf, c)
<1>0. /\ all \in Seq(Calls) /\ Len(all) = Len(buf) + 1
      /\ \A i \in 1..Len(buf) : all[i] = buf[i]
      /\ all[Len(buf) + 1] = c
  OBVIOUS
<1>1. CASE MaxInMemory = 0
  <2>1. Retain(buf, c) = buf BY <1>1 DEF Retain
  <2>2. buf = <<>> BY <1>1
  <2>3. SubSeq(all, 2, 1) = <<>> BY <1>0
  <2> QED BY <1>0, <1>1, <2>1, <2>2, <2>3 DEF Atomic!Newest
<1>2. CASE Len(buf) < MaxInMemory
  <2>1. Retain(buf, c) = all BY <1>2 DEF Retain, Evict
  <2> QED BY <1>0, <1>2, <2>1 DEF Atomic!Newest
<1>3. CASE MaxInMemory > 0 /\ Len(buf) = MaxInMemory
  <2> DEFINE rest == SubSeq(buf, 2, Len(buf))
             last == SubSeq(all, 2, Len(buf) + 1)
  <2>1. Retain(buf, c) = Append(rest, c) BY <1>3 DEF Retain, Evict
  <2>2. Atomic!Newest(all, MaxInMemory) = last BY <1>0, <1>3 DEF Atomic!Newest
  <2>3. /\ rest \in Seq(Calls) /\ Len(rest) = Len(buf) - 1
        /\ \A i \in 1..(Len(buf) - 1) : rest[i] = buf[i + 1]
    BY <1>3
  <2>4. /\ last \in Seq(Calls) /\ Len(last) = Len(buf)
        /\ \A i \in 1..Len(buf) : last[i] = all[i + 1]
    BY <1>0, <1>3
  <2> HIDE DEF rest, last, all
  <2>5. /\ Append(rest, c) \in Seq(Calls) /\ Len(Append(rest, c)) = Len(buf)
        /\ \A i \in 1..(Len(buf) - 1) : Append(rest, c)[i] = buf[i + 1]
        /\ Append(rest, c)[Len(buf)] = c
    BY <1>3, <2>3
  <2>6. \A i \in 1..Len(buf) : Append(rest, c)[i] = last[i]
    BY <1>0, <1>3, <2>4, <2>5
  <2>7. Append(rest, c) = last BY <2>4, <2>5, <2>6, SeqEqual
  <2> QED BY <2>1, <2>2, <2>7 DEF all
<1> QED BY <1>1, <1>2, <1>3

----------------------------------------------------------------------------
\* The simulation, by the effect of a step on lock, media and ring.

\* Step simulation, action by action.
LEMMA InitSimulates == Init => Atomic!Init
BY DEF Init, Atomic!Init, CommittedMedium

\* Nobody is between append and push: the committed media are the media.
LEMMA QuietMedium ==
    ASSUME TypeOK, \A d \in writer : pc[d] # "pushing"
    PROVE  CommittedMedium = medium
BY DEF TypeOK, CommittedMedium

LEMMA QuietMediumPrime ==
    ASSUME TypeOK', \A d \in writer' : pc'[d] # "pushing"
    PROVE  CommittedMedium' = medium'
BY DEF TypeOK, CommittedMedium

\* A call that ends without pushing is an Abandon, whether its append landed
\* or not.
LEMMA AbandonSimulates ==
    ASSUME Inv, Inv', NEW c \in Calls, pc[c] \in {"start", "locking", "appending"},
           NEW stage \in {"ok", "rejected", "cancelled"},
           pc' = [pc EXCEPT ![c] = stage],
           writer' = writer \ {c}, buffer' = buffer,
           \/ medium' = medium
           \/ pc[c] = "appending" /\ medium' = Landed(c)
    PROVE  Atomic!Abandon(c)
<1> USE DEF Inv
<1>1. c \in Open /\ Open' = Open \ {c}
  BY DEF Open, TypeOK
<1>2. CommittedMedium' \in {CommittedMedium, Atomic!Stored(c)}
  <2>1. CASE pc[c] = "appending"
    <3>1. writer = {c} BY <2>1 DEF TypeOK, LockHeld
    <3>2. CommittedMedium = medium BY <2>1, <3>1, QuietMedium
    <3>3. CommittedMedium' = medium' BY <3>1, QuietMediumPrime
    <3>4. UpstreamOf[c] \in Routes BY <2>1 DEF AppendingRouted, Routed
    <3> QED BY <3>2, <3>3, <3>4 DEF Atomic!Stored, Landed
  <2>2. CASE pc[c] # "appending"
    <3>1. c \notin writer BY <2>2 DEF LockHeld
    <3>2. \A d \in writer : pc'[d] = pc[d] BY <3>1 DEF TypeOK
    <3>3. writer' = writer /\ medium' = medium BY <2>2, <3>1
    <3>4. CommittedMedium' = CommittedMedium BY <3>2, <3>3 DEF CommittedMedium
    <3> QED BY <3>4
  <2> QED BY <2>1, <2>2
<1> QED BY <1>1, <1>2 DEF Atomic!Abandon, Open

\* A step that moves a call between the stages before its end, and changes
\* neither the ring nor the committed media, is invisible.
LEMMA HiddenSimulates ==
    ASSUME Open' = Open, buffer' = buffer, CommittedMedium' = CommittedMedium
    PROVE  UNCHANGED Atomic!vars
BY DEF Atomic!vars, Open

LEMMA AcquireSimulates ==
    ASSUME Inv, Inv', NEW c \in Calls, Acquire(c) PROVE UNCHANGED Atomic!vars
<1> USE DEF Inv
<1>1. Open' = Open BY DEF Acquire, Open, TypeOK
<1>2. CommittedMedium' = CommittedMedium
  <2>1. CommittedMedium = medium BY QuietMedium DEF Acquire
  <2>2. \A u \in Routes : ~\E d \in writer' : pc'[d] = "pushing" /\ UpstreamOf[d] = u
    BY DEF Acquire, TypeOK, Routed
  <2>3. CommittedMedium' = medium'
    BY <2>2 DEF CommittedMedium, TypeOK
  <2> QED BY <2>1, <2>3 DEF Acquire
<1> QED BY <1>1, <1>2, HiddenSimulates DEF Acquire

LEMMA AppendOkSimulates ==
    ASSUME Inv, Inv', NEW c \in Calls, AppendOk(c) PROVE UNCHANGED Atomic!vars
<1> USE DEF Inv
<1> DEFINE u == UpstreamOf[c]
<1>1. Open' = Open BY DEF AppendOk, Open, TypeOK
<1>2. writer = {c} /\ writer' = {c} BY DEF AppendOk, TypeOK, LockHeld
<1>3. u \in Routes /\ medium[u] \in Seq(Calls)
  BY DEF AppendOk, AppendingRouted, Routed, TypeOK
<1>4. CommittedMedium = medium BY <1>2, QuietMedium DEF AppendOk
<1>5. /\ pc'[c] = "pushing"
      /\ medium' \in [Routes -> Seq(Calls)]
      /\ \A v \in Routes \ {u} : medium'[v] = medium[v]
      /\ medium'[u] = Append(medium[u], c)
  BY <1>3 DEF AppendOk, Landed, TypeOK
<1>6. SubSeq(medium'[u], 1, Len(medium'[u]) - 1) = medium[u]
  <2> DEFINE back == SubSeq(Append(medium[u], c), 1, Len(medium[u]))
  <2>1. back \in Seq(Calls) /\ Len(back) = Len(medium[u]) BY <1>3
  <2>2. \A i \in 1..Len(back) : back[i] = medium[u][i] BY <1>3
  <2>3. back = medium[u] BY <1>3, <2>1, <2>2, SeqEqual
  <2>4. Len(medium'[u]) - 1 = Len(medium[u]) BY <1>3, <1>5
  <2> QED BY <1>5, <2>3, <2>4
<1>7. \A v \in Routes : CommittedMedium'[v] = medium[v]
  BY <1>2, <1>5, <1>6 DEF CommittedMedium
<1>8. CommittedMedium' = medium
  BY <1>7 DEF CommittedMedium, TypeOK
<1> QED BY <1>1, <1>4, <1>8, HiddenSimulates DEF AppendOk

\* The push is where the exchange appears.
LEMMA PushSimulates ==
    ASSUME Inv, Inv', NEW c \in Calls, Push(c) PROVE Atomic!Record(c)
<1> USE DEF Inv
<1> DEFINE u == UpstreamOf[c]
<1>1. c \in Open /\ Open' = Open \ {c} BY DEF Push, Open, TypeOK
<1>2. writer = {c} /\ writer' = {} BY DEF Push, TypeOK, LockHeld
<1>3. buffer' = Atomic!Newest(Append(buffer, c), MaxInMemory)
  BY RetainNewest DEF Push, TypeOK, RingBounded
<1>4. CommittedMedium' = medium
  BY <1>2, QuietMediumPrime DEF Push
<1>5. Atomic!Stored(c) = medium
  <2>1. CASE u \in Routes
    <3> DEFINE m == medium[u]
               old == SubSeq(m, 1, Len(m) - 1)
    <3>1. m \in Seq(Calls) /\ Len(m) > 0 /\ m[Len(m)] = c
      BY <2>1 DEF Push, PushingLast, Routed, TypeOK
    <3>2. old \in Seq(Calls) /\ Len(old) = Len(m) - 1
          /\ \A i \in 1..(Len(m) - 1) : old[i] = m[i]
      BY <3>1
    <3>3. Append(old, c) = m
      <4> HIDE DEF old
      <4>1. Append(old, c) \in Seq(Calls) /\ Len(Append(old, c)) = Len(m)
        BY <3>1, <3>2
      <4>2. \A i \in 1..Len(m) : Append(old, c)[i] = m[i] BY <3>1, <3>2
      <4> QED BY <3>1, <4>1, <4>2, SeqEqual
    <3>4. CommittedMedium = [medium EXCEPT ![u] = old]
      BY <1>2, <2>1 DEF CommittedMedium, TypeOK, Push
    <3>5. Atomic!Stored(c) = [CommittedMedium EXCEPT ![u] = Append(@, c)]
      BY <2>1 DEF Atomic!Stored
    <3>6. CommittedMedium[u] = old BY <2>1, <3>4 DEF TypeOK
    <3> HIDE DEF old
    <3> QED BY <2>1, <3>3, <3>4, <3>5, <3>6 DEF TypeOK
  <2>2. CASE u \notin Routes
    <3>1. CommittedMedium = medium
      BY <1>2, <2>2 DEF CommittedMedium, TypeOK
    <3> QED BY <2>2, <3>1 DEF Atomic!Stored
  <2> QED BY <2>1, <2>2
<1> QED BY <1>1, <1>3, <1>4, <1>5 DEF Atomic!Record, Open

\* Every step of the recorder is a step of the atomic recorder, or invisible.
LEMMA NextSimulates ==
    ASSUME Inv, Inv', [Next]_vars PROVE [Atomic!Next]_(Atomic!vars)
<1> USE DEF Inv
<1>1. CASE UNCHANGED vars
  BY <1>1 DEF vars, Atomic!vars, CommittedMedium
<1>2. ASSUME NEW c \in Calls, RecordStep(c) PROVE [Atomic!Next]_(Atomic!vars)
  <2>1. CASE Begin(c)
    <3>1. CASE RecordingOn
      <4>1. Open' = Open BY <2>1, <3>1 DEF Begin, Open, TypeOK
      <4>2. \A d \in writer : pc'[d] = pc[d]
        BY <2>1 DEF Begin, LockHeld, TypeOK
      <4>3. CommittedMedium' = CommittedMedium
        BY <2>1, <4>2 DEF Begin, CommittedMedium
      <4> QED BY <2>1, <4>1, <4>3, HiddenSimulates DEF Begin
    <3>2. CASE ~RecordingOn
      <4>1. writer' = writer \ {c} BY <2>1 DEF Begin, LockHeld
      <4>2. Atomic!Abandon(c) BY <2>1, <3>2, <4>1, AbandonSimulates DEF Begin
      <4> QED BY <4>2 DEF Atomic!Next
    <3> QED BY <3>1, <3>2
  <2>2. CASE Acquire(c) BY <2>2, AcquireSimulates
  <2>3. CASE AppendOk(c) BY <2>3, AppendOkSimulates
  <2>4. ASSUME NEW landed \in BOOLEAN, AppendErr(c, landed)
        PROVE  Atomic!Next
    <3>1. Atomic!Abandon(c) BY <2>4, AbandonSimulates DEF AppendErr
    <3> QED BY <3>1 DEF Atomic!Next
  <2>5. CASE Push(c)
    <3>1. Atomic!Record(c) BY <2>5, PushSimulates
    <3> QED BY <3>1 DEF Atomic!Next
  <2>6. CASE Notify(c)
    <3>1. Open' = Open BY <2>6 DEF Notify, Open, TypeOK
    <3>2. \A d \in writer : pc'[d] = pc[d] BY <2>6 DEF Notify, LockHeld, TypeOK
    <3>3. CommittedMedium' = CommittedMedium
      BY <2>6, <3>2 DEF Notify, CommittedMedium
    <3> QED BY <2>6, <3>1, <3>3, HiddenSimulates DEF Notify
  <2>7. ASSUME NEW landed \in BOOLEAN, Cancel(c, landed)
        PROVE  Atomic!Next
    <3>1. Atomic!Abandon(c) BY <2>7, AbandonSimulates DEF Cancel
    <3> QED BY <3>1 DEF Atomic!Next
  <2> QED BY <1>2, <2>1, <2>2, <2>3, <2>4, <2>5, <2>6, <2>7 DEF RecordStep
<1>3. CASE Clear
  <2>1. Atomic!Clear BY <1>3 DEF Clear, Atomic!Clear, CommittedMedium
  <2> QED BY <2>1 DEF Atomic!Next
<1>4. ASSUME NEW w \in Waiters, Enable(w) \/ Release(w)
      PROVE  UNCHANGED Atomic!vars
  BY <1>4 DEF Enable, Release, Atomic!vars, CommittedMedium
<1> QED BY <1>1, <1>2, <1>3, <1>4 DEF Next

\* record() is atomic for every number of calls, every routing of upstreams to
\* media and every cap: the lock makes append and push look like one step.
THEOREM RecorderRefines == Spec => RecordIsAtomic
<1>1. Init => Atomic!Init BY InitSimulates
<1>2. Inv /\ Inv' /\ [Next]_vars => [Atomic!Next]_(Atomic!vars) BY NextSimulates
<1> QED BY <1>1, <1>2, Invariance, PTL DEF Spec, RecordIsAtomic, Atomic!Spec
============================================================================
