----------------------------- MODULE MCWaitFor ------------------------------
(* Bounded instance of WaitFor, and of the Recorder it extends, for TLC:      *)
(* three racing record() calls, two of them to an upstream with a storage     *)
(* medium, on a ring of two, where the third evicts; an AssertSeen for the    *)
(* first call, an AssertCount for two and one for one of the first two calls, *)
(* this one with a zero timeout, dispatched in any order.                     *)
EXTENDS WaitFor, TLC

CONSTANTS m1, m2, other, seen, count, now, stored

MCUpstreamOf == [c \in Calls |-> IF c = other THEN NoName ELSE stored]
MCMatching == [w \in Waiters |-> IF w = seen THEN {m1} ELSE {m1, m2}]
MCExpected == [w \in Waiters |-> CASE w = seen  -> Seen
                                   [] w = count -> 2
                                   [] w = now   -> 1]
MCTimeout == [w \in Waiters |-> IF w = now THEN 0 ELSE 1]
============================================================================
