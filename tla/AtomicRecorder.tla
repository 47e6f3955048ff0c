--------------------------- MODULE AtomicRecorder ---------------------------
(***************************************************************************)
(* What a recorder promises its callers, without locks or awaits: every    *)
(* record() call takes effect in ONE step that both appends the exchange   *)
(* to the medium of its upstream and makes it the newest entry of the      *)
(* ring, or has no effect on the ring at all. Module Recorder implements   *)
(* this specification; module Proxy relies on it (its record stage is one  *)
(* atomic append).                                                         *)
(***************************************************************************)
EXTENDS Naturals, Sequences

CONSTANTS Calls, UpstreamOf, Routes, MaxInMemory

VARIABLES
    open,     \* calls that have not taken effect yet
    ring,     \* the newest MaxInMemory exchanges since the last clear
    stored    \* per routed upstream, the appended exchanges

vars == <<open, ring, stored>>

Init ==
    /\ open = Calls
    /\ ring = <<>>
    /\ stored = [u \in Routes |-> <<>>]

\* The last n entries of s.
Newest(s, n) == IF Len(s) > n THEN SubSeq(s, Len(s) - n + 1, Len(s)) ELSE s

Stored(c) ==
    IF UpstreamOf[c] \in Routes
    THEN [stored EXCEPT ![UpstreamOf[c]] = Append(@, c)]
    ELSE stored

\* The exchange becomes visible and, if its upstream has a medium, stored.
Record(c) ==
    /\ c \in open
    /\ open' = open \ {c}
    /\ ring' = Newest(Append(ring, c), MaxInMemory)
    /\ stored' = Stored(c)

\* The call ends without becoming visible; its append may have landed.
Abandon(c) ==
    /\ c \in open
    /\ open' = open \ {c}
    /\ stored' \in {stored, Stored(c)}
    /\ UNCHANGED ring

Clear ==
    /\ ring' = <<>>
    /\ UNCHANGED <<open, stored>>

Next ==
    \/ \E c \in Calls : Record(c) \/ Abandon(c)
    \/ Clear

Spec == Init /\ [][Next]_vars
============================================================================
