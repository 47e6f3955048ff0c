----------------------------- MODULE StubStore ------------------------------
(***************************************************************************)
(* The per-upstream stub list (partly-proxy-lib/src/stub.rs): canned       *)
(* responses tried in insertion order, each with an optional number of     *)
(* fires. A stub is [id, matches, times]: the response it gives is known   *)
(* by its id, its RequestMatcher by the set of requests it accepts, and    *)
(* times is the number of fires left, or Unlimited.                        *)
(* Every operation holds the store's write lock throughout and never       *)
(* awaits under it, so each is one atomic update of the list.              *)
(***************************************************************************)
EXTENDS Integers, Sequences

CONSTANT Unlimited   \* StubEntry::times = None

\* position() of the first stub whose matcher accepts the request; 0 if none.
FirstMatch(stubs, request) ==
    LET hits == {i \in 1..Len(stubs) : request \in stubs[i].matches}
    IN  IF hits = {} THEN 0 ELSE CHOOSE i \in hits : \A j \in hits : i <= j

\* Mutant of SaturatingDec: plain subtraction.
PlainDec(n) == n - 1

\* u32::saturating_sub(1)
SaturatingDec(n) == IF n = 0 THEN 0 ELSE n - 1

\* Mutant of FiresLeft: the counter is not decremented.
FiresKept(stub) == stub.times

\* What is left of a limited stub once it has fired.
FiresLeft(stub) == SaturatingDec(stub.times)

WithoutAt(stubs, i) == SubSeq(stubs, 1, i - 1) \o SubSeq(stubs, i + 1, Len(stubs))

\* The list after stub i fired: an exhausted stub is removed.
AfterFire(stubs, i) ==
    CASE stubs[i].times = Unlimited   -> stubs
      [] stubs[i].times # Unlimited /\ FiresLeft(stubs[i]) = 0
                                      -> WithoutAt(stubs, i)
      [] OTHER                        -> [stubs EXCEPT ![i].times = FiresLeft(stubs[i])]
============================================================================
