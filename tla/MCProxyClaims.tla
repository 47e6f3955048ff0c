--------------------------- MODULE MCProxyClaims ----------------------------
(* Statements the repository makes about the request lifecycle that the code  *)
(* does not keep.                                                             *)
EXTENDS MCProxy

\* replay.rs:57-59: the first exchange written for a key wins, "that way replay
\* is deterministic across reloads". The live index takes the first promotion,
\* a reload the first append, and the two may be of different requests, even
\* if no append ever fails.
ReloadDeterministic ==
    [][restarts' # restarts /\ config.storage /\ config'.storage /\ rejected = {} =>
        \A k \in Keys :
            Hit(replay, k) /\ Hit(replay', k) =>
                Lookup(replay', k) = Lookup(replay, k)]_vars
============================================================================
