-------------------------- MODULE MCClusterClaims ---------------------------
(* Statements the repository makes about the end of a cluster that the code   *)
(* does not keep.                                                             *)
EXTENDS MCCluster

\* cluster.rs:132: shutdown_with_timeout "Returns within `timeout + 1s`". The joins
\* have a limit each, not one together, and the flush has none: without any wedged task
\* a connection that uses up the drain and a command that outlasts it add up.
ReturnsInTime == joinTime + flushTime <= Budget + Slack

\* cluster.rs:3-5: "Dropping the handle without calling `shutdown` leaves listeners
\* running until the process exits." Every accept loop ends when the sender of its
\* watch is gone. (No accept error ends one here.)
DropLeavesListeners ==
    phase = "dropped" => \A u \in Upstreams : listener[u] = "accepting"
============================================================================
