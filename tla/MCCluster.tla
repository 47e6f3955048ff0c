----------------------------- MODULE MCCluster ------------------------------
(* Bounded instance of Cluster for TLC: two upstreams with one connection     *)
(* each, of which one is wedged; one in-process caller and one TCP control    *)
(* connection that contend for a channel of capacity one.                     *)
EXTENDS Cluster

CONSTANTS u1, u2, k1, k2, here, tcp

MCOrder == <<u1, u2>>
MCSorted == <<u2, u1>>
MCOne == <<u1>>
MCUpstreamOf == [k \in Conns |-> IF k = k1 \/ Len(Order) = 1 THEN u1 ELSE u2]
============================================================================
