-------------------------- MODULE MCTunnelLifecycle --------------------------
(* Two connections, which reach one replica and displace one another there, or
   two; and one rotation, which only one of the replicas serves.            *)
EXTENDS TunnelLifecycle

CONSTANTS t1, t2, r1, r2
=============================================================================
