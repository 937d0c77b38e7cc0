--------------------------- MODULE MCTunnelCalls ---------------------------
(* Two calls, one agent slot and queues of one and two frames: the second call
   waits for the first one's slot, for room towards the agent and for room
   back.  A part is two units; bodies run from empty to one unit past the
   agent's cap of four, so a body may end on a slice boundary, between two, and
   past the cap.                                                             *)
EXTENDS TunnelCalls, TLC

CONSTANTS c1, c2

MCCalls == {c1, c2}
MCSymmetry == Permutations(MCCalls)
=============================================================================
