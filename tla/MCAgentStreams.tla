--------------------------- MODULE MCAgentStreams ---------------------------
(* One session and one body.  Chunks of one byte, room for one chunk and two
   bytes: a session meets either bound first, depending on what its input
   goroutine holds.                                                          *)
EXTENDS AgentStreams

CONSTANTS session, body
=============================================================================
