--------------------------- MODULE TunnelHandshake ---------------------------
(* The start of one connection, both ends of it: serveTunnel and the proxy's
   callers on the server (backend/pkg/bastion), connectOnce and readWelcome on
   the agent (agent/internal/tunnel/tunnel.go).

   The server registers the tunnel first, then records the cluster as healthy,
   then queues the welcome.  The writer has run since the tunnel was made, and
   from the registration on anyone may find the tunnel and use it.  Closing
   loses what is on the wire; it is never opened again.                      *)
EXTENDS Integers, Sequences

CONSTANT MaxFrames  \* bound: frames callers put on the young tunnel

ASSUME FramesNat == MaxFrames \in Nat

VARIABLES
    server,      \* where serveTunnel is
    registered,  \* the registry has the tunnel
    recorded,    \* recordState(healthy) has returned
    early,       \* history: a caller's frame was queued before the welcome
    raced,       \* history: the welcome was queued behind the writer's look at t.out
    sent,        \* frames queued by callers so far
    urgent,      \* t.out
    bulk,        \* t.bulk
    writer,      \* which of nextFrame's selects is next: "urgent", "any"
    wire,        \* the socket towards the agent
    agent,       \* where connectOnce is
    open         \* the socket

serverVars == <<server, registered, recorded>>
laneVars == <<early, raced, sent, urgent, bulk, writer>>
handshakeVars == <<serverVars, laneVars, wire, agent, open>>

FrameTypes == {"welcome", "request", "stream_open"}

HandshakeInit ==
    /\ server = "adding"
    /\ registered = FALSE
    /\ recorded = FALSE
    /\ early = FALSE /\ raced = FALSE
    /\ sent = 0
    /\ urgent = <<>>
    /\ bulk = <<>>
    /\ writer = "urgent"
    /\ wire = <<>>
    /\ agent = "waiting"
    /\ open = TRUE

-----------------------------------------------------------------------------
(* The server. *)

Add ==
    /\ server = "adding"
    /\ server' = "recording"
    /\ registered' = TRUE
    /\ UNCHANGED <<recorded, laneVars, wire, agent, open>>

\* The database answers within stateTimeout; a failure is only logged.
RecordHealthy ==
    /\ server = "recording"
    /\ server' = "welcoming"
    /\ recorded' = TRUE
    /\ UNCHANGED <<registered, laneVars, wire, agent, open>>

\* Mutant: the welcome is bulk, like a request.
SendWelcomeAsBulk ==
    /\ server = "welcoming"
    /\ server' = "serving"
    /\ bulk' = Append(bulk, "welcome")
    /\ raced' = (writer = "any")
    /\ UNCHANGED <<registered, recorded, early, sent, urgent, writer, wire, agent, open>>

SendWelcome ==
    /\ server = "welcoming"
    /\ server' = "serving"
    /\ urgent' = Append(urgent, "welcome")
    /\ raced' = (writer = "any")
    /\ UNCHANGED <<registered, recorded, early, sent, bulk, writer, wire, agent, open>>

\* The reader, or the failed send of the welcome, finds the socket closed.
EndServe ==
    /\ server \in {"welcoming", "serving"}
    /\ ~open
    /\ server' = "dropping"
    /\ UNCHANGED <<registered, recorded, laneVars, wire, agent, open>>

Drop ==
    /\ server = "dropping"
    /\ server' = "gone"
    /\ registered' = FALSE
    /\ UNCHANGED <<recorded, laneVars, wire, agent, open>>

\* Tunnel.Do or OpenStream, on a tunnel found in the registry.
Use(type) ==
    /\ registered /\ open
    /\ sent < MaxFrames
    /\ sent' = sent + 1
    /\ early' = (early \/ server \in {"recording", "welcoming"})
    /\ \/ type = "request" /\ bulk' = Append(bulk, type) /\ UNCHANGED urgent
       \/ type = "stream_open" /\ urgent' = Append(urgent, type) /\ UNCHANGED bulk
    /\ UNCHANGED <<serverVars, raced, writer, wire, agent, open>>

\* The writer takes the first frame of a lane and writes it.
WriteUrgent ==
    /\ urgent # <<>>
    /\ wire' = Append(wire, Head(urgent))
    /\ urgent' = Tail(urgent)
    /\ writer' = "urgent"
    /\ UNCHANGED bulk

WriteBulk ==
    /\ bulk # <<>>
    /\ wire' = Append(wire, Head(bulk))
    /\ bulk' = Tail(bulk)
    /\ writer' = "urgent"
    /\ UNCHANGED urgent

\* writeLoop, by nextFrame's last two selects: an urgent frame if there is one, else
\* whatever comes first, and of two that have come either.  The burst that its first
\* select ends is left to TunnelLanes: ahead of the welcome only early frames make one.
Write ==
    /\ open
    /\ \/ writer = "urgent" /\ WriteUrgent
       \/ /\ writer = "urgent" /\ urgent = <<>>
          /\ writer' = "any"
          /\ UNCHANGED <<urgent, bulk, wire>>
       \/ writer = "any" /\ (WriteUrgent \/ WriteBulk)
    /\ UNCHANGED <<serverVars, early, raced, sent, agent, open>>

-----------------------------------------------------------------------------
(* The agent, and the socket. *)

\* readWelcome, then the reads of pump: only the first frame must be a welcome,
\* pump skips a type it does not know.
Read ==
    /\ open
    /\ wire # <<>>
    /\ wire' = Tail(wire)
    /\ \/ /\ agent = "waiting" /\ Head(wire) = "welcome"
          /\ agent' = "connected"
          /\ UNCHANGED open
       \/ /\ agent = "waiting" /\ Head(wire) # "welcome"
          /\ agent' = "refused"
          /\ open' = FALSE
       \/ /\ agent = "connected"
          /\ UNCHANGED <<agent, open>>
    /\ UNCHANGED <<serverVars, laneVars>>

\* handshakeTimeout passes, or the network fails.
Break ==
    /\ open
    /\ open' = FALSE
    /\ agent' = IF agent = "waiting" THEN "failed" ELSE agent
    /\ UNCHANGED <<serverVars, laneVars, wire>>

Serve == Add \/ RecordHealthy \/ SendWelcome \/ EndServe \/ Drop

HandshakeNext ==
    \/ Serve \/ Write \/ Read \/ Break
    \/ \E type \in {"request", "stream_open"} : Use(type)

HandshakeSpec == HandshakeInit /\ [][HandshakeNext]_handshakeVars

\* Goroutines run and a healthy socket carries frames.  Break is not obliged.
FairHandshakeSpec ==
    /\ HandshakeSpec
    /\ WF_handshakeVars(Serve)
    /\ WF_handshakeVars(Write)
    /\ WF_handshakeVars(Read)

-----------------------------------------------------------------------------
\* Every variable has its type, and an agent is told it is welcome only after the
\* cluster's health was recorded.
HandshakeTypeOK ==
    /\ server \in {"adding", "recording", "welcoming", "serving", "dropping", "gone"}
    /\ registered \in BOOLEAN /\ recorded \in BOOLEAN
    /\ early \in BOOLEAN /\ raced \in BOOLEAN /\ writer \in {"urgent", "any"}
    /\ sent \in 0..MaxFrames
    /\ urgent \in Seq(FrameTypes) /\ bulk \in Seq(FrameTypes) /\ wire \in Seq(FrameTypes)
    /\ agent \in {"waiting", "connected", "refused", "failed"}
    /\ open \in BOOLEAN
    /\ agent = "connected" => recorded

\* An agent turns the server away only if somebody used its tunnel before the welcome
\* was queued, or just after while the writer was between its two looks at the lanes;
\* and then one frame has gone ahead, with the welcome right behind it (nextFrame).
RefusedOnlyIfOvertaken ==
    agent = "refused" /\ ~early =>
        /\ raced
        /\ IF wire = <<>> THEN urgent # <<>> /\ Head(urgent) = "welcome"
                         ELSE Head(wire) = "welcome"

\* The strong form, which the code does not keep: nothing queued behind the welcome
\* overtakes it ("an urgent frame whenever there is one", registry.go:275).
RefusedOnlyIfEarly == agent = "refused" => early

\* The agent is let in, or the tunnel ends and is deregistered: no connection
\* stays half open (serveTunnel, readWelcome).
HandshakeEnds == <>(agent = "connected" \/ server = "gone")

\* A connection comes to one of two ends, and to the right one.
HandshakeSettles == [](HandshakeTypeOK /\ RefusedOnlyIfOvertaken) /\ HandshakeEnds
=============================================================================
