----------------------------- MODULE TunnelLanes -----------------------------
(* The write side of a tunnel (backend/pkg/bastion/registry.go: send,
   enqueueOn, writeLoop, nextFrame, closeWith).  Every goroutine with something
   to send puts its frame in one of two bounded queues; one writer drains both,
   urgent frames first, except that a waiting bulk frame goes once urgentBurst
   urgent ones have gone in a row.  The agent's writer has the same shape.

   nextFrame is three selects, and frames may arrive between them.  A sender
   sends for ever, so frames are numbered modulo Numbers: with more numbers than
   a lane and the writer hold, two frames in flight never share one.         *)
EXTENDS Integers, Sequences

CONSTANTS
    Streams,      \* goroutines that send stream frames
    Callers,      \* goroutines that send requests
    UrgentQueue,  \* room in t.out
    BulkQueue,    \* room in t.bulk
    UrgentBurst,  \* urgentBurst
    Numbers       \* bound: frame numbers before they wrap

ASSUME SendersApart == Streams \cap Callers = {}
ASSUME LaneBounds == /\ UrgentQueue \in Nat \ {0}
                     /\ BulkQueue \in Nat \ {0}
                     /\ UrgentBurst \in Nat \ {0}
                     /\ Numbers \in Nat \ {0}

Senders == Streams \cup Callers

VARIABLES
    sender,     \* where each sender is in enqueueOn
    accepted,   \* how many of its frames were queued
    urgent,     \* t.out
    bulk,       \* t.bulk
    writer,     \* where writeLoop is: one of nextFrame's selects, or writing
    frame,      \* the frame the writer holds
    urgentRun,  \* t.urgentRun; only its reaching urgentBurst is ever tested
    written,    \* how many of each sender's frames are on the wire
    closed,     \* t.closed
    overtaken   \* history: urgent frames taken while the first bulk one waited

senderVars == <<sender, accepted>>
laneVars == <<urgent, bulk>>
writerVars == <<writer, frame, urgentRun, written, overtaken>>
lanesVars == <<senderVars, laneVars, writerVars, closed>>

Frames == [from : Senders, number : 0..Numbers-1]
NoFrame == [from |-> "nobody", number |-> 0]

LanesInit ==
    /\ sender = [s \in Senders |-> "ready"]
    /\ accepted = [s \in Senders |-> 0]
    /\ urgent = <<>>
    /\ bulk = <<>>
    /\ writer = "burst"
    /\ frame = NoFrame
    /\ urgentRun = 0
    /\ written = [s \in Senders |-> 0]
    /\ closed = FALSE
    /\ overtaken = 0

-----------------------------------------------------------------------------
(* Senders: send picks the lane by the frame's type, enqueueOn waits for room. *)

LaneOf(s) == IF s \in Callers THEN "bulk" ELSE "urgent"

HasRoom(s) == IF LaneOf(s) = "bulk" THEN Len(bulk) < BulkQueue
                                     ELSE Len(urgent) < UrgentQueue

\* Mutant: a frame goes to whichever lane has room.
PutWhereRoom(s) ==
    /\ LET f == [from |-> s, number |-> accepted[s]] IN
         \/ Len(bulk) < BulkQueue /\ bulk' = Append(bulk, f) /\ UNCHANGED urgent
         \/ Len(urgent) < UrgentQueue /\ urgent' = Append(urgent, f) /\ UNCHANGED bulk
    /\ accepted' = [accepted EXCEPT ![s] = (@ + 1) % Numbers]
    /\ sender' = [sender EXCEPT ![s] = "ready"]
    /\ UNCHANGED <<writerVars, closed>>

\* The frame is in the lane, and the sender goes on to its next one.
Put(s) ==
    /\ HasRoom(s)
    /\ LET f == [from |-> s, number |-> accepted[s]] IN
         \/ LaneOf(s) = "bulk" /\ bulk' = Append(bulk, f) /\ UNCHANGED urgent
         \/ LaneOf(s) = "urgent" /\ urgent' = Append(urgent, f) /\ UNCHANGED bulk
    /\ accepted' = [accepted EXCEPT ![s] = (@ + 1) % Numbers]
    /\ sender' = [sender EXCEPT ![s] = "ready"]
    /\ UNCHANGED <<writerVars, closed>>

\* enqueueOn's first select: room, or the tunnel is closed, or wait.
Offer(s) ==
    /\ sender[s] = "ready"
    /\ \/ Put(s)
       \/ /\ closed
          /\ sender' = [sender EXCEPT ![s] = "gone"]
          /\ UNCHANGED <<accepted, laneVars, writerVars, closed>>
       \/ /\ ~HasRoom(s) /\ ~closed
          /\ sender' = [sender EXCEPT ![s] = "blocked"]
          /\ UNCHANGED <<accepted, laneVars, writerVars, closed>>

\* Its second select: room, the tunnel closes, or queueWait passes and only
\* this frame is refused.
Unblock(s) ==
    /\ sender[s] = "blocked"
    /\ \/ Put(s)
       \/ /\ closed
          /\ sender' = [sender EXCEPT ![s] = "gone"]
          /\ UNCHANGED <<accepted, laneVars, writerVars, closed>>
       \/ /\ sender' = [sender EXCEPT ![s] = "ready"]
          /\ UNCHANGED <<accepted, laneVars, writerVars, closed>>

-----------------------------------------------------------------------------
(* The writer: nextFrame's three selects, then the write. *)

TakeUrgent ==
    /\ urgent # <<>>
    /\ frame' = Head(urgent)
    /\ urgent' = Tail(urgent)
    /\ urgentRun' = IF urgentRun < UrgentBurst THEN urgentRun + 1 ELSE urgentRun
    /\ overtaken' = IF bulk = <<>> THEN 0 ELSE overtaken + 1
    /\ writer' = "writing"
    /\ UNCHANGED bulk

TakeBulk ==
    /\ bulk # <<>>
    /\ frame' = Head(bulk)
    /\ bulk' = Tail(bulk)
    /\ urgentRun' = 0
    /\ overtaken' = 0
    /\ writer' = "writing"
    /\ UNCHANGED urgent

Proceed(to) ==
    /\ writer' = to
    /\ UNCHANGED <<laneVars, frame, urgentRun, overtaken>>

\* Mutant: the turn of a waiting bulk frame never comes.
SelectBurstNever == writer = "burst" /\ Proceed("urgent")

SelectBurst ==
    /\ writer = "burst"
    /\ \/ urgentRun >= UrgentBurst /\ TakeBulk
       \/ (urgentRun < UrgentBurst \/ bulk = <<>>) /\ Proceed("urgent")

SelectUrgent ==
    /\ writer = "urgent"
    /\ \/ TakeUrgent
       \/ urgent = <<>> /\ Proceed("any")

SelectAny ==
    /\ writer = "any"
    /\ \/ TakeUrgent
       \/ TakeBulk
       \/ closed /\ Proceed("stopped")

Select ==
    /\ SelectBurst \/ SelectUrgent \/ SelectAny
    /\ UNCHANGED <<senderVars, written, closed>>

Write ==
    /\ writer = "writing"
    /\ ~closed
    /\ written' = [written EXCEPT ![frame.from] = (@ + 1) % Numbers]
    /\ frame' = NoFrame
    /\ writer' = "burst"
    /\ UNCHANGED <<senderVars, laneVars, urgentRun, overtaken, closed>>

\* The write, or setting its deadline, fails: the writer closes the tunnel.
WriteFails ==
    /\ writer = "writing"
    /\ closed' = TRUE
    /\ frame' = NoFrame
    /\ writer' = "stopped"
    /\ UNCHANGED <<senderVars, laneVars, urgentRun, written, overtaken>>

\* closeWith from elsewhere: the read loop, keepalive, displacement, rotation.
Close ==
    /\ ~closed
    /\ closed' = TRUE
    /\ UNCHANGED <<senderVars, laneVars, writerVars>>

LanesNext ==
    \/ \E s \in Senders : Offer(s) \/ Unblock(s)
    \/ Select \/ Write \/ WriteFails \/ Close

LanesSpec == LanesInit /\ [][LanesNext]_lanesVars

\* The writer's goroutine runs, a write ends by its deadline, and the queueWait
\* timer of a blocked sender fires.  Nobody is obliged to offer a frame.
LanesFairness ==
    /\ WF_lanesVars(Select)
    /\ WF_lanesVars(Write \/ WriteFails)
    /\ \A s \in Senders : WF_lanesVars(Unblock(s))

FairLanesSpec == LanesSpec /\ LanesFairness

-----------------------------------------------------------------------------
\* Every variable has its type, and no lane more frames than it has room for.
LanesTypeOK ==
    /\ sender \in [Senders -> {"ready", "blocked", "gone"}]
    /\ accepted \in [Senders -> 0..Numbers-1]
    /\ urgent \in Seq(Frames) /\ Len(urgent) <= UrgentQueue
    /\ bulk \in Seq(Frames) /\ Len(bulk) <= BulkQueue
    /\ writer \in {"burst", "urgent", "any", "writing", "stopped"}
    /\ frame \in Frames \cup {NoFrame}
    /\ urgentRun \in 0..UrgentBurst
    /\ written \in [Senders -> 0..Numbers-1]
    /\ closed \in BOOLEAN
    /\ overtaken \in Nat

\* A busy port-forward cannot starve an API call: however urgent frames arrive
\* between the selects of nextFrame, no bulk frame is overtaken by more than
\* urgentBurst of them.
OvertakenBounded == overtaken <= UrgentBurst

\* What one goroutine sends, one frame after another, is written in that order
\* and without a gap: a stream's data never passes its open (send, nextFrame).
WrittenInOrder ==
    [][\A s \in Senders :
          written'[s] # written[s] => frame = [from |-> s, number |-> written[s]]
      ]_lanesVars

\* Neither lane waits for ever on the other, although both keep filling: a
\* request is written while the streams never pause, and a keystroke while the
\* callers never do, or the tunnel ends (nextFrame).
NeitherLaneStarved ==
    /\ bulk # <<>> ~> (closed \/ frame.from \in Callers)
    /\ urgent # <<>> ~> (closed \/ frame.from \in Streams)

\* A sender that found its lane full is not held: it queues its frame, or is
\* refused, also when the tunnel closes meanwhile (enqueueOn).
NoSenderHeld ==
    \A s \in Senders : sender[s] = "blocked" ~> sender[s] # "blocked"

\* The lanes' sizes and the burst hold together, for any senders.
LanesBounded == LanesTypeOK /\ OvertakenBounded

\* Every frame has its turn: in the order its sender queued it, in the end, and
\* with nobody left waiting to queue one.
FramesInTurn == WrittenInOrder /\ NeitherLaneStarved /\ NoSenderHeld
=============================================================================
