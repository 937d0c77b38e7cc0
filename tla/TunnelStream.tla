---------------------------- MODULE TunnelStream ----------------------------
(* One stream over a tunnel, on the server (backend/pkg/bastion/stream.go, and
   serve in registry.go): a watch, a followed log or an exec session.

   Three goroutines share it.  The caller opens it with OpenStream and then
   reads its chunks.  The tunnel's read loop, which every stream of the cluster
   shares, delivers what the agent sends.  Whoever closes the tunnel closes its
   streams.  All three end in Stream.Close, which runs once and ends by queueing
   a close frame on the tunnel's urgent lane.

   The callers differ in how they read.  "relay" is the client's stream proxy:
   it reads until Chunks is closed.  "exec" is pumpExec, which also returns as
   soon as Done is closed.  "events" is the events watch (pkg/api), which does
   that too and never calls Consumed.                                        *)
EXTENDS Integers, SeqSums

CONSTANTS
    Kinds,         \* kinds of callers: a subset of {"relay", "exec", "events"}
    BufferChunks,  \* streamBuffer
    BufferBytes,   \* streamBufferBytes
    ChunkSizes,    \* bytes of one chunk
    MaxChunks      \* bound: chunks the agent sends

ASSUME KindsKnown == Kinds \subseteq {"relay", "exec", "events"}
ASSUME BuffersNat == BufferChunks \in Nat \ {0} /\ BufferBytes \in Nat \ {0}
ASSUME ChunksNat == ChunkSizes \subseteq Nat /\ MaxChunks \in Nat

VARIABLES
    kind,        \* which caller this is
    caller,      \* where it is
    inHand,      \* bytes of the chunk it has read and not yet released
    received,    \* how many chunks it has read
    loop,        \* where the read loop is
    holding,     \* the chunk deliver was called with
    registered,  \* the stream is in t.streams
    head,        \* what stream.start holds
    data,        \* stream.data
    queued,      \* stream.queued
    done,        \* stream.closed is closed
    dataClosed,  \* stream.data is closed
    cause,       \* stream.err
    once,        \* stream.closeOnce: "free", who runs it, or "spent"
    closing,     \* where each of the three is in Stream.Close
    why,         \* the cause each of them closes it with
    tunnelClosed,\* t.closed
    laneFull,    \* t.out has no room: other streams fill it, the writer drains it
    inbox,       \* frames of this stream on the socket
    agent,       \* what the agent has sent so far
    produced     \* how many chunks it has sent

callerVars == <<kind, caller, inHand, received>>
loopVars == <<loop, holding>>
streamVars == <<registered, head, data, queued, done, dataClosed, cause, once>>
closeVars == <<closing, why>>
agentVars == <<inbox, agent, produced>>
streamAllVars ==
    <<callerVars, loopVars, streamVars, closeVars, agentVars, tunnelClosed, laneFull>>

Actors == {"caller", "loop", "closer"}
Chunk == [number : 1..MaxChunks, size : ChunkSizes]
NoChunk == [number |-> 0, size |-> 0]

BytesOf(chunks) == Total([i \in 1..Len(chunks) |-> chunks[i].size])

StreamInit ==
    /\ kind \in Kinds
    /\ caller = "opening" /\ inHand = 0 /\ received = 0
    /\ loop = "reading" /\ holding = NoChunk
    /\ registered = FALSE /\ head = "none"
    /\ data = <<>> /\ queued = 0
    /\ done = FALSE /\ dataClosed = FALSE /\ cause = "none" /\ once = "free"
    /\ closing = [a \in Actors |-> "no"] /\ why = [a \in Actors |-> "none"]
    /\ tunnelClosed = FALSE /\ laneFull = FALSE
    /\ inbox = <<>> /\ agent = "silent" /\ produced = 0

-----------------------------------------------------------------------------
(* Stream.Close, run by any of the three. *)

StartClose(a, reason) ==
    /\ closing' = [closing EXCEPT ![a] = "entering"]
    /\ why' = [why EXCEPT ![a] = reason]

CloseStep(a, from, to) ==
    /\ closing[a] = from
    /\ closing' = [closing EXCEPT ![a] = to]

\* closeOnce: the first one in runs it, the others wait until it has.
CloseEnter(a) ==
    /\ \/ once = "free" /\ CloseStep(a, "entering", "marking") /\ once' = a
       \/ once = "spent" /\ CloseStep(a, "entering", "no") /\ UNCHANGED once
    /\ UNCHANGED <<callerVars, loopVars, registered, head, data, queued, done, dataClosed,
                   cause, why, agentVars, tunnelClosed, laneFull>>

\* The cause is kept, and close(s.closed).
CloseMark(a) ==
    /\ CloseStep(a, "marking", "shutting")
    /\ done' = TRUE
    /\ cause' = why[a]
    /\ UNCHANGED <<callerVars, loopVars, registered, head, data, queued, dataClosed, once,
                   why, agentVars, tunnelClosed, laneFull>>

\* close(s.data), and dropStream.
CloseShut(a) ==
    /\ CloseStep(a, "shutting", "telling")
    /\ dataClosed' = TRUE
    /\ registered' = FALSE
    /\ UNCHANGED <<callerVars, loopVars, head, data, queued, done, cause, once,
                   why, agentVars, tunnelClosed, laneFull>>

\* Mutant: the close frame waits for room without a timer.
CloseTellWaits(a) ==
    /\ ~laneFull
    /\ CloseStep(a, "telling", "no")
    /\ once' = "spent"
    /\ UNCHANGED <<callerVars, loopVars, registered, head, data, queued, done, dataClosed,
                   cause, why, agentVars, tunnelClosed, laneFull>>

\* The close frame is queued, or refused: the tunnel is closed, or queueWait
\* passed.  Until then whoever runs Close waits here.
CloseTell(a) ==
    /\ CloseStep(a, "telling", "no")
    /\ once' = "spent"
    /\ UNCHANGED <<callerVars, loopVars, registered, head, data, queued, done, dataClosed,
                   cause, why, agentVars, tunnelClosed, laneFull>>

Close(a) == CloseEnter(a) \/ CloseMark(a) \/ CloseShut(a) \/ CloseTell(a)

-----------------------------------------------------------------------------
(* The caller: OpenStream, then one of the three ways to read. *)

Step(from, to) == caller = from /\ closing["caller"] = "no" /\ caller' = to

\* The test of t.closed, and the registration, are two steps.
OpenCheck ==
    /\ Step("opening", IF tunnelClosed THEN "gone" ELSE "registering")
    /\ UNCHANGED <<kind, inHand, received, loopVars, streamVars, closeVars, agentVars, tunnelClosed, laneFull>>

OpenRegister ==
    /\ Step("registering", "queueing")
    /\ registered' = TRUE
    /\ UNCHANGED <<kind, inHand, received, loopVars, head, data, queued, done, dataClosed, cause,
                   once, closeVars, agentVars, tunnelClosed, laneFull>>

OpenSend ==
    /\ ~laneFull
    /\ Step("queueing", "awaiting")
    /\ UNCHANGED <<kind, inHand, received, loopVars, streamVars, closeVars, agentVars, tunnelClosed, laneFull>>

\* The open frame was refused, or the tunnel closed while the head was awaited:
\* dropStream, without closing the stream.
OpenFails ==
    /\ \/ (tunnelClosed \/ laneFull) /\ Step("queueing", "gone")
       \/ tunnelClosed /\ Step("awaiting", "gone")
    /\ registered' = FALSE
    /\ UNCHANGED <<kind, inHand, received, loopVars, head, data, queued, done, dataClosed, cause,
                   once, closeVars, agentVars, tunnelClosed, laneFull>>

\* The head arrived, or the stream was closed under the handshake.
OpenAnswered ==
    /\ \/ head = "ok" /\ Step("awaiting", "using") /\ UNCHANGED closeVars
       \/ head = "refused" /\ Step("awaiting", "gone") /\ StartClose("caller", "none")
       \/ done /\ Step("awaiting", "gone") /\ UNCHANGED closeVars
    /\ UNCHANGED <<kind, inHand, received, loopVars, streamVars, agentVars, tunnelClosed, laneFull>>

\* streamOpenTimeout, or the caller's context.
OpenTimeout ==
    /\ Step("awaiting", "gone")
    /\ StartClose("caller", "handshake")
    /\ UNCHANGED <<kind, inHand, received, loopVars, streamVars, agentVars, tunnelClosed, laneFull>>

ReadChunk ==
    /\ data # <<>>
    /\ Step("using", "handling")
    /\ received' = received + 1
    /\ inHand' = Head(data).size
    /\ data' = Tail(data)
    /\ UNCHANGED <<kind, loopVars, registered, head, queued, done, dataClosed, cause, once,
                   closeVars, agentVars, tunnelClosed, laneFull>>

\* Mutant: nothing is ever released.
ConsumedNever == 0

\* Consumed, by the callers that call it.
Consumed == IF kind = "events" THEN 0 ELSE inHand

Handle ==
    /\ Step("handling", "using")
    /\ queued' = queued - Consumed
    /\ inHand' = 0
    /\ UNCHANGED <<kind, received, loopVars, registered, head, data, done, dataClosed, cause,
                   once, closeVars, agentVars, tunnelClosed, laneFull>>

\* The caller sees the end: Chunks drained and closed, or, where it selects on
\* Done as well, Done.
SeesEnd == \/ dataClosed /\ data = <<>>
           \/ done /\ kind \in {"exec", "events"}

\* It returns, and its deferred Close finds the stream closed.
ReadEnd ==
    /\ SeesEnd
    /\ Step("using", "ended")
    /\ StartClose("caller", "none")
    /\ UNCHANGED <<kind, inHand, received, loopVars, streamVars, agentVars, tunnelClosed, laneFull>>

\* The client hangs up, a write to it fails, or the session is idle too long.
Leave ==
    /\ \/ Step("using", "gone")
       \/ Step("handling", "gone")
    /\ StartClose("caller", "none")
    /\ UNCHANGED <<kind, inHand, received, loopVars, streamVars, agentVars, tunnelClosed, laneFull>>

-----------------------------------------------------------------------------
(* The read loop: serve, and deliver. *)

LoopStep(from, to) == loop = from /\ closing["loop"] = "no" /\ loop' = to

\* A frame for a stream that is not registered is skipped.
ReadFrame ==
    /\ inbox # <<>>
    /\ inbox' = Tail(inbox)
    /\ LET f == Head(inbox) IN
         \/ /\ ~registered
            /\ LoopStep("reading", "reading")
            /\ UNCHANGED <<holding, head, closeVars>>
         \/ /\ registered /\ f.type = "start"
            /\ LoopStep("reading", "reading")
            /\ head' = f.head
            /\ UNCHANGED <<holding, closeVars>>
         \/ /\ registered /\ f.type = "data"
            /\ LoopStep("reading", "checking")
            /\ holding' = f.chunk
            /\ UNCHANGED <<head, closeVars>>
         \/ /\ registered /\ f.type = "close"
            /\ LoopStep("reading", "reading")
            /\ StartClose("loop", f.head)
            /\ UNCHANGED <<holding, head>>
    /\ UNCHANGED <<callerVars, registered, data, queued, done, dataClosed, cause, once,
                   agent, produced, tunnelClosed, laneFull>>

DeliverCheck ==
    /\ LoopStep("checking", IF done THEN "reading" ELSE "counting")
    /\ UNCHANGED <<callerVars, holding, streamVars, closeVars, agentVars, tunnelClosed, laneFull>>

\* The byte bound: past it the stream loses itself.
DeliverCount ==
    /\ \/ /\ queued + holding.size > BufferBytes
          /\ LoopStep("counting", "reading")
          /\ StartClose("loop", "backlog")
          /\ UNCHANGED queued
       \/ /\ queued + holding.size <= BufferBytes
          /\ LoopStep("counting", "pushing")
          /\ queued' = queued + holding.size
          /\ UNCHANGED closeVars
    /\ UNCHANGED <<callerVars, holding, registered, head, data, done, dataClosed, cause, once,
                   agentVars, tunnelClosed, laneFull>>

\* Mutant: a chunk with no room is dropped, and the stream goes on.
DeliverPushDrops ==
    /\ \/ /\ ~dataClosed /\ Len(data) < BufferChunks
          /\ data' = Append(data, holding)
          /\ UNCHANGED queued
       \/ /\ ~dataClosed /\ Len(data) = BufferChunks
          /\ queued' = queued - holding.size
          /\ UNCHANGED data
    /\ LoopStep("pushing", "reading")
    /\ UNCHANGED <<callerVars, holding, registered, head, done, dataClosed, cause, once,
                   closeVars, agentVars, tunnelClosed, laneFull>>

\* The chunk is buffered, or the stream loses itself to the chunk bound.  A send
\* on a channel that was closed since the check panics: serve's deferred close
\* of the tunnel still runs.
DeliverPush ==
    /\ \/ /\ ~dataClosed /\ Len(data) < BufferChunks
          /\ LoopStep("pushing", "reading")
          /\ data' = Append(data, holding)
          /\ UNCHANGED <<queued, closeVars, tunnelClosed>>
       \/ /\ ~dataClosed /\ Len(data) = BufferChunks
          /\ LoopStep("pushing", "reading")
          /\ queued' = queued - holding.size
          /\ StartClose("loop", "backlog")
          /\ UNCHANGED <<data, tunnelClosed>>
       \/ /\ dataClosed
          /\ LoopStep("pushing", "panicked")
          /\ tunnelClosed' = TRUE
          /\ UNCHANGED <<data, queued, closeVars>>
    /\ UNCHANGED <<callerVars, holding, registered, head, done, dataClosed, cause, once,
                   agentVars, laneFull>>

\* The socket fails, after the frames it had buffered.
LoopStops ==
    /\ tunnelClosed
    /\ LoopStep("reading", "stopped")
    /\ UNCHANGED <<callerVars, holding, streamVars, closeVars, agentVars, tunnelClosed, laneFull>>

-----------------------------------------------------------------------------
(* The tunnel, and the agent, whose frames stop with the socket. *)

CloseTunnel ==
    /\ ~tunnelClosed
    /\ tunnelClosed' = TRUE
    /\ UNCHANGED <<callerVars, loopVars, streamVars, closeVars, agentVars, laneFull>>

\* closeStreams, once, by whoever closed the tunnel: it closes the streams it
\* finds registered then, and none that registers later.
CloseStreams ==
    /\ tunnelClosed
    /\ closing["closer"] = "no" /\ why["closer"] = "none"
    /\ \/ registered /\ StartClose("closer", "tunnel")
       \/ ~registered /\ why' = [why EXCEPT !["closer"] = "tunnel"] /\ UNCHANGED closing
    /\ UNCHANGED <<callerVars, loopVars, streamVars, agentVars, tunnelClosed, laneFull>>

LaneMoves ==
    /\ laneFull' = ~laneFull
    /\ UNCHANGED <<callerVars, loopVars, streamVars, closeVars, agentVars, tunnelClosed>>

AgentFrame(type, h, c) == inbox' = Append(inbox, [type |-> type, head |-> h, chunk |-> c])

AgentStart ==
    /\ ~tunnelClosed
    /\ caller \notin {"opening", "registering", "queueing"} /\ agent = "silent"
    /\ \/ AgentFrame("start", "ok", NoChunk) /\ agent' = "streaming"
       \/ AgentFrame("start", "refused", NoChunk) /\ agent' = "ended"
    /\ UNCHANGED <<callerVars, loopVars, streamVars, closeVars, produced, tunnelClosed, laneFull>>

AgentData ==
    /\ ~tunnelClosed
    /\ agent = "streaming" /\ produced < MaxChunks
    /\ produced' = produced + 1
    /\ \E n \in ChunkSizes : AgentFrame("data", "none", [number |-> produced', size |-> n])
    /\ UNCHANGED <<callerVars, loopVars, streamVars, closeVars, agent, tunnelClosed, laneFull>>

\* out.close: the body or the session ended, cleanly or not.
AgentClose ==
    /\ ~tunnelClosed
    /\ agent = "streaming"
    /\ \E h \in {"none", "agent"} : AgentFrame("close", h, NoChunk)
    /\ agent' = "ended"
    /\ UNCHANGED <<callerVars, loopVars, streamVars, closeVars, produced, tunnelClosed, laneFull>>

Opening == \/ OpenCheck \/ OpenRegister \/ OpenSend \/ OpenFails
           \/ OpenAnswered \/ OpenTimeout
Reading == ReadChunk \/ Handle \/ ReadEnd \/ Leave
Delivering == ReadFrame \/ DeliverCheck \/ DeliverCount \/ DeliverPush \/ LoopStops

StreamNext ==
    \/ Opening \/ Reading \/ Delivering
    \/ \E a \in Actors : Close(a)
    \/ CloseTunnel \/ CloseStreams \/ LaneMoves
    \/ AgentStart \/ AgentData \/ AgentClose

StreamSpec == StreamInit /\ [][StreamNext]_streamAllVars

\* Goroutines run and their timers fire.  A client may never hang up, and neither
\* the agent nor the writer that drains the lane owes anything.
FairStreamSpec ==
    /\ StreamSpec
    /\ WF_streamAllVars(Opening)
    /\ WF_streamAllVars(ReadChunk \/ Handle \/ ReadEnd)
    /\ WF_streamAllVars(Delivering)
    /\ WF_streamAllVars(CloseStreams)
    /\ \A a \in Actors : WF_streamAllVars(Close(a))

-----------------------------------------------------------------------------
\* Every variable has its type and the buffer keeps its bounds.
StreamTypeOK ==
    /\ kind \in Kinds
    /\ caller \in {"opening", "registering", "queueing", "awaiting", "using", "handling",
                   "ended", "gone"}
    /\ loop \in {"reading", "checking", "counting", "pushing", "panicked", "stopped"}
    /\ holding \in Chunk \cup {NoChunk}
    /\ head \in {"none", "ok", "refused"}
    /\ data \in Seq(Chunk) /\ Len(data) <= BufferChunks
    /\ queued \in 0..BufferBytes
    /\ cause \in {"none", "agent", "backlog", "handshake", "tunnel"}
    /\ once \in Actors \cup {"free", "spent"}
    /\ closing \in [Actors -> {"no", "entering", "marking", "shutting", "telling"}]
    /\ dataClosed => done

\* queued is what is buffered, what the caller holds and what deliver is about to
\* buffer: neither a refused chunk nor a racing Consumed leaks budget.
QueuedExact ==
    kind # "events" /\ loop # "panicked" /\ caller \in {"using", "handling"} =>
        queued = BytesOf(data) + inHand + (IF loop = "pushing" THEN holding.size ELSE 0)

\* What the caller reads is what the agent sent, in order and without a gap: a
\* chunk that found no room ends the stream, it is never skipped (deliver).
ChunksInOrder ==
    [][received' # received => Head(data).number = received + 1]_streamAllVars

EndIsWhole == caller = "ended" /\ cause = "none" /\ agent = "ended" => received = produced

\* A caller that read a stream the agent ended cleanly to the end of its Chunks
\* has all of it: what was buffered when the close frame came is not lost, though
\* the stream was closed under it (streamproxy.go, Close).
CleanEndIsWhole == kind = "relay" => EndIsWhole

\* The same of a session, whose verdict is its last chunk: it "arrives last.
\* Reading it is what lets this return "the command failed"" (pumpExec).
VerdictIsRead == kind = "exec" => EndIsWhole

\* A stream that is open when its tunnel closes is closed with it, whatever its
\* caller is doing (closeStreams, OpenStream).
StreamEndsWithTunnel ==
    tunnelClosed /\ caller \in {"using", "handling"} ~> done

\* Whoever closes the stream comes out of Close again, although it may wait there
\* for another's Close and for room in the lane.
CloseReturns == \A a \in Actors : closing[a] # "no" ~> closing[a] = "no"

Unread == BytesOf(data) + inHand

\* The loop gives the stream up only on a full buffer its caller has left unread.
LeftUnread ==
    closing["loop"] = "no" /\ closing'["loop"] = "entering" /\ why'["loop"] = "backlog"
        => Unread + holding.size > BufferBytes \/ Len(data) = BufferChunks

\* "ErrStreamBacklog is returned when a consumer falls too far behind", by the
\* callers that release what they read (deliver, Consumed).
BacklogMeansBehind == [][kind # "events" => LeftUnread]_streamAllVars

\* The same of the events watch, which reads every chunk that comes and releases
\* none of them (streamEvents).
WatchEndsOnlyBehind == [][kind = "events" => LeftUnread]_streamAllVars

\* "A stream that outruns both of them loses itself rather than the socket
\* everything else shares": delivering to a stream never ends the read loop.
LoopSurvivesStreams == loop # "panicked"

\* The stream's types and its byte budget.
BudgetExact == StreamTypeOK /\ QueuedExact

\* No chunk is lost on the way, and only a full buffer costs the rest.
NothingLost == []CleanEndIsWhole /\ ChunksInOrder /\ BacklogMeansBehind

\* Streams end with their tunnel, and whoever ends one is not stuck over it.
StreamsEnd == StreamEndsWithTunnel /\ CloseReturns
=============================================================================
