---------------------------- MODULE TunnelCalls ----------------------------
(* Proxied calls over one tunnel, end to end: the callers in Tunnel.Do
   (backend/pkg/bastion/registry.go), the bulk queue towards the agent, the
   agent's handlers (agent/internal/tunnel/tunnel.go), the bulk queue back, and
   the server's read loop, which files every frame in the correlation table of
   TunnelAssembly.

   A queue stands for a lane, the writer that drains it and the socket behind
   it: the frames of one lane stay in order and are lost only with the tunnel
   or by a sender that gives up waiting for room.  Body lengths are counted in
   units of which a full part carries Slice.                                 *)
EXTENDS TunnelAssembly, Sequences

CONSTANTS
    Slice,          \* ResponsePartSize
    AgentCap,       \* kube.MaxResponseBody
    Sizes,          \* lengths of the bodies the API server produces
    MaxConcurrent,  \* maxConcurrentRequests: the agent's slots
    CutBodies,      \* whether the API server's connection may be lost mid-body
    RequestQueue,   \* room for requests waiting to reach the agent
    BulkQueue       \* room for frames waiting to reach the server

ASSUME SlicePositive == Slice \in Nat \ {0} /\ Slice <= MaxChunk
ASSUME AgentBoundsNat == /\ AgentCap \in Nat
                         /\ Sizes \subseteq Nat
                         /\ MaxConcurrent \in Nat \ {0}
                         /\ CutBodies \in BOOLEAN
                         /\ RequestQueue \in Nat \ {0}
                         /\ BulkQueue \in Nat \ {0}

\* What assemblyBudget and maxResponseBody were chosen for: every slot of the
\* agent at its own cap (16 calls of 8 MB), each within a frame's 16 MB.
ASSUME LimitsFit == AgentCap <= BodyLimit /\ MaxConcurrent * AgentCap <= Budget

VARIABLES
    pc,         \* where each caller is in Do
    result,     \* what Do returned
    closed,     \* t.closed
    reading,    \* the read loop has not seen the socket fail yet
    toAgent,    \* t.bulk and the socket: requests on their way to the agent
    serving,    \* where the agent's goroutine for each call is
    size,       \* length of the body the API server produced, -1 before
    relayed,    \* how much of it forwardInParts has sent as parts
    answer,     \* the final frame the goroutine wants to send
    toServer,   \* w.bulk and the socket: frames on their way back
    cut,        \* history: calls whose body was cut short under its reader
    lost        \* calls whose answer found no room within its window

serverVars == <<pc, result, closed, reading>>
agentVars == <<serving, size, relayed, answer, cut, lost>>
callVars == <<assemblyVars, serverVars, toAgent, agentVars, toServer>>

NoBody == -1
Outcome(kind) == [kind |-> kind, size |-> 0]

PartFrame(c, n) == [id |-> c, type |-> "part", size |-> n, err |-> FALSE]
FinalFrame(c, n) == [id |-> c, type |-> "final", size |-> n, err |-> FALSE]
ErrorFrame(c) == [id |-> c, type |-> "final", size |-> 0, err |-> TRUE]

CallsInit ==
    /\ AssemblyInit
    /\ pc = [c \in Calls |-> "idle"]
    /\ result = [c \in Calls |-> NoReply]
    /\ closed = FALSE
    /\ reading = TRUE
    /\ toAgent = <<>>
    /\ serving = [c \in Calls |-> "none"]
    /\ size = [c \in Calls |-> NoBody]
    /\ relayed = [c \in Calls |-> 0]
    /\ answer = [c \in Calls |-> ErrorFrame(c)]
    /\ toServer = <<>>
    /\ cut = {}
    /\ lost = {}

-----------------------------------------------------------------------------
(* The caller: Tunnel.Do. *)

Goto(c, from, to) == pc[c] = from /\ pc' = [pc EXCEPT ![c] = to]

Finish(c, from, to, outcome) ==
    /\ Goto(c, from, to)
    /\ result' = [result EXCEPT ![c] = outcome]
    /\ UNCHANGED <<closed, reading>>

\* The test of t.closed.  It and the filing are two steps: the tunnel may close
\* between them.
Enter(c) ==
    /\ \/ closed /\ Finish(c, "idle", "done", Outcome("closed"))
       \/ ~closed /\ Goto(c, "idle", "filing") /\ UNCHANGED <<result, closed, reading>>
    /\ UNCHANGED <<assemblyVars, toAgent, agentVars, toServer>>

File(c) ==
    /\ Goto(c, "filing", "queueing")
    /\ Register(c)
    /\ UNCHANGED <<result, closed, reading, toAgent, agentVars, toServer>>

\* enqueueOn: room wins or, with the tunnel closed as well, either may.
Queue(c) ==
    /\ Len(toAgent) < RequestQueue
    /\ Goto(c, "queueing", "waiting")
    /\ toAgent' = Append(toAgent, c)
    /\ UNCHANGED <<assemblyVars, result, closed, reading, agentVars, toServer>>

\* queueWait has passed with no room: ErrTunnelBacklog.
QueueBacklog(c) ==
    /\ Len(toAgent) = RequestQueue
    /\ Finish(c, "queueing", "leaving", Outcome("backlog"))
    /\ UNCHANGED <<assemblyVars, toAgent, agentVars, toServer>>

\* Mutant: Do's own select leaves t.closed out.
SeeClosedInQueueOnly(c) ==
    /\ closed
    /\ Finish(c, "queueing", "leaving", Outcome("closed"))
    /\ UNCHANGED <<assemblyVars, toAgent, agentVars, toServer>>

\* Both selects of Do and enqueueOn also end when t.closed does.
SeeClosed(c) ==
    /\ closed
    /\ \/ Finish(c, "queueing", "leaving", Outcome("closed"))
       \/ Finish(c, "waiting", "leaving", Outcome("closed"))
    /\ UNCHANGED <<assemblyVars, toAgent, agentVars, toServer>>

TakeReply(c) ==
    /\ replies[c] # NoReply
    /\ Finish(c, "waiting", "leaving", replies[c])
    /\ UNCHANGED <<assemblyVars, toAgent, agentVars, toServer>>

\* The caller's context ends: its client hung up, or proxyTimeout passed.
Expire(c) ==
    /\ Finish(c, "waiting", "leaving", Outcome("expired"))
    /\ UNCHANGED <<assemblyVars, toAgent, agentVars, toServer>>

\* The deferred forget.
Leave(c) ==
    /\ Goto(c, "leaving", "done")
    /\ Forget(c)
    /\ UNCHANGED <<result, closed, reading, toAgent, agentVars, toServer>>

-----------------------------------------------------------------------------
(* The agent: serveRequest and forwardInParts, one goroutine per request. *)

\* The calls that hold one of c.slots.
Holding == {c \in Calls : serving[c] \in {"calling", "relaying", "answering"}}

AgentGoto(c, from, to) ==
    /\ serving[c] = from
    /\ serving' = [serving EXCEPT ![c] = to]

\* pump starts a goroutine for the request at the head of the socket.
AgentReceive ==
    /\ toAgent # <<>>
    /\ AgentGoto(Head(toAgent), "none", "acquiring")
    /\ toAgent' = Tail(toAgent)
    /\ UNCHANGED <<assemblyVars, serverVars, size, relayed, answer, cut, lost, toServer>>

\* Mutant: the slots are not counted.
AcquireUnbounded(c) ==
    /\ AgentGoto(c, "acquiring", "calling")
    /\ UNCHANGED <<assemblyVars, serverVars, toAgent, size, relayed, answer, cut, lost, toServer>>

Acquire(c) ==
    /\ Cardinality(Holding) < MaxConcurrent
    /\ AgentGoto(c, "acquiring", "calling")
    /\ UNCHANGED <<assemblyVars, serverVars, toAgent, size, relayed, answer, cut, lost, toServer>>

\* Settle on the final frame to send.
Settle(c, from, to, frame) ==
    /\ AgentGoto(c, from, to)
    /\ answer' = [answer EXCEPT ![c] = frame]
    /\ UNCHANGED <<assemblyVars, serverVars, toAgent, size, relayed, lost, toServer>>

\* RequestTimeout passes before a slot comes free.
AcquireTimeout(c) == Settle(c, "acquiring", "refusing", ErrorFrame(c)) /\ UNCHANGED cut

\* The API server cannot be asked, or RequestTimeout passes before it answers.
CallFails(c) == Settle(c, "calling", "answering", ErrorFrame(c)) /\ UNCHANGED cut

CallAnswered(c, n) ==
    /\ AgentGoto(c, "calling", "relaying")
    /\ size' = [size EXCEPT ![c] = n]
    /\ UNCHANGED <<assemblyVars, serverVars, toAgent, relayed, answer, cut, lost, toServer>>

\* What the next io.ReadFull of a Slice returns.
NextSlice(c) == IF size[c] - relayed[c] < Slice THEN size[c] - relayed[c] ELSE Slice

OverCap(c) == relayed[c] + NextSlice(c) > AgentCap

TooLarge(c) ==
    /\ OverCap(c)
    /\ Settle(c, "relaying", "answering", ErrorFrame(c))
    /\ UNCHANGED cut

\* A full slice goes ahead as a part, once the bulk queue has room.
SendPart(c) ==
    /\ serving[c] = "relaying"
    /\ ~OverCap(c)
    /\ NextSlice(c) = Slice
    /\ Len(toServer) < BulkQueue
    /\ toServer' = Append(toServer, PartFrame(c, Slice))
    /\ relayed' = [relayed EXCEPT ![c] = @ + Slice]
    /\ UNCHANGED <<assemblyVars, serverVars, toAgent, serving, size, answer, cut, lost>>

\* Mutant: a body cut short is answered with what there is of it.
RelayFailsShort(c) ==
    Settle(c, "relaying", "answering", FinalFrame(c, 0)) /\ UNCHANGED cut

\* The body's reader fails, or RequestTimeout passes while a part waits.
RelayFails(c) ==
    Settle(c, "relaying", "answering", ErrorFrame(c)) /\ UNCHANGED cut

\* The reader's io.ErrUnexpectedEOF has its own case: net/http returns it for a
\* body that ends before its length or its last chunk, and io.ReadFull for a
\* short last slice.  Both are taken for the end of the body.
BodyCut(c) ==
    /\ CutBodies
    /\ \E n \in 0..Slice - 1 :
          /\ relayed[c] + n < size[c]
          /\ relayed[c] + n <= AgentCap
          /\ Settle(c, "relaying", "answering", FinalFrame(c, n))
    /\ cut' = cut \cup {c}

\* The end of the body: what is left of it rides on the final frame.
EndOfBody(c) ==
    /\ ~OverCap(c)
    /\ NextSlice(c) < Slice
    /\ Settle(c, "relaying", "answering", FinalFrame(c, NextSlice(c)))
    /\ UNCHANGED cut

\* The final frame is queued, and with it the slot (if any) comes free.
SendAnswer(c) ==
    /\ \/ AgentGoto(c, "answering", "done")
       \/ AgentGoto(c, "refusing", "done")
    /\ Len(toServer) < BulkQueue
    /\ toServer' = Append(toServer, answer[c])
    /\ UNCHANGED <<assemblyVars, serverVars, toAgent, size, relayed, answer, cut, lost>>

\* Mutant: the answer waits for room without a window of its own.
LoseAnswerWaits(c) == FALSE

\* writeTimeout passes with no room: the answer is logged and dropped.
LoseAnswer(c) ==
    /\ \/ AgentGoto(c, "answering", "done")
       \/ AgentGoto(c, "refusing", "done")
    /\ Len(toServer) = BulkQueue
    /\ lost' = lost \cup {c}
    /\ UNCHANGED <<assemblyVars, serverVars, toAgent, size, relayed, answer, cut, toServer>>

-----------------------------------------------------------------------------
(* The server's read loop, and the end of the tunnel. *)

\* serve: a part or a final frame reaches the table.  Frames the socket had
\* buffered may still be read after the tunnel closed.
ReadFrame ==
    /\ reading
    /\ toServer # <<>>
    /\ LET f == Head(toServer) IN
         \/ f.type = "part" /\ AddPart(f.id, f.size)
         \/ f.type = "final" /\ Complete(f.id, f.size, f.err)
    /\ toServer' = Tail(toServer)
    /\ UNCHANGED <<serverVars, toAgent, agentVars>>

\* closeWith: displacement, rotation, a failed ping or write, a dead socket.
CloseTunnel ==
    /\ ~closed
    /\ closed' = TRUE
    /\ UNCHANGED <<assemblyVars, pc, result, reading, toAgent, agentVars, toServer>>

StopReading ==
    /\ closed
    /\ reading
    /\ reading' = FALSE
    /\ UNCHANGED <<assemblyVars, pc, result, closed, toAgent, agentVars, toServer>>

Caller(c) == \/ Enter(c) \/ File(c) \/ Queue(c) \/ QueueBacklog(c)
             \/ SeeClosed(c) \/ TakeReply(c) \/ Expire(c) \/ Leave(c)

Handler(c) == \/ Acquire(c) \/ AcquireTimeout(c)
              \/ CallFails(c) \/ \E n \in Sizes : CallAnswered(c, n)
              \/ TooLarge(c) \/ SendPart(c) \/ RelayFails(c) \/ BodyCut(c) \/ EndOfBody(c)
              \/ SendAnswer(c) \/ LoseAnswer(c)

CallsNext ==
    \/ \E c \in Calls : Caller(c) \/ Handler(c)
    \/ AgentReceive \/ ReadFrame \/ CloseTunnel \/ StopReading

CallsSpec == CallsInit /\ [][CallsNext]_callVars

(* Goroutines run and the socket moves or fails; timers fire.  A caller's own
   deadline is separate: nothing but DeadlineSpec relies on it.              *)
CallsFairness ==
    /\ \A c \in Calls :
          /\ WF_callVars(File(c))
          /\ WF_callVars(Queue(c) \/ QueueBacklog(c) \/ SeeClosed(c))
          /\ WF_callVars(TakeReply(c))
          /\ WF_callVars(Leave(c))
          /\ WF_callVars(Handler(c))
    /\ WF_callVars(AgentReceive)
    /\ WF_callVars(ReadFrame)

FairCallsSpec == CallsSpec /\ CallsFairness

DeadlineSpec == FairCallsSpec /\ \A c \in Calls : WF_callVars(Expire(c))

-----------------------------------------------------------------------------
\* Every variable has its type, and queues and slots their size; the table's own
\* variables are AssemblyTypeOK's.
CallsTypeOK ==
    /\ AssemblyTypeOK
    /\ pc \in [Calls -> {"idle", "filing", "queueing", "waiting", "leaving", "done"}]
    /\ closed \in BOOLEAN /\ reading \in BOOLEAN
    /\ toAgent \in Seq(Calls) /\ Len(toAgent) <= RequestQueue
    /\ serving \in [Calls -> {"none", "acquiring", "calling", "relaying",
                              "answering", "refusing", "done"}]
    /\ size \in [Calls -> Sizes \cup {NoBody}]
    /\ relayed \in [Calls -> Nat]
    /\ Len(toServer) <= BulkQueue
    /\ cut \subseteq Calls /\ lost \subseteq Calls
    /\ Cardinality(Holding) <= MaxConcurrent

IsWhole(c) == result[c].kind = "body" => result[c].size = size[c]

\* A response that cannot be delivered whole is not delivered at all: whatever
\* fails between the agent's reader and the caller, a caller that gets a body
\* gets all of it (forwardInParts, addPart, complete).
WholeBodies == \A c \in Calls \ cut : IsWhole(c)

\* The same without the exception, as forwardInParts' comment has it: "half a
\* list must never be presented as all of one".
HalfNeverAsWhole == \A c \in Calls : IsWhole(c)

\* The bounds on assembly are the agent's own limits: unless an answer was lost
\* no response of an agent that keeps its limits is ever refused by them.
HonestAgentAccepted ==
    lost = {} => \A c \in Calls :
        failure[c] = "none" /\ replies[c].kind \notin {"tooLarge", "budget"}

\* A caller that entered an open tunnel is answered, told that it closed, or
\* waiting for an answer the agent dropped: nothing else leaves a call hanging.
AnsweredUnlessLost ==
    \A c \in Calls : pc[c] = "filing" ~> (pc[c] = "done" \/ c \in lost)

\* The agent's goroutine for a request ends, so its slot comes back, even while
\* every other slot is held by a call waiting for room in the bulk queue.
SlotsComeBack ==
    \A c \in Calls : serving[c] # "none" ~> serving[c] = "done"

\* Do keeps the contract the proxy relies on.
Contract == INSTANCE CallContract WITH
    phase <- [c \in Calls |->
                CASE pc[c] = "idle" -> "idle"
                  [] pc[c] \in {"leaving", "done"} -> "returned"
                  [] OTHER -> "asked"],
    produced <- [c \in Calls |-> IF size[c] = NoBody THEN -2 ELSE size[c]],
    outcome <- [c \in Calls |->
                  CASE result[c] = NoReply -> -2
                    [] result[c].kind = "body" -> result[c].size
                    [] OTHER -> -1]

\* Each call returns exactly once, with an error or the whole body (CallContract).
KeepsContract == Contract!ContractSpec
=============================================================================
