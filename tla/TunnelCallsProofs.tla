-------------------------- MODULE TunnelCallsProofs --------------------------
(* What is proved of the calls of a tunnel with their agent and their queues, in
   four parts.

   That they use the correlation table as TunnelAssembly lets them, so that what
   is proved of the table for any frames holds of the whole.  This rests on
   FramesInv: an agent never makes a frame larger than MaxChunk, because what it
   has relayed of a body never passes the body.

   That queues and slots keep their bounds (BoundsInv).

   That bodies are delivered whole, and Do keeps its contract.  The heart of
   WholeInv is SumInv: what the table has assembled of a body and what is still
   in the queue are together what the agent has relayed of it.  So when the final
   frame is read, with nothing of the call behind it (FinalInv), the parts in the
   table and the rest on the frame are the body.

   That an agent that keeps its limits is never refused.  The heart of HonestInv
   is BearInv: at whichever frame the server is, the calls that have bytes with it
   or ahead of that frame, and no final frame there, are no more than the agent's
   slots.  Each of them held a slot when the last of these frames was queued.  *)
EXTENDS TunnelCalls, TunnelAssemblyProofs, SeqSumsProofs

\* What the agent sends.
Frame == [id : Calls, type : {"part", "final"}, size : 0..MaxChunk, err : BOOLEAN]
\* Where the agent's goroutine for a request can be.
Stages == {"none", "acquiring", "calling", "relaying", "answering", "refusing", "done"}

\* Types of what is on its way: the agent makes no part larger than the table takes.
FramesInv ==
    /\ toAgent \in Seq(Calls)
    /\ toServer \in Seq(Frame)
    /\ answer \in [Calls -> Frame]
    /\ serving \in [Calls -> Stages]
    /\ size \in [Calls -> Sizes \cup {NoBody}]
    /\ relayed \in [Calls -> Nat]
    /\ \A c \in Calls :
          /\ serving[c] \in {"none", "acquiring", "calling"} => relayed[c] = 0
          /\ serving[c] = "relaying" => size[c] \in Nat /\ relayed[c] <= size[c]

-----------------------------------------------------------------------------
\* The frames the agent makes have the type of a frame.
LEMMA FramesOfParts ==
    /\ 0 \in 0..MaxChunk
    /\ 0..Slice \subseteq 0..MaxChunk
    /\ \A c \in Calls, n \in 0..MaxChunk :
          PartFrame(c, n) \in Frame /\ FinalFrame(c, n) \in Frame /\ ErrorFrame(c) \in Frame
BY BoundsNat, SlicePositive DEF Frame, PartFrame, FinalFrame, ErrorFrame

\* A slice that is left of a body is no longer than a full one.
LEMMA NextSliceBounded ==
    ASSUME FramesInv, NEW c \in Calls, serving[c] = "relaying"
    PROVE  NextSlice(c) \in 0..Slice /\ relayed[c] + NextSlice(c) <= size[c]
BY SlicePositive DEF FramesInv, NextSlice

\* FramesInv holds at first, and each kind of step keeps it.
LEMMA FramesInit == CallsInit => FramesInv
<1> SUFFICES ASSUME CallsInit PROVE FramesInv
  OBVIOUS
<1> USE DEF CallsInit
<1>1. answer \in [Calls -> Frame]
  BY FramesOfParts
<1>2. QED
  BY <1>1 DEF FramesInv, Stages

\* The handler settles on a final frame.
LEMMA SettleFrames ==
    ASSUME FramesInv, NEW c \in Calls, NEW f \in Frame,
           NEW from, NEW to \in {"answering", "refusing"}, Settle(c, from, to, f)
    PROVE  FramesInv'
BY DEF FramesInv, Settle, AgentGoto, Stages, assemblyVars, serverVars

\* What a caller does touches no frame but the request it queues.
LEMMA CallerFrames ==
    ASSUME FramesInv, NEW c \in Calls, Caller(c)
    PROVE  FramesInv'
<1>1. UNCHANGED <<serving, size, relayed, answer, toServer>>
  BY DEF Caller, Enter, File, Queue, QueueBacklog, SeeClosed, TakeReply, Expire,
         Leave, agentVars
<1>2. toAgent' = toAgent \/ toAgent' = Append(toAgent, c)
  BY DEF Caller, Enter, File, Queue, QueueBacklog, SeeClosed, TakeReply, Expire, Leave
<1>3. toAgent \in Seq(Calls) /\ Append(toAgent, c) \in Seq(Calls)
  BY DEF FramesInv
<1>4. toAgent' \in Seq(Calls)
  BY <1>2, <1>3
<1>5. QED
  BY <1>1, <1>4 DEF FramesInv

LEMMA HandlerFrames ==
    ASSUME FramesInv, NEW c \in Calls, Handler(c)
    PROVE  FramesInv'
<1>1. CASE Acquire(c)
  BY <1>1 DEF FramesInv, Acquire, AgentGoto, Stages
<1>2. CASE AcquireTimeout(c) \/ CallFails(c) \/ TooLarge(c) \/ RelayFails(c)
  <2>1. ErrorFrame(c) \in Frame
    BY FramesOfParts
  <2>2. QED
    BY <1>2, <2>1, SettleFrames DEF AcquireTimeout, CallFails, TooLarge, RelayFails
<1>3. ASSUME NEW n \in Sizes, CallAnswered(c, n)
      PROVE  FramesInv'
  <2>1. n \in Nat
    BY AgentBoundsNat
  <2>2. QED
    BY <1>3, <2>1 DEF FramesInv, CallAnswered, AgentGoto, Stages
<1>4. CASE SendPart(c)
  <2>1. PartFrame(c, Slice) \in Frame
    BY FramesOfParts, SlicePositive
  <2>2. relayed[c] + Slice <= size[c]
    BY <1>4, NextSliceBounded DEF SendPart
  <2>3. toServer' \in Seq(Frame)
    BY <1>4, <2>1 DEF SendPart, FramesInv
  <2>4. relayed' = [relayed EXCEPT ![c] = @ + Slice] /\ relayed' \in [Calls -> Nat]
    BY <1>4, SlicePositive DEF SendPart, FramesInv
  <2>5. UNCHANGED <<toAgent, answer, serving, size>> /\ serving[c] = "relaying"
    BY <1>4 DEF SendPart
  <2>6. QED
    BY <2>2, <2>3, <2>4, <2>5 DEF FramesInv
<1>5. CASE BodyCut(c)
  <2>1. PICK n \in 0..Slice - 1 : Settle(c, "relaying", "answering", FinalFrame(c, n))
    BY <1>5 DEF BodyCut
  <2>2. FinalFrame(c, n) \in Frame
    BY FramesOfParts, SlicePositive, BoundsNat
  <2>3. QED
    BY <2>1, <2>2, SettleFrames
<1>6. CASE EndOfBody(c)
  <2>1. serving[c] = "relaying"
    BY <1>6 DEF EndOfBody, Settle, AgentGoto
  <2>2. FinalFrame(c, NextSlice(c)) \in Frame
    BY <2>1, NextSliceBounded, FramesOfParts
  <2>3. QED
    BY <1>6, <2>2, SettleFrames DEF EndOfBody
<1>7. CASE SendAnswer(c)
  <2>1. toServer' = Append(toServer, answer[c]) /\ answer[c] \in Frame
    BY <1>7 DEF SendAnswer, FramesInv
  <2>2. toServer' \in Seq(Frame)
    BY <2>1 DEF FramesInv
  <2>3. /\ serving' = [serving EXCEPT ![c] = "done"]
        /\ UNCHANGED <<toAgent, size, relayed, answer>>
    BY <1>7 DEF SendAnswer, AgentGoto
  <2>4. QED
    BY <2>2, <2>3 DEF FramesInv, Stages
<1>8. CASE LoseAnswer(c)
  BY <1>8 DEF FramesInv, LoseAnswer, AgentGoto, Stages
<1>9. QED
  BY <1>1, <1>2, <1>3, <1>4, <1>5, <1>6, <1>7, <1>8 DEF Handler

LEMMA ReceiveFrames ==
    ASSUME FramesInv, AgentReceive
    PROVE  FramesInv'
<1>1. Head(toAgent) \in Calls /\ Tail(toAgent) \in Seq(Calls)
  BY DEF FramesInv, AgentReceive
<1>2. QED
  BY <1>1 DEF FramesInv, AgentReceive, AgentGoto, Stages

LEMMA ReadFrames ==
    ASSUME FramesInv, ReadFrame
    PROVE  /\ Head(toServer) \in Frame
           /\ FramesInv'
BY DEF FramesInv, ReadFrame, agentVars

LEMMA FramesStep ==
    ASSUME FramesInv, [CallsNext]_callVars
    PROVE  FramesInv'
<1>1. CASE CloseTunnel \/ StopReading \/ UNCHANGED callVars
  BY <1>1 DEF FramesInv, CloseTunnel, StopReading, callVars, agentVars
<1>2. QED
  BY <1>1, CallerFrames, HandlerFrames, ReceiveFrames, ReadFrames DEF CallsNext

\* So it always holds.
LEMMA FramesAlways == CallsSpec => []FramesInv
BY FramesInit, FramesStep, PTL DEF CallsSpec

-----------------------------------------------------------------------------
(* Every step of the whole is a step of the table, or leaves it alone. *)

\* A caller's steps file and forget, and touch nothing else of the table.
LEMMA CallerUsesTable ==
    ASSUME NEW c \in Calls, Caller(c)
    PROVE  [AssemblyNext]_assemblyVars
<1>1. Register(c) \/ Forget(c) => AssemblyNext
  BY DEF AssemblyNext
<1>2. CASE File(c) \/ Leave(c)
  BY <1>1, <1>2 DEF File, Leave
<1>3. CASE ~(File(c) \/ Leave(c))
  BY <1>3 DEF Caller, Enter, Queue, QueueBacklog, SeeClosed, TakeReply, Expire
<1>4. QED
  BY <1>2, <1>3

\* The agent's goroutines do not touch the table.
LEMMA HandlerUsesTable ==
    ASSUME NEW c \in Calls, Handler(c)
    PROVE  UNCHANGED assemblyVars
BY DEF Handler, Acquire, AcquireTimeout, CallFails, CallAnswered, TooLarge, SendPart,
       RelayFails, BodyCut, EndOfBody, SendAnswer, LoseAnswer, Settle

\* The read loop adds a part or completes a call.
LEMMA ReadUsesTable ==
    ASSUME FramesInv, ReadFrame
    PROVE  AssemblyNext
<1> DEFINE f == Head(toServer)
<1>1. f.id \in Calls /\ f.size \in 0..MaxChunk /\ f.err \in BOOLEAN
  BY ReadFrames DEF Frame
<1>2. AddPart(f.id, f.size) \/ Complete(f.id, f.size, f.err)
  BY DEF ReadFrame
<1> HIDE DEF f
<1>3. QED
  BY <1>1, <1>2 DEF AssemblyNext

\* So every step of the whole is one of the table's, or leaves it alone.
LEMMA StepUsesTable ==
    ASSUME FramesInv, [CallsNext]_callVars
    PROVE  [AssemblyNext]_assemblyVars
<1>1. CASE AgentReceive \/ CloseTunnel \/ StopReading \/ UNCHANGED callVars
  BY <1>1 DEF AgentReceive, CloseTunnel, StopReading, callVars, assemblyVars
<1>2. CASE ReadFrame
  BY <1>2, ReadUsesTable
<1>3. ASSUME NEW c \in Calls, Caller(c)
      PROVE  [AssemblyNext]_assemblyVars
  BY <1>3, CallerUsesTable
<1>4. ASSUME NEW c \in Calls, Handler(c)
      PROVE  [AssemblyNext]_assemblyVars
  BY <1>4, HandlerUsesTable
<1>5. QED
  BY <1>1, <1>2, <1>3, <1>4 DEF CallsNext

\* The callers, the agent and the queues together use the correlation table as
\* TunnelAssembly lets them: its operations are all that ever touches it.
THEOREM CallsUseTable == CallsSpec => AssemblySpec
<1>1. CallsInit => AssemblyInit
  BY DEF CallsInit
<1>2. QED
  BY <1>1, FramesAlways, StepUsesTable, PTL DEF CallsSpec, AssemblySpec

\* So the byte counter is exact under real calls, and a tunnel holds no more than
\* assemblyBudget whatever its callers, its agent and its queues do.
THEOREM CallsBounded == CallsSpec => [](TableExact /\ WithinBounds)
BY CallsUseTable, AssemblyExact, AssemblyBounded, PTL

-----------------------------------------------------------------------------
(* The bounds of the queues and of the agent's slots. *)

\* What CallsTypeOK says beside the frames.
BoundsInv ==
    /\ pc \in [Calls -> {"idle", "filing", "queueing", "waiting", "leaving", "done"}]
    /\ closed \in BOOLEAN /\ reading \in BOOLEAN
    /\ Len(toAgent) <= RequestQueue
    /\ Len(toServer) <= BulkQueue
    /\ cut \subseteq Calls /\ lost \subseteq Calls
    /\ Cardinality(Holding) <= MaxConcurrent

\* A step that gives no call a slot keeps the slots' bound.
LEMMA NoSlotTaken ==
    ASSUME Cardinality(Holding) <= MaxConcurrent, Holding' \subseteq Holding
    PROVE  Cardinality(Holding') <= MaxConcurrent
<1>1. IsFiniteSet(Holding)
  BY CallsFinite, FS_Subset DEF Holding
<1>2. IsFiniteSet(Holding') /\ Cardinality(Holding') <= Cardinality(Holding)
  BY <1>1, FS_Subset
<1>3. Cardinality(Holding) \in Nat /\ Cardinality(Holding') \in Nat
  BY <1>1, <1>2, FS_CardinalityType
<1>4. QED
  BY <1>2, <1>3, AgentBoundsNat

\* acquire: one call more than before, and only below the limit.
LEMMA SlotTaken ==
    ASSUME FramesInv, NEW c \in Calls, Acquire(c)
    PROVE  Cardinality(Holding') <= MaxConcurrent
<1>1. IsFiniteSet(Holding)
  BY CallsFinite, FS_Subset DEF Holding
<1>2. c \notin Holding /\ Holding' = Holding \cup {c}
  BY DEF FramesInv, Acquire, AgentGoto, Holding, Stages
<1>3. Cardinality(Holding') = Cardinality(Holding) + 1
  BY <1>1, <1>2, FS_AddElement
<1>4. Cardinality(Holding) \in Nat /\ Cardinality(Holding) < MaxConcurrent
  BY <1>1, FS_CardinalityType DEF Acquire
<1>5. QED
  BY <1>3, <1>4, AgentBoundsNat

\* BoundsInv holds at first, and each kind of step keeps it.
LEMMA BoundsInit == CallsInit => BoundsInv
<1> SUFFICES ASSUME CallsInit PROVE BoundsInv
  OBVIOUS
<1>1. Holding = {}
  BY DEF CallsInit, Holding
<1>2. Cardinality(Holding) <= MaxConcurrent
  BY <1>1, FS_EmptySet, AgentBoundsNat
<1>3. Len(toAgent) <= RequestQueue /\ Len(toServer) <= BulkQueue
  <2>1. toAgent = <<>> /\ toServer = <<>>
    BY DEF CallsInit
  <2>2. QED
    BY <2>1, AgentBoundsNat
<1>4. /\ pc \in [Calls -> {"idle", "filing", "queueing", "waiting", "leaving", "done"}]
      /\ closed \in BOOLEAN /\ reading \in BOOLEAN
      /\ cut \subseteq Calls /\ lost \subseteq Calls
  BY DEF CallsInit
<1>5. QED
  BY <1>2, <1>3, <1>4 DEF BoundsInv

LEMMA CallerBounds ==
    ASSUME FramesInv, BoundsInv, NEW c \in Calls, Caller(c)
    PROVE  BoundsInv'
<1>1. UNCHANGED <<serving, toServer, cut, lost>>
  BY DEF Caller, Enter, File, Queue, QueueBacklog, SeeClosed, TakeReply, Expire,
         Leave, agentVars
<1>2. UNCHANGED <<closed, reading>>
  BY DEF Caller, Enter, File, Queue, QueueBacklog, SeeClosed, TakeReply, Expire,
         Leave, Finish
<1>3. pc' \in [Calls -> {"idle", "filing", "queueing", "waiting", "leaving", "done"}]
  BY DEF BoundsInv, Caller, Enter, File, Queue, QueueBacklog, SeeClosed, TakeReply,
         Expire, Leave, Finish, Goto
<1>4. Len(toAgent') <= RequestQueue
  <2>1. CASE Queue(c)
    BY <2>1, AgentBoundsNat DEF Queue, FramesInv
  <2>2. CASE ~Queue(c)
    BY <2>2 DEF BoundsInv, Caller, Enter, File, QueueBacklog, SeeClosed, TakeReply,
                Expire, Leave
  <2>3. QED
    BY <2>1, <2>2
<1>5. Holding' = Holding
  BY <1>1 DEF Holding
<1>6. QED
  BY <1>1, <1>2, <1>3, <1>4, <1>5 DEF BoundsInv

LEMMA HandlerBounds ==
    ASSUME FramesInv, BoundsInv, NEW c \in Calls, Handler(c)
    PROVE  BoundsInv'
<1>1. UNCHANGED <<pc, closed, reading, toAgent>>
  BY DEF Handler, Acquire, AcquireTimeout, CallFails, CallAnswered, TooLarge, SendPart,
         RelayFails, BodyCut, EndOfBody, SendAnswer, LoseAnswer, Settle, serverVars
<1>2. cut' \subseteq Calls /\ lost' \subseteq Calls
  BY DEF BoundsInv, Handler, Acquire, AcquireTimeout, CallFails, CallAnswered, TooLarge,
         SendPart, RelayFails, BodyCut, EndOfBody, SendAnswer, LoseAnswer, Settle
<1>3. Len(toServer') <= BulkQueue
  <2>1. CASE SendPart(c) \/ SendAnswer(c)
    BY <2>1, AgentBoundsNat DEF SendPart, SendAnswer, FramesInv
  <2>2. CASE ~(SendPart(c) \/ SendAnswer(c))
    BY <2>2 DEF BoundsInv, Handler, Acquire, AcquireTimeout, CallFails, CallAnswered,
                TooLarge, RelayFails, BodyCut, EndOfBody, LoseAnswer, Settle
  <2>3. QED
    BY <2>1, <2>2
<1>4. Cardinality(Holding') <= MaxConcurrent
  <2>1. CASE Acquire(c)
    BY <2>1, SlotTaken
  <2>2. CASE ~Acquire(c)
    <3>1. Holding' \subseteq Holding
      BY <2>2 DEF FramesInv, Stages, Holding, Handler, AcquireTimeout, CallFails,
                  CallAnswered, TooLarge, SendPart, RelayFails, BodyCut, EndOfBody,
                  SendAnswer, LoseAnswer, Settle, AgentGoto
    <3>2. QED
      BY <3>1, NoSlotTaken DEF BoundsInv
  <2>3. QED
    BY <2>1, <2>2
<1>5. QED
  BY <1>1, <1>2, <1>3, <1>4 DEF BoundsInv

LEMMA BoundsStep ==
    ASSUME FramesInv, BoundsInv, [CallsNext]_callVars
    PROVE  BoundsInv'
<1>1. CASE CloseTunnel \/ StopReading \/ UNCHANGED callVars
  BY <1>1 DEF BoundsInv, Holding, CloseTunnel, StopReading, callVars, serverVars, agentVars
<1>2. CASE AgentReceive
  <2>1. Len(toAgent') <= RequestQueue
    BY <1>2, AgentBoundsNat DEF AgentReceive, BoundsInv, FramesInv
  <2>2. Holding' \subseteq Holding
    BY <1>2 DEF AgentReceive, AgentGoto, Holding, FramesInv
  <2>3. Cardinality(Holding') <= MaxConcurrent
    BY <2>2, NoSlotTaken DEF BoundsInv
  <2>4. UNCHANGED <<pc, closed, reading, toServer, cut, lost>>
    BY <1>2 DEF AgentReceive, serverVars
  <2>5. QED
    BY <2>1, <2>3, <2>4 DEF BoundsInv
<1>3. CASE ReadFrame
  <2>1. Len(toServer') <= BulkQueue
    BY <1>3, AgentBoundsNat DEF ReadFrame, BoundsInv, FramesInv
  <2>2. UNCHANGED <<pc, closed, reading, toAgent, serving, cut, lost>>
    BY <1>3 DEF ReadFrame, serverVars, agentVars
  <2>3. QED
    BY <2>1, <2>2 DEF BoundsInv, Holding
<1>4. QED
  BY <1>1, <1>2, <1>3, CallerBounds, HandlerBounds DEF CallsNext

\* The queues and the agent's slots keep their bounds, and every variable its
\* type, for any number of calls, any limits and any bodies.
THEOREM CallsTypeCorrect == CallsSpec => []CallsTypeOK
<1>1. CallsSpec => [](FramesInv /\ BoundsInv)
  BY FramesInit, FramesStep, BoundsInit, BoundsStep, PTL DEF CallsSpec
<1>2. FramesInv /\ BoundsInv /\ AssemblyTypeOK => CallsTypeOK
  BY DEF FramesInv, BoundsInv, CallsTypeOK, Stages
<1>3. QED
  BY <1>1, <1>2, CallsUseTable, AssemblyTypeCorrect, PTL

-----------------------------------------------------------------------------
(* Bodies are delivered whole. *)

\* What frame f carries of the body of c.
Share(f, c) == IF f.id = c /\ f.type = "part" THEN f.size ELSE 0
\* What each frame of s carries of c's body.
PartBytes(s, c) == [i \in 1..Len(s) |-> Share(s[i], c)]

\* What of c's body is in the queue, on its way to the server.
InFlight(c) == Total(PartBytes(toServer, c))

\* Shares are numbers.
LEMMA ShareNat == \A f \in Frame, c \in Calls : Share(f, c) \in Nat
BY BoundsNat DEF Share, Frame

\* So their sequence has a sum.
LEMMA PartBytesType ==
    ASSUME NEW s \in Seq(Frame), NEW c \in Calls
    PROVE  PartBytes(s, c) \in Seq(Nat) /\ Len(PartBytes(s, c)) = Len(s)
<1>1. Len(s) \in Nat /\ \A i \in 1..Len(s) : s[i] \in Frame
  BY LenProperties, ElementOfSeq
<1>2. PartBytes(s, c) \in [1..Len(s) -> Nat]
  BY <1>1, ShareNat DEF PartBytes
<1>3. QED
  BY <1>1, <1>2, LenProperties

\* A frame more adds its share to what is on its way.
LEMMA InFlightAppend ==
    ASSUME NEW s \in Seq(Frame), NEW f \in Frame, NEW c \in Calls
    PROVE  Total(PartBytes(Append(s, f), c)) = Total(PartBytes(s, c)) + Share(f, c)
<1> DEFINE t == Append(s, f)
           b == PartBytes(s, c)
           e == Share(f, c)
<1>1. /\ t \in Seq(Frame) /\ Len(t) = Len(s) + 1 /\ Len(s) \in Nat
      /\ t[Len(s) + 1] = f /\ \A i \in 1..Len(s) : t[i] = s[i]
  BY AppendProperties, LenProperties
<1>2. b \in Seq(Nat) /\ Len(b) = Len(s) /\ e \in Nat
  BY PartBytesType, ShareNat
<1>3. PartBytes(t, c) = Append(b, e)
  <2>1. /\ Append(b, e) \in Seq(Nat) /\ Len(Append(b, e)) = Len(s) + 1
        /\ Append(b, e)[Len(s) + 1] = e
        /\ \A i \in 1..Len(s) : Append(b, e)[i] = b[i]
    BY <1>2, AppendProperties
  <2>2. PartBytes(t, c) \in Seq(Nat) /\ Len(PartBytes(t, c)) = Len(s) + 1
    BY <1>1, PartBytesType
  <2>3. ASSUME NEW i \in 1..Len(s) + 1 PROVE PartBytes(t, c)[i] = Append(b, e)[i]
    BY <2>1, <1>1 DEF PartBytes
  <2> HIDE DEF t, b, e
  <2>4. QED
    BY <2>1, <2>2, <2>3, SeqEqual
<1> HIDE DEF b, e
<1>4. Total(Append(b, e)) = Total(b) + e
  BY <1>2, TotalAppend
<1>5. QED
  BY <1>3, <1>4 DEF b, e, t

\* A frame less takes its share away.
LEMMA InFlightTail ==
    ASSUME NEW s \in Seq(Frame), s # <<>>, NEW c \in Calls
    PROVE  Total(PartBytes(s, c)) = Share(Head(s), c) + Total(PartBytes(Tail(s), c))
<1> DEFINE t == Tail(s)
           b == PartBytes(s, c)
<1>1. /\ t \in Seq(Frame) /\ Len(t) = Len(s) - 1 /\ Len(s) \in Nat \ {0}
      /\ Head(s) = s[1] /\ \A i \in 1..Len(t) : t[i] = s[i + 1]
  BY HeadTailProperties, LenProperties, EmptySeq
<1>2. b \in Seq(Nat) /\ Len(b) = Len(s)
  BY PartBytesType
<1>3. b # <<>>
  BY <1>1, <1>2
<1>4. /\ Tail(b) \in Seq(Nat) /\ Len(Tail(b)) = Len(s) - 1 /\ Head(b) = b[1]
      /\ \A i \in 1..Len(s) - 1 : Tail(b)[i] = b[i + 1]
  BY <1>2, <1>3, HeadTailProperties
<1>5. PartBytes(t, c) = Tail(b)
  <2>1. PartBytes(t, c) \in Seq(Nat) /\ Len(PartBytes(t, c)) = Len(s) - 1
    BY <1>1, PartBytesType
  <2>2. ASSUME NEW i \in 1..Len(s) - 1 PROVE PartBytes(t, c)[i] = Tail(b)[i]
    BY <1>4, <1>1 DEF PartBytes
  <2> HIDE DEF t, b
  <2>3. QED
    BY <2>1, <2>2, <1>4, SeqEqual
<1>6. b[1] = Share(Head(s), c)
  BY <1>1 DEF PartBytes
<1> HIDE DEF b
<1>7. Total(b) = Head(b) + Total(Tail(b))
  BY <1>2, <1>3, TotalTail
<1>8. QED
  BY <1>4, <1>5, <1>6, <1>7 DEF b, t

\* No frame of c's, no bytes of its body.
LEMMA InFlightNone ==
    ASSUME NEW s \in Seq(Frame), NEW c \in Calls,
           \A i \in 1..Len(s) : Share(s[i], c) = 0
    PROVE  Total(PartBytes(s, c)) = 0
<1> DEFINE b == PartBytes(s, c)
<1>1. b \in Seq(Nat) /\ Len(b) = Len(s) /\ \A i \in 1..Len(s) : b[i] = 0
  BY PartBytesType DEF PartBytes
<1> HIDE DEF b
<1>2. Total(b) = 0
  BY <1>1, TotalZero
<1>3. QED
  BY <1>2 DEF b

-----------------------------------------------------------------------------
\* A goroutine that has not relayed anything.
Early == {"none", "acquiring", "calling"}

\* Nothing of c is on its way.
NoFrame(c) == \A i \in 1..Len(toServer) : toServer[i].id # c

\* How far a caller is says whether it is filed and whether the agent knows of it.
CallerInv ==
    \A c \in Calls :
        /\ pc[c] \in {"idle", "filing"} => c \notin pending
        /\ pc[c] \in {"idle", "filing", "queueing"} =>
              serving[c] = "none" /\ \A i \in 1..Len(toAgent) : toAgent[i] # c
        /\ c \notin pending => body[c] = 0 /\ failure[c] = "none" /\ replies[c] = NoReply

\* How far the agent's goroutine is says what it has sent, and what its answer holds.
AgentInv ==
    \A c \in Calls :
        /\ serving[c] \in Early => size[c] = NoBody /\ NoFrame(c) /\ replies[c] = NoReply
        /\ serving[c] \in {"answering", "refusing"} =>
              answer[c].id = c /\ answer[c].type = "final"
        /\ serving[c] = "refusing" => answer[c].err
        /\ serving[c] = "answering" /\ ~answer[c].err /\ c \notin cut =>
              relayed[c] + answer[c].size = size[c]

\* A final frame on its way is the last of its call, and ends its body.
FinalInv ==
    \A i \in 1..Len(toServer) : toServer[i].type = "final" =>
        /\ serving[toServer[i].id] = "done"
        /\ \A j \in (i + 1)..Len(toServer) : toServer[j].id # toServer[i].id
        /\ ~toServer[i].err /\ toServer[i].id \notin cut =>
              relayed[toServer[i].id] + toServer[i].size = size[toServer[i].id]

\* A reply is what came last of its call, and a whole body unless it was cut.
ReplyInv ==
    \A c \in Calls :
        /\ replies[c] # NoReply => serving[c] = "done" /\ NoFrame(c)
        /\ replies[c].kind = "body" /\ c \notin cut => replies[c].size = size[c]
        /\ result[c].kind = "body" => serving[c] = "done"
        /\ result[c].kind = "body" /\ c \notin cut => result[c].size = size[c]

\* What is assembled and what is on its way is what the agent has relayed.
SumInv ==
    \A c \in pending :
        failure[c] = "none" /\ replies[c] = NoReply => body[c] + InFlight(c) = relayed[c]

\* What Do returns.
Outcomes == [kind : {"none", "closed", "backlog", "expired", "body", "agent", "tooLarge",
                     "budget"}, size : Nat]

\* All types, the table's invariant among them.
Types ==
    /\ FramesInv /\ BoundsInv /\ AssemblyInv
    /\ result \in [Calls -> Outcomes]

\* The inductive invariant of whole bodies.
WholeInv == Types /\ CallerInv /\ AgentInv /\ FinalInv /\ ReplyInv /\ SumInv

\* WholeInv holds at first.
LEMMA WholeInit == CallsInit => WholeInv
<1> SUFFICES ASSUME CallsInit PROVE WholeInv
  OBVIOUS
<1>1. AssemblyInv
  BY AssemblyInitInv DEF CallsInit
<1>2. result \in [Calls -> Outcomes]
  BY DEF CallsInit, NoReply, Outcomes
<1>3. Types
  BY <1>1, <1>2, FramesInit, BoundsInit DEF Types
<1>4. toServer = <<>> /\ toAgent = <<>> /\ Len(toServer) = 0 /\ Len(toAgent) = 0
  BY EmptySeq DEF CallsInit
<1>5. CallerInv /\ AgentInv /\ FinalInv /\ ReplyInv /\ SumInv
  BY <1>4 DEF CallsInit, AssemblyInit, CallerInv, AgentInv, FinalInv, ReplyInv, SumInv,
              NoFrame, NoReply
<1>6. QED
  BY <1>3, <1>5 DEF WholeInv

\* Every step keeps the types.
LEMMA TypesStep ==
    ASSUME Types, [CallsNext]_callVars
    PROVE  Types'
<1>1. FramesInv' /\ BoundsInv'
  BY FramesStep, BoundsStep DEF Types
<1>2. AssemblyInv'
  BY StepUsesTable, AssemblyStepInv DEF Types
<1>3. result' \in [Calls -> Outcomes]
  <2>1. ASSUME NEW c \in Calls, Caller(c)
        PROVE  result' \in [Calls -> Outcomes]
    <3>1. replies[c] \in Outcomes
      BY DEF Types, AssemblyInv, AssemblyTypeOK, Replies, Outcomes
    <3>2. \A k \in {"closed", "backlog", "expired"} : Outcome(k) \in Outcomes
      BY DEF Outcome, Outcomes
    <3>3. UNCHANGED result \/ \E o \in Outcomes : result' = [result EXCEPT ![c] = o]
      BY <2>1, <3>1, <3>2 DEF Caller, Enter, File, Queue, QueueBacklog, SeeClosed, TakeReply,
                              Expire, Leave, Finish
    <3>4. QED
      BY <3>3 DEF Types
  <2>2. CASE UNCHANGED result
    BY <2>2 DEF Types
  <2>3. ASSUME NEW c \in Calls, Handler(c)
        PROVE  UNCHANGED result
    BY <2>3 DEF Handler, Acquire, AcquireTimeout, CallFails, CallAnswered, TooLarge, SendPart,
           RelayFails, BodyCut, EndOfBody, SendAnswer, LoseAnswer, Settle, serverVars
  <2>4. CASE AgentReceive \/ ReadFrame \/ CloseTunnel \/ StopReading \/ UNCHANGED callVars
    BY <2>2, <2>4 DEF AgentReceive, ReadFrame, CloseTunnel, StopReading, callVars, serverVars
  <2>5. QED
    BY <2>1, <2>2, <2>3, <2>4 DEF CallsNext
<1>4. QED
  BY <1>1, <1>2, <1>3 DEF Types

\* A caller's step that leaves the table and the queues alone: only pc and
\* result, towards a stage past "queueing".
LEMMA CallerMoves ==
    ASSUME WholeInv, Types', NEW c \in Calls,
           UNCHANGED <<assemblyVars, agentVars, toAgent, toServer>>,
           \/ pc' = [pc EXCEPT ![c] = "filing"] /\ pc[c] = "idle"
           \/ \E k \in {"waiting", "leaving", "done"} : pc' = [pc EXCEPT ![c] = k],
           \/ UNCHANGED result
           \/ /\ result' = [result EXCEPT ![c] = result'[c]]
              /\ result'[c].kind = "body" => result'[c] = replies[c]
    PROVE  WholeInv'
<1>1. CallerInv'
  BY DEF WholeInv, CallerInv, Types, BoundsInv, assemblyVars, agentVars
<1>2. AgentInv'
  BY DEF WholeInv, AgentInv, NoFrame, assemblyVars, agentVars
<1>3. FinalInv'
  BY DEF WholeInv, FinalInv, assemblyVars, agentVars
<1>4. ReplyInv'
  <2>1. replies[c].kind = "body" => serving[c] = "done"
    BY DEF WholeInv, ReplyInv, NoReply
  <2>2. QED
    BY <2>1 DEF WholeInv, ReplyInv, NoFrame, Types, assemblyVars, agentVars
<1>5. SumInv'
  BY DEF WholeInv, SumInv, InFlight, assemblyVars, agentVars
<1>6. QED
  BY <1>1, <1>2, <1>3, <1>4, <1>5 DEF WholeInv


\* A caller's step keeps the sums and the order of frames.
LEMMA CallerWhole ==
    ASSUME WholeInv, Types', NEW c \in Calls, Caller(c)
    PROVE  WholeInv'
<1>1. CASE Enter(c) \/ QueueBacklog(c) \/ SeeClosed(c) \/ TakeReply(c) \/ Expire(c)
  <2>1. UNCHANGED <<assemblyVars, agentVars, toAgent, toServer>>
    BY <1>1 DEF Enter, QueueBacklog, SeeClosed, TakeReply, Expire
  <2>2. \/ pc' = [pc EXCEPT ![c] = "filing"] /\ pc[c] = "idle"
        \/ \E k \in {"waiting", "leaving", "done"} : pc' = [pc EXCEPT ![c] = k]
    BY <1>1 DEF Enter, QueueBacklog, SeeClosed, TakeReply, Expire, Goto, Finish
  <2>3. \/ UNCHANGED result
        \/ /\ result' = [result EXCEPT ![c] = result'[c]]
           /\ result'[c].kind = "body" => result'[c] = replies[c]
    <3>1. UNCHANGED result \/ \E o : /\ result' = [result EXCEPT ![c] = o]
                                     /\ o = replies[c] \/ o.kind \in {"closed", "backlog", "expired"}
      BY <1>1 DEF Enter, QueueBacklog, SeeClosed, TakeReply, Expire, Goto, Finish, Outcome
    <3>2. result \in [Calls -> Outcomes]
      BY DEF WholeInv, Types
    <3>3. QED
      BY <3>1, <3>2
  <2>4. QED
    BY <2>1, <2>2, <2>3, CallerMoves
<1>2. CASE File(c)
  <2>1. /\ pc[c] = "filing" /\ pc' = [pc EXCEPT ![c] = "queueing"]
        /\ pending' = pending \cup {c}
        /\ UNCHANGED <<body, failure, replies, result, toAgent, agentVars, toServer>>
    BY <1>2 DEF File, Goto, Register
  <2>2. CallerInv'
    BY <2>1 DEF WholeInv, CallerInv, Types, BoundsInv, agentVars
  <2>3. AgentInv' /\ FinalInv' /\ ReplyInv'
    BY <2>1 DEF WholeInv, AgentInv, FinalInv, ReplyInv, NoFrame, agentVars
  <2>4. serving[c] = "none" /\ c \notin pending
    BY <2>1 DEF WholeInv, CallerInv
  <2>5. body[c] = 0 /\ relayed[c] = 0 /\ NoFrame(c)
    BY <2>4 DEF WholeInv, CallerInv, AgentInv, Early, Types, FramesInv
  <2>6. InFlight(c) = 0
    <3>1. toServer \in Seq(Frame) /\ \A i \in 1..Len(toServer) : Share(toServer[i], c) = 0
      BY <2>5 DEF NoFrame, Share, WholeInv, Types, FramesInv
    <3>2. QED
      BY <3>1, InFlightNone DEF InFlight
  <2>7. SumInv'
    <3> SUFFICES ASSUME NEW d \in pending', failure'[d] = "none", replies'[d] = NoReply
                 PROVE  body'[d] + InFlight(d)' = relayed'[d]
      BY DEF SumInv
    <3>1. InFlight(d)' = InFlight(d)
      BY <2>1 DEF InFlight
    <3>2. QED
      BY <2>1, <2>5, <2>6, <3>1 DEF WholeInv, SumInv, agentVars
  <2>8. QED
    BY <2>2, <2>3, <2>7 DEF WholeInv
<1>3. CASE Queue(c)
  <2>1. /\ pc[c] = "queueing" /\ pc' = [pc EXCEPT ![c] = "waiting"]
        /\ toAgent' = Append(toAgent, c)
        /\ UNCHANGED <<assemblyVars, result, agentVars, toServer>>
    BY <1>3 DEF Queue, Goto
  <2>2. /\ toAgent \in Seq(Calls) /\ Len(toAgent') = Len(toAgent) + 1 /\ Len(toAgent) \in Nat
        /\ toAgent'[Len(toAgent) + 1] = c
        /\ \A i \in 1..Len(toAgent) : toAgent'[i] = toAgent[i]
    BY <2>1, AppendProperties, LenProperties DEF WholeInv, Types, FramesInv
  <2>3. CallerInv'
    BY <2>1, <2>2 DEF WholeInv, CallerInv, Types, BoundsInv, assemblyVars, agentVars
  <2>4. AgentInv' /\ FinalInv' /\ ReplyInv'
    BY <2>1 DEF WholeInv, AgentInv, FinalInv, ReplyInv, NoFrame, assemblyVars, agentVars
  <2>5. SumInv'
    BY <2>1 DEF WholeInv, SumInv, InFlight, assemblyVars, agentVars
  <2>6. QED
    BY <2>3, <2>4, <2>5 DEF WholeInv
<1>4. CASE Leave(c)
  <2>1. /\ pc[c] = "leaving" /\ pc' = [pc EXCEPT ![c] = "done"]
        /\ pending' = pending \ {c}
        /\ body' = [body EXCEPT ![c] = 0]
        /\ failure' = [failure EXCEPT ![c] = "none"]
        /\ replies' = [replies EXCEPT ![c] = NoReply]
        /\ UNCHANGED <<result, toAgent, agentVars, toServer>>
    BY <1>4 DEF Leave, Goto, Forget
  <2>2. body \in [Calls -> Nat] /\ failure \in [Calls -> Failures] /\ replies \in [Calls -> Replies]
    BY DEF WholeInv, Types, AssemblyInv, AssemblyTypeOK
  <2>3. CallerInv'
    BY <2>1, <2>2 DEF WholeInv, CallerInv, Types, BoundsInv, agentVars
  <2>4. AgentInv' /\ FinalInv'
    BY <2>1, <2>2 DEF WholeInv, AgentInv, FinalInv, NoFrame, agentVars
  <2>5. ReplyInv'
    BY <2>1, <2>2 DEF WholeInv, ReplyInv, NoFrame, NoReply, agentVars
  <2>6. SumInv'
    BY <2>1, <2>2 DEF WholeInv, SumInv, InFlight, agentVars, AssemblyTypeOK, Types, AssemblyInv
  <2>7. QED
    BY <2>3, <2>4, <2>5, <2>6 DEF WholeInv
<1>5. QED
  BY <1>1, <1>2, <1>3, <1>4 DEF Caller


\* The handler's steps that put nothing in the queue: what changes is where the
\* goroutine of c is, its size, its answer, and what was cut short.
LEMMA HandlerMoves ==
    ASSUME WholeInv, Types', NEW c \in Calls,
           UNCHANGED <<assemblyVars, serverVars, toAgent, toServer, relayed>>,
           NEW from \in Stages, NEW to \in Stages, serving[c] = from,
           serving' = [serving EXCEPT ![c] = to],
           from \notin {"none", "done"}, to # "none",
           to \in Early => from \in Early,
           from \in Early \/ size' = size,
           \A d \in Calls \ {c} : size'[d] = size[d] /\ answer'[d] = answer[d],
           to \in Early => size'[c] = size[c],
           to \in {"answering", "refusing"} =>
               answer'[c].id = c /\ answer'[c].type = "final",
           to = "refusing" => answer'[c].err,
           to = "answering" /\ ~answer'[c].err /\ c \notin cut' =>
               relayed'[c] + answer'[c].size = size'[c],
           cut \subseteq cut', cut' \subseteq cut \cup {c}
    PROVE  WholeInv'
<1>1. CallerInv'
  BY DEF WholeInv, CallerInv, Types, FramesInv, assemblyVars, serverVars
<1>2. AgentInv'
  BY DEF WholeInv, AgentInv, NoFrame, Types, FramesInv, Early, assemblyVars
<1>3. FinalInv'
  <2>1. \A i \in 1..Len(toServer) : toServer[i].id \in Calls
    <3>1. toServer \in Seq(Frame)
      BY DEF WholeInv, Types, FramesInv
    <3>2. \A i \in 1..Len(toServer) : toServer[i] \in Frame
      BY <3>1, LenProperties, ElementOfSeq
    <3>3. QED
      BY <3>2 DEF Frame
  <2>2. \A d \in Calls : serving[d] = "done" => d # c /\ serving'[d] = "done" /\ size'[d] = size[d]
    BY DEF WholeInv, Types, FramesInv
  <2>3. QED
    BY <2>1, <2>2 DEF WholeInv, FinalInv
<1>4. ReplyInv'
  <2>1. serving \in [Calls -> Stages] /\ serving[c] # "done"
    BY DEF WholeInv, Types, FramesInv
  <2>2. replies[c] = NoReply /\ replies[c].kind # "body" /\ result[c].kind # "body"
    BY <2>1 DEF WholeInv, ReplyInv, NoReply
  <2>3. \A d \in Calls \ {c} : /\ serving'[d] = serving[d] /\ size'[d] = size[d]
                               /\ d \notin cut' => d \notin cut
    BY <2>1
  <2>4. UNCHANGED <<replies, result, toServer>>
    BY DEF assemblyVars, serverVars
  <2>5. QED
    BY <2>2, <2>3, <2>4 DEF WholeInv, ReplyInv, NoFrame
<1>5. SumInv'
  BY DEF WholeInv, SumInv, InFlight, assemblyVars
<1>6. QED
  BY <1>1, <1>2, <1>3, <1>4, <1>5 DEF WholeInv

\* A frame of c joins the queue: what was there keeps its place.
LEMMA FrameQueued ==
    ASSUME WholeInv, NEW f \in Frame, toServer' = Append(toServer, f)
    PROVE  /\ Len(toServer) \in Nat /\ Len(toServer') = Len(toServer) + 1
           /\ toServer'[Len(toServer) + 1] = f
           /\ \A i \in 1..Len(toServer) : toServer'[i] = toServer[i] /\ toServer[i] \in Frame
           /\ \A d \in Calls : InFlight(d)' = InFlight(d) + Share(f, d)
           /\ \A d \in Calls : InFlight(d) \in Nat
<1>1. toServer \in Seq(Frame)
  BY DEF WholeInv, Types, FramesInv
<1>2. \A d \in Calls : InFlight(d)' = InFlight(d) + Share(f, d)
  BY <1>1, InFlightAppend DEF InFlight
<1>3. \A d \in Calls : InFlight(d) \in Nat
  BY <1>1, PartBytesType, TotalNat DEF InFlight
<1>4. QED
  BY <1>1, <1>2, <1>3, AppendProperties, LenProperties, ElementOfSeq

\* A part leaves the agent: what it relayed grows by what is on its way.
LEMMA SendPartWhole ==
    ASSUME WholeInv, Types', NEW c \in Calls, SendPart(c)
    PROVE  WholeInv'
<1> DEFINE f == PartFrame(c, Slice)
<1>1. f \in Frame /\ f.id = c /\ f.type = "part" /\ f.size = Slice
  BY FramesOfParts, SlicePositive DEF PartFrame
<1>2. /\ serving[c] = "relaying"
      /\ toServer' = Append(toServer, f)
      /\ relayed' = [relayed EXCEPT ![c] = @ + Slice]
      /\ UNCHANGED <<assemblyVars, serverVars, toAgent, serving, size, answer, cut, lost>>
  BY DEF SendPart
<1> HIDE DEF f
<1>3. /\ Len(toServer) \in Nat /\ Len(toServer') = Len(toServer) + 1
      /\ toServer'[Len(toServer) + 1] = f
      /\ \A i \in 1..Len(toServer) : toServer'[i] = toServer[i] /\ toServer[i] \in Frame
      /\ \A d \in Calls : InFlight(d)' = InFlight(d) + Share(f, d)
      /\ \A d \in Calls : InFlight(d) \in Nat
  BY <1>1, <1>2, FrameQueued
<1>4. CallerInv'
  BY <1>2 DEF WholeInv, CallerInv, assemblyVars, serverVars
<1>5. AgentInv'
  BY <1>1, <1>2, <1>3 DEF WholeInv, AgentInv, NoFrame, Types, FramesInv, Early, assemblyVars
<1>6. FinalInv'
  <2> SUFFICES ASSUME NEW i \in 1..Len(toServer'), toServer'[i].type = "final"
               PROVE  /\ serving'[toServer'[i].id] = "done"
                      /\ \A j \in (i + 1)..Len(toServer') : toServer'[j].id # toServer'[i].id
                      /\ ~toServer'[i].err /\ toServer'[i].id \notin cut' =>
                           relayed'[toServer'[i].id] + toServer'[i].size = size'[toServer'[i].id]
    BY DEF FinalInv
  <2>1. i \in 1..Len(toServer)
    BY <1>1, <1>3
  <2>2. /\ toServer'[i] = toServer[i] /\ toServer[i].id \in Calls
        /\ serving[toServer[i].id] = "done" /\ toServer[i].id # c
    BY <2>1, <1>2, <1>3 DEF WholeInv, FinalInv, Frame
  <2>3. \A j \in (i + 1)..Len(toServer') : toServer'[j].id # toServer'[i].id
    BY <2>1, <2>2, <1>1, <1>3 DEF WholeInv, FinalInv
  <2>4. relayed'[toServer[i].id] = relayed[toServer[i].id]
    BY <2>2, <1>2 DEF WholeInv, Types, FramesInv
  <2>5. QED
    BY <2>1, <2>2, <2>3, <2>4, <1>2 DEF WholeInv, FinalInv
<1>7. ReplyInv'
  BY <1>1, <1>2, <1>3 DEF WholeInv, ReplyInv, NoFrame, assemblyVars, serverVars
<1>8. SumInv'
  <2> SUFFICES ASSUME NEW d \in pending', failure'[d] = "none", replies'[d] = NoReply
               PROVE  body'[d] + InFlight(d)' = relayed'[d]
    BY DEF SumInv
  <2>1. d \in Calls /\ body[d] \in Nat /\ relayed[d] \in Nat
    BY <1>2 DEF WholeInv, Types, FramesInv, AssemblyInv, AssemblyTypeOK, assemblyVars
  <2>2. body[d] + InFlight(d) = relayed[d]
    BY <1>2 DEF WholeInv, SumInv, assemblyVars
  <2>3. relayed'[d] = relayed[d] + Share(f, d)
    BY <1>1, <1>2, <2>1, SlicePositive DEF Share, WholeInv, Types, FramesInv
  <2>4. Share(f, d) \in Nat /\ InFlight(d) \in Nat /\ InFlight(d)' = InFlight(d) + Share(f, d)
    BY <1>1, <1>3, <2>1, ShareNat
  <2>5. body'[d] = body[d]
    BY <1>2 DEF assemblyVars
  <2>6. QED
    BY <2>1, <2>2, <2>3, <2>4, <2>5
<1>9. QED
  BY <1>4, <1>5, <1>6, <1>7, <1>8 DEF WholeInv

\* The final frame leaves the agent.
LEMMA SendAnswerWhole ==
    ASSUME WholeInv, Types', NEW c \in Calls, SendAnswer(c)
    PROVE  WholeInv'
<1> DEFINE f == answer[c]
<1>1. /\ serving[c] \in {"answering", "refusing"}
      /\ serving' = [serving EXCEPT ![c] = "done"]
      /\ toServer' = Append(toServer, f)
      /\ UNCHANGED <<assemblyVars, serverVars, toAgent, size, relayed, answer, cut, lost>>
  BY DEF SendAnswer, AgentGoto
<1>2. /\ f \in Frame /\ f.id = c /\ f.type = "final"
      /\ ~f.err /\ c \notin cut => relayed[c] + f.size = size[c]
  BY <1>1 DEF WholeInv, Types, FramesInv, AgentInv
<1>0. /\ serving \in [Calls -> Stages] /\ serving'[c] = "done"
      /\ \A d \in Calls \ {c} : serving'[d] = serving[d]
  BY <1>1 DEF WholeInv, Types, FramesInv
<1> HIDE DEF f
<1>3. /\ Len(toServer) \in Nat /\ Len(toServer') = Len(toServer) + 1
      /\ toServer'[Len(toServer) + 1] = f
      /\ \A i \in 1..Len(toServer) : toServer'[i] = toServer[i] /\ toServer[i] \in Frame
      /\ \A d \in Calls : InFlight(d)' = InFlight(d) + Share(f, d)
      /\ \A d \in Calls : InFlight(d) \in Nat
  BY <1>1, <1>2, FrameQueued
<1>4. CallerInv'
  BY <1>0, <1>1 DEF WholeInv, CallerInv, assemblyVars, serverVars
<1>5. AgentInv'
  BY <1>0, <1>1, <1>2, <1>3 DEF WholeInv, AgentInv, NoFrame, Early, assemblyVars
<1>6. FinalInv'
  <2> SUFFICES ASSUME NEW i \in 1..Len(toServer'), toServer'[i].type = "final"
               PROVE  /\ serving'[toServer'[i].id] = "done"
                      /\ \A j \in (i + 1)..Len(toServer') : toServer'[j].id # toServer'[i].id
                      /\ ~toServer'[i].err /\ toServer'[i].id \notin cut' =>
                           relayed'[toServer'[i].id] + toServer'[i].size = size'[toServer'[i].id]
    BY DEF FinalInv
  <2>1. CASE i = Len(toServer) + 1
    BY <2>1, <1>0, <1>1, <1>2, <1>3
  <2>2. CASE i \in 1..Len(toServer)
    <3>1. /\ toServer'[i] = toServer[i] /\ toServer[i].id \in Calls
          /\ serving[toServer[i].id] = "done" /\ toServer[i].id # c
      BY <2>2, <1>0, <1>1, <1>3 DEF WholeInv, FinalInv, Frame
    <3>2. \A j \in (i + 1)..Len(toServer') : toServer'[j].id # toServer'[i].id
      BY <2>2, <3>1, <1>2, <1>3 DEF WholeInv, FinalInv
    <3>3. QED
      BY <2>2, <3>1, <3>2, <1>0, <1>1 DEF WholeInv, FinalInv
  <2>3. QED
    BY <2>1, <2>2, <1>3
<1>7. ReplyInv'
  BY <1>0, <1>1, <1>2, <1>3 DEF WholeInv, ReplyInv, NoFrame, assemblyVars, serverVars
<1>8. SumInv'
  <2> SUFFICES ASSUME NEW d \in pending', failure'[d] = "none", replies'[d] = NoReply
               PROVE  body'[d] + InFlight(d)' = relayed'[d]
    BY DEF SumInv
  <2>1. d \in Calls
    BY <1>1 DEF WholeInv, Types, AssemblyInv, AssemblyTypeOK, assemblyVars
  <2>2. Share(f, d) = 0 /\ InFlight(d)' = InFlight(d)
    BY <1>2, <1>3, <2>1 DEF Share
  <2>3. QED
    BY <1>1, <2>2 DEF WholeInv, SumInv, assemblyVars
<1>9. QED
  BY <1>4, <1>5, <1>6, <1>7, <1>8 DEF WholeInv

\* The other steps of the agent's goroutine.
LEMMA HandlerWhole ==
    ASSUME WholeInv, Types', NEW c \in Calls, Handler(c)
    PROVE  WholeInv'
<1>0. serving \in [Calls -> Stages] /\ size \in [Calls -> Sizes \cup {NoBody}]
      /\ answer \in [Calls -> Frame]
  BY DEF WholeInv, Types, FramesInv
<1>1. CASE Acquire(c)
  BY <1>0, <1>1, HandlerMoves DEF Acquire, AgentGoto, Stages, Early
<1>2. ASSUME NEW from \in {"acquiring", "calling", "relaying"},
             NEW to \in {"answering", "refusing"}, NEW f \in Frame,
             Settle(c, from, to, f), f.id = c, f.type = "final",
             to = "refusing" => f.err,
             ~f.err /\ c \notin cut' => relayed[c] + f.size = size[c],
             cut' = cut \/ cut' = cut \cup {c}
      PROVE  WholeInv'
  <2>1. /\ serving[c] = from /\ serving' = [serving EXCEPT ![c] = to]
        /\ answer' = [answer EXCEPT ![c] = f]
        /\ UNCHANGED <<assemblyVars, serverVars, toAgent, size, relayed, lost, toServer>>
    BY <1>2 DEF Settle, AgentGoto
  <2>2. answer'[c] = f /\ \A d \in Calls \ {c} : answer'[d] = answer[d]
    BY <2>1, <1>0
  <2>3. from \in Stages /\ to \in Stages /\ to \notin Early
    BY DEF Stages, Early
  <2>4. /\ size' = size /\ relayed' = relayed
        /\ UNCHANGED <<assemblyVars, serverVars, toAgent, toServer, relayed>>
        /\ cut \subseteq cut' /\ cut' \subseteq cut \cup {c}
        /\ from \notin {"none", "done"} /\ to # "none"
    BY <1>2, <2>1
  <2>5. to = "answering" /\ ~answer'[c].err /\ c \notin cut' =>
            relayed'[c] + answer'[c].size = size'[c]
    BY <1>2, <2>2, <2>4
  <2>6. \A d \in Calls \ {c} : size'[d] = size[d] /\ answer'[d] = answer[d]
    BY <2>2, <2>4
  <2>7. answer'[c].id = c /\ answer'[c].type = "final" /\ (to = "refusing" => answer'[c].err)
    BY <1>2, <2>2
  <2>8. QED
    BY <2>1, <2>3, <2>4, <2>5, <2>6, <2>7, HandlerMoves
<1>3. CASE AcquireTimeout(c) \/ CallFails(c) \/ TooLarge(c) \/ RelayFails(c)
  <2>1. ErrorFrame(c) \in Frame /\ ErrorFrame(c).id = c /\ ErrorFrame(c).type = "final"
        /\ ErrorFrame(c).err
    BY FramesOfParts DEF ErrorFrame
  <2>2. cut' = cut
    BY <1>3 DEF AcquireTimeout, CallFails, TooLarge, RelayFails
  <2>3. \/ Settle(c, "acquiring", "refusing", ErrorFrame(c))
        \/ Settle(c, "calling", "answering", ErrorFrame(c))
        \/ Settle(c, "relaying", "answering", ErrorFrame(c))
    BY <1>3 DEF AcquireTimeout, CallFails, TooLarge, RelayFails
  <2>4. QED
    BY <2>1, <2>2, <2>3, <1>2
<1>4. ASSUME NEW n \in Sizes, CallAnswered(c, n)
      PROVE  WholeInv'
  <2>1. /\ serving[c] = "calling" /\ serving' = [serving EXCEPT ![c] = "relaying"]
        /\ size' = [size EXCEPT ![c] = n]
        /\ UNCHANGED <<assemblyVars, serverVars, toAgent, relayed, answer, cut, lost, toServer>>
    BY <1>4 DEF CallAnswered, AgentGoto
  <2>2. QED
    BY <1>0, <2>1, HandlerMoves DEF Stages, Early
<1>5. CASE SendPart(c)
  BY <1>5, SendPartWhole
<1>6. CASE BodyCut(c)
  <2>1. PICK n \in 0..Slice - 1 : Settle(c, "relaying", "answering", FinalFrame(c, n))
    BY <1>6 DEF BodyCut
  <2>2. FinalFrame(c, n) \in Frame /\ FinalFrame(c, n).id = c /\ FinalFrame(c, n).type = "final"
    BY FramesOfParts, SlicePositive, BoundsNat DEF FinalFrame
  <2>3. cut' = cut \cup {c}
    BY <1>6 DEF BodyCut
  <2>4. QED
    BY <2>1, <2>2, <2>3, <1>2
<1>7. CASE EndOfBody(c)
  <2>1. /\ Settle(c, "relaying", "answering", FinalFrame(c, NextSlice(c)))
        /\ NextSlice(c) < Slice /\ cut' = cut /\ serving[c] = "relaying"
    BY <1>7 DEF EndOfBody, Settle, AgentGoto
  <2>2. NextSlice(c) \in 0..Slice
    BY <2>1, NextSliceBounded DEF WholeInv, Types
  <2>3. /\ FinalFrame(c, NextSlice(c)) \in Frame /\ FinalFrame(c, NextSlice(c)).id = c
        /\ FinalFrame(c, NextSlice(c)).type = "final"
        /\ FinalFrame(c, NextSlice(c)).size = NextSlice(c)
    BY <2>2, FramesOfParts DEF FinalFrame
  <2>4. relayed[c] \in Nat /\ size[c] \in Nat
    BY <2>1 DEF WholeInv, Types, FramesInv
  <2>5. relayed[c] + NextSlice(c) = size[c]
    BY <2>1, <2>4, SlicePositive DEF NextSlice
  <2>6. QED
    BY <2>1, <2>3, <2>5, <1>2
<1>8. CASE SendAnswer(c)
  BY <1>8, SendAnswerWhole
<1>9. CASE LoseAnswer(c)
  <2>1. /\ serving[c] \in {"answering", "refusing"} /\ serving' = [serving EXCEPT ![c] = "done"]
        /\ UNCHANGED <<assemblyVars, serverVars, toAgent, size, relayed, answer, cut, toServer>>
    BY <1>9 DEF LoseAnswer, AgentGoto
  <2>2. QED
    BY <1>0, <2>1, HandlerMoves DEF Stages, Early
<1>10. QED
  BY <1>1, <1>3, <1>4, <1>5, <1>6, <1>7, <1>8, <1>9 DEF Handler


\* The agent takes a request from its queue.
LEMMA ReceiveWhole ==
    ASSUME WholeInv, Types', AgentReceive
    PROVE  WholeInv'
<1> DEFINE c == Head(toAgent)
<1>1. /\ serving[c] = "none" /\ serving' = [serving EXCEPT ![c] = "acquiring"]
      /\ toAgent # <<>> /\ toAgent' = Tail(toAgent)
      /\ UNCHANGED <<assemblyVars, serverVars, size, relayed, answer, cut, lost, toServer>>
  BY DEF AgentReceive, AgentGoto
<1>2. /\ toAgent \in Seq(Calls) /\ c \in Calls /\ c = toAgent[1]
      /\ Len(toAgent) \in Nat \ {0} /\ Len(toAgent') = Len(toAgent) - 1
      /\ \A i \in 1..Len(toAgent') : toAgent'[i] = toAgent[i + 1]
  <2>1. toAgent \in Seq(Calls)
    BY DEF WholeInv, Types, FramesInv
  <2>2. QED
    BY <1>1, <2>1, HeadTailProperties, LenProperties, EmptySeq
<1> HIDE DEF c
<1>3. serving \in [Calls -> Stages] /\ serving'[c] = "acquiring"
      /\ \A d \in Calls \ {c} : serving'[d] = serving[d]
  BY <1>1, <1>2 DEF WholeInv, Types, FramesInv
<1>4. CallerInv'
  BY <1>1, <1>2, <1>3 DEF WholeInv, CallerInv, assemblyVars, serverVars
<1>5. AgentInv'
  BY <1>1, <1>2, <1>3 DEF WholeInv, AgentInv, NoFrame, Early, assemblyVars
<1>6. FinalInv'
  <2>1. \A i \in 1..Len(toServer) : toServer[i].id \in Calls
    <3>1. toServer \in Seq(Frame)
      BY DEF WholeInv, Types, FramesInv
    <3>2. \A i \in 1..Len(toServer) : toServer[i] \in Frame
      BY <3>1, LenProperties, ElementOfSeq
    <3>3. QED
      BY <3>2 DEF Frame
  <2>2. \A d \in Calls : serving[d] = "done" => serving'[d] = "done"
    BY <1>1, <1>3
  <2>3. QED
    BY <1>1, <2>1, <2>2 DEF WholeInv, FinalInv
<1>7. ReplyInv'
  BY <1>1, <1>3 DEF WholeInv, ReplyInv, NoFrame, assemblyVars, serverVars
<1>8. SumInv'
  BY <1>1 DEF WholeInv, SumInv, InFlight, assemblyVars
<1>9. QED
  BY <1>4, <1>5, <1>6, <1>7, <1>8 DEF WholeInv

\* The frame at the head leaves the queue: what was behind it moves up.
LEMMA FrameRead ==
    ASSUME WholeInv, toServer # <<>>, toServer' = Tail(toServer)
    PROVE  /\ Len(toServer) \in Nat \ {0} /\ Len(toServer') = Len(toServer) - 1
           /\ Head(toServer) = toServer[1] /\ Head(toServer) \in Frame
           /\ \A i \in 1..Len(toServer') : toServer'[i] = toServer[i + 1]
           /\ \A i \in 1..Len(toServer) : toServer[i] \in Frame
           /\ \A d \in Calls : InFlight(d) = Share(Head(toServer), d) + InFlight(d)'
           /\ \A d \in Calls : InFlight(d)' \in Nat
<1>1. toServer \in Seq(Frame)
  BY DEF WholeInv, Types, FramesInv
<1>2. toServer' \in Seq(Frame)
  BY <1>1, HeadTailProperties
<1>3. \A d \in Calls : InFlight(d) = Share(Head(toServer), d) + InFlight(d)'
  BY <1>1, InFlightTail DEF InFlight
<1>4. \A d \in Calls : InFlight(d)' \in Nat
  BY <1>2, PartBytesType, TotalNat DEF InFlight
<1>5. QED
  BY <1>1, <1>3, <1>4, HeadTailProperties, LenProperties, ElementOfSeq, EmptySeq

\* A frame that is read leaves the others in order.
LEMMA ReadFinals ==
    ASSUME WholeInv, toServer # <<>>, toServer' = Tail(toServer), UNCHANGED agentVars
    PROVE  FinalInv'
<1>1. /\ Len(toServer) \in Nat \ {0} /\ Len(toServer') = Len(toServer) - 1
      /\ \A i \in 1..Len(toServer') : toServer'[i] = toServer[i + 1]
  BY FrameRead
<1> SUFFICES ASSUME NEW i \in 1..Len(toServer'), toServer'[i].type = "final"
             PROVE  /\ serving'[toServer'[i].id] = "done"
                    /\ \A j \in (i + 1)..Len(toServer') : toServer'[j].id # toServer'[i].id
                    /\ ~toServer'[i].err /\ toServer'[i].id \notin cut' =>
                         relayed'[toServer'[i].id] + toServer'[i].size = size'[toServer'[i].id]
  BY DEF FinalInv
<1>2. i + 1 \in 1..Len(toServer) /\ toServer'[i] = toServer[i + 1]
  BY <1>1
<1>3. \A j \in (i + 1)..Len(toServer') :
         j + 1 \in (i + 2)..Len(toServer) /\ toServer'[j] = toServer[j + 1]
  BY <1>1
<1>4. \A j \in (i + 2)..Len(toServer) : toServer[j].id # toServer[i + 1].id
  BY <1>2 DEF WholeInv, FinalInv
<1>5. \A j \in (i + 1)..Len(toServer') : toServer'[j].id # toServer'[i].id
  BY <1>2, <1>3, <1>4
<1>6. QED
  BY <1>2, <1>5 DEF WholeInv, FinalInv, agentVars

\* A part is read: what is assembled grows by what was on its way.
LEMMA ReadPartWhole ==
    ASSUME WholeInv, Types', ReadFrame, Head(toServer).type = "part"
    PROVE  WholeInv'
<1> DEFINE f == Head(toServer)
           c == f.id
<1>1. /\ toServer # <<>> /\ toServer' = Tail(toServer)
      /\ AddPart(c, f.size)
      /\ UNCHANGED <<serverVars, toAgent, agentVars>>
  BY DEF ReadFrame
<1>2. /\ Len(toServer) \in Nat \ {0} /\ Len(toServer') = Len(toServer) - 1
      /\ f = toServer[1] /\ f \in Frame
      /\ \A i \in 1..Len(toServer') : toServer'[i] = toServer[i + 1]
      /\ \A d \in Calls : InFlight(d) = Share(f, d) + InFlight(d)'
      /\ \A d \in Calls : InFlight(d)' \in Nat
  BY <1>1, FrameRead
<1>3. c \in Calls /\ f.size \in Nat /\ f.type = "part"
  BY <1>2, BoundsNat DEF Frame
<1>4. body \in [Calls -> Nat] /\ failure \in [Calls -> Failures] /\ relayed \in [Calls -> Nat]
      /\ pending \subseteq Calls
  BY DEF WholeInv, Types, FramesInv, AssemblyInv, AssemblyTypeOK
<1>5. UNCHANGED <<issued, pending, replies>>
  BY <1>1 DEF AddPart
<1>6. /\ \A d \in Calls \ {c} : body'[d] = body[d] /\ failure'[d] = failure[d]
      /\ \/ body'[c] = body[c] /\ failure'[c] = failure[c] /\ ~Collecting(c)
         \/ failure'[c] # "none" /\ c \in pending
         \/ /\ body'[c] = body[c] + f.size /\ failure'[c] = failure[c]
            /\ c \in pending
  BY <1>1, <1>3, <1>4 DEF AddPart, FailCall, Collecting
<1> HIDE DEF f, c
<1>7. CallerInv'
  BY <1>1, <1>3, <1>5, <1>6 DEF WholeInv, CallerInv, serverVars, agentVars, Collecting
<1>8. \A d \in Calls : NoFrame(d) => NoFrame(d)'
  BY <1>2 DEF NoFrame
<1>9. AgentInv' /\ ReplyInv'
  BY <1>1, <1>5, <1>8 DEF WholeInv, AgentInv, ReplyInv, serverVars, agentVars
<1>10. FinalInv'
  BY <1>1, ReadFinals
<1>11. SumInv'
  <2> SUFFICES ASSUME NEW d \in pending', failure'[d] = "none", replies'[d] = NoReply
               PROVE  body'[d] + InFlight(d)' = relayed'[d]
    BY DEF SumInv
  <2>1. d \in pending /\ d \in Calls /\ replies[d] = NoReply /\ relayed'[d] = relayed[d]
    BY <1>1, <1>4, <1>5 DEF agentVars
  <2>2. failure[d] = "none" => body[d] + InFlight(d) = relayed[d]
    BY <2>1 DEF WholeInv, SumInv
  <2>3. InFlight(d) = Share(f, d) + InFlight(d)' /\ InFlight(d)' \in Nat
    BY <1>2, <2>1
  <2>4. CASE d = c
    <3>1. body'[d] = body[d] + f.size /\ failure[d] = "none"
      BY <2>1, <2>4, <1>6 DEF Collecting
    <3>2. Share(f, d) = f.size
      BY <2>4, <1>3 DEF Share, c
    <3>3. QED
      BY <2>1, <2>2, <2>3, <3>1, <3>2, <1>3, <1>4
  <2>5. CASE d # c
    <3>1. body'[d] = body[d] /\ failure[d] = "none" /\ Share(f, d) = 0
      BY <2>1, <2>5, <1>6 DEF Share, c
    <3>2. QED
      BY <2>1, <2>2, <2>3, <3>1, <1>4
  <2>6. QED
    BY <2>4, <2>5
<1>12. QED
  BY <1>7, <1>9, <1>10, <1>11 DEF WholeInv

\* What a call's final frame finds when it is read: nothing of the body is behind
\* it, so what has been assembled and what it carries are the body.
LEMMA ReadFinalWhole ==
    ASSUME WholeInv, Types', ReadFrame, Head(toServer).type = "final"
    PROVE  WholeInv'
<1>0. PICK f : f = Head(toServer)
  OBVIOUS
<1> DEFINE c == f.id
<1>1. /\ toServer # <<>> /\ toServer' = Tail(toServer)
      /\ Complete(c, f.size, f.err)
      /\ UNCHANGED <<serverVars, toAgent, agentVars>>
  BY <1>0 DEF ReadFrame
<1>2. /\ Len(toServer) \in Nat \ {0} /\ Len(toServer') = Len(toServer) - 1
      /\ f = toServer[1] /\ f \in Frame
      /\ \A i \in 1..Len(toServer') : toServer'[i] = toServer[i + 1]
      /\ \A i \in 1..Len(toServer) : toServer[i] \in Frame
      /\ \A d \in Calls : InFlight(d) = Share(f, d) + InFlight(d)'
      /\ \A d \in Calls : InFlight(d)' \in Nat
  BY <1>0, <1>1, FrameRead
<1>3. c \in Calls /\ f.size \in Nat /\ f.type = "final" /\ f.err \in BOOLEAN
  BY <1>0, <1>2, BoundsNat DEF Frame
<1>4. /\ body \in [Calls -> Nat] /\ failure \in [Calls -> Failures] /\ relayed \in [Calls -> Nat]
      /\ pending \subseteq Calls /\ replies \in [Calls -> Replies]
  BY DEF WholeInv, Types, FramesInv, AssemblyInv, AssemblyTypeOK
<1>5. UNCHANGED <<issued, pending>>
  BY <1>1 DEF Complete
<1>6. /\ \A d \in Calls \ {c} : /\ body'[d] = body[d] /\ failure'[d] = failure[d]
                                /\ replies'[d] = replies[d]
      /\ \/ /\ c \notin pending
            /\ body'[c] = body[c] /\ failure'[c] = failure[c] /\ replies'[c] = replies[c]
         \/ /\ c \in pending
            /\ replies'[c] = IF replies[c] = NoReply THEN Answer(c, f.size, f.err) ELSE replies[c]
  BY <1>1, <1>3, <1>4 DEF Complete
<1>7. /\ serving[c] = "done"
      /\ \A j \in 2..Len(toServer) : toServer[j].id # c
      /\ ~f.err /\ c \notin cut => relayed[c] + f.size = size[c]
  BY <1>2, <1>3 DEF WholeInv, FinalInv
<1>8. NoFrame(c)' /\ ~NoFrame(c)
  <2>1. ~NoFrame(c)
    BY <1>2 DEF NoFrame
  <2>2. ASSUME NEW i \in 1..Len(toServer') PROVE toServer'[i].id # c
    <3>1. i + 1 \in 2..Len(toServer) /\ toServer'[i] = toServer[i + 1]
      BY <1>2
    <3> HIDE DEF c
    <3>2. QED
      BY <3>1, <1>7
  <2> HIDE DEF c
  <2>3. QED
    BY <2>1, <2>2 DEF NoFrame
<1>9. replies[c] = NoReply
  BY <1>3, <1>8 DEF WholeInv, ReplyInv
<1>10. InFlight(c)' = 0 /\ Share(f, c) = 0 /\ InFlight(c) = 0
  <2>1. toServer' \in Seq(Frame)
    BY DEF Types, FramesInv
  <2>2. \A i \in 1..Len(toServer') : Share(toServer'[i], c) = 0
    BY <1>8 DEF Share, NoFrame
  <2>3. InFlight(c)' = 0
    <3> HIDE DEF c
    <3>1. QED
      BY <1>3, <2>1, <2>2, InFlightNone DEF InFlight
  <2>4. Share(f, c) = 0
    BY <1>3 DEF Share
  <2>5. QED
    BY <1>2, <1>3, <2>3, <2>4
<1> HIDE DEF c
<1>11. CallerInv'
  BY <1>1, <1>3, <1>5, <1>6 DEF WholeInv, CallerInv, serverVars, agentVars
<1>12. \A d \in Calls : NoFrame(d) => NoFrame(d)'
  BY <1>2 DEF NoFrame
<1>13. AgentInv'
  BY <1>1, <1>6, <1>7, <1>12 DEF WholeInv, AgentInv, agentVars, Early
<1>14. c \in pending /\ replies'[c].kind = "body" /\ c \notin cut => replies'[c].size = size[c]
  <2> SUFFICES ASSUME c \in pending, replies'[c].kind = "body", c \notin cut
               PROVE  replies'[c].size = size[c]
    OBVIOUS
  <2>1. replies'[c] = Answer(c, f.size, f.err)
    BY <1>6, <1>9
  <2>2. ~f.err /\ failure[c] = "none" /\ replies'[c] = BodyReply(body[c] + f.size)
    BY <1>3, <1>4, <2>1 DEF Answer, ErrorReply, Failures
  <2>3. body[c] + InFlight(c) = relayed[c]
    BY <2>2, <1>9 DEF WholeInv, SumInv
  <2>4. body[c] = relayed[c]
    BY <2>3, <1>10, <1>3, <1>4
  <2>5. QED
    BY <2>2, <2>4, <1>7 DEF BodyReply
<1>15. ReplyInv'
  <2>1. \A d \in Calls \ {c} : replies'[d] = replies[d]
    BY <1>6
  <2>2. c \notin pending => replies'[c] = NoReply /\ NoReply.kind # "body"
    BY <1>6, <1>9 DEF NoReply
  <2>3. UNCHANGED <<result, serving, size, cut>>
    BY <1>1 DEF serverVars, agentVars
  <2>4. QED
    BY <1>3, <1>7, <1>8, <1>12, <1>14, <2>1, <2>2, <2>3 DEF WholeInv, ReplyInv
<1>16. FinalInv'
  BY <1>1, ReadFinals
<1>17. SumInv'
  <2> SUFFICES ASSUME NEW d \in pending', failure'[d] = "none", replies'[d] = NoReply
               PROVE  body'[d] + InFlight(d)' = relayed'[d]
    BY DEF SumInv
  <2>1. d \in pending /\ d \in Calls /\ relayed'[d] = relayed[d]
    BY <1>1, <1>4, <1>5 DEF agentVars
  <2>2. d # c
    <3>1. Answer(c, f.size, f.err) # NoReply
      BY <1>3, <1>4 DEF Answer, ErrorReply, BodyReply, NoReply, Failures
    <3>2. QED
      BY <2>1, <3>1, <1>6, <1>9
  <2>3. body'[d] = body[d] /\ failure[d] = "none" /\ replies[d] = NoReply /\ Share(f, d) = 0
    BY <2>1, <2>2, <1>6 DEF Share, c
  <2>4. body[d] + InFlight(d) = relayed[d]
    BY <2>1, <2>3 DEF WholeInv, SumInv
  <2>5. InFlight(d) = Share(f, d) + InFlight(d)' /\ InFlight(d)' \in Nat
    BY <1>2, <2>1
  <2>6. QED
    BY <2>1, <2>3, <2>4, <2>5
<1>18. QED
  BY <1>11, <1>13, <1>15, <1>16, <1>17 DEF WholeInv

\* Every step keeps WholeInv.
LEMMA WholeStep ==
    ASSUME WholeInv, [CallsNext]_callVars
    PROVE  WholeInv'
<1>1. Types'
  BY TypesStep DEF WholeInv
<1>2. CASE CloseTunnel \/ StopReading \/ UNCHANGED callVars
  <2>1. UNCHANGED <<assemblyVars, pc, result, toAgent, agentVars, toServer>>
    BY <1>2 DEF CloseTunnel, StopReading, callVars, serverVars
  <2>2. QED
    BY <1>1, <2>1 DEF WholeInv, CallerInv, AgentInv, FinalInv, ReplyInv, SumInv, NoFrame,
                      InFlight, assemblyVars, agentVars
<1>3. CASE ReadFrame
  <2>1. Head(toServer).type \in {"part", "final"}
    BY <1>3 DEF ReadFrame
  <2>2. QED
    BY <1>1, <1>3, <2>1, ReadPartWhole, ReadFinalWhole
<1>4. QED
  BY <1>1, <1>2, <1>3, CallerWhole, HandlerWhole, ReceiveWhole DEF CallsNext

\* So it always holds.
LEMMA WholeAlways == CallsSpec => []WholeInv
BY WholeInit, WholeStep, PTL DEF CallsSpec

\* Whatever fails between the agent's reader and the caller, a caller that gets a
\* body gets all the API server produced, unless the API server's own connection
\* was lost under the agent's reader: for any number of calls, any body lengths
\* and any limits.
THEOREM BodiesWhole == CallsSpec => []WholeBodies
<1>1. WholeInv => WholeBodies
  BY DEF WholeInv, ReplyInv, WholeBodies, IsWhole
<1>2. QED
  BY <1>1, WholeAlways, PTL


-----------------------------------------------------------------------------
\* The refinement mapping of Contract, by name.
PhaseBar == [c \in Calls |->
                CASE pc[c] = "idle" -> "idle"
                  [] pc[c] \in {"leaving", "done"} -> "returned"
                  [] OTHER -> "asked"]

ProducedBar == [c \in Calls |-> IF size[c] = NoBody THEN -2 ELSE size[c]]

OutcomeBar == [c \in Calls |->
                  CASE result[c] = NoReply -> -2
                    [] result[c].kind = "body" -> result[c].size
                    [] OTHER -> -1]

\* A step the contract does not see.
ContractUnchanged == UNCHANGED <<PhaseBar, ProducedBar, OutcomeBar>>

\* A function that differs at one point is an EXCEPT.
LEMMA ExceptAt ==
    ASSUME NEW S, NEW f, NEW g, NEW c \in S, NEW v,
           f = [d \in S |-> f[d]], g = [d \in S |-> g[d]],
           g[c] = v, \A d \in S \ {c} : g[d] = f[d]
    PROVE  g = [f EXCEPT ![c] = v]
OBVIOUS

\* Such a step leaves the contract's variables alone.
LEMMA NothingSeen ==
    ASSUME ContractUnchanged
    PROVE  UNCHANGED Contract!contractVars
BY DEF ContractUnchanged, Contract!contractVars, PhaseBar, ProducedBar, OutcomeBar

\* The initial states map to the contract's.
LEMMA ContractStarts == CallsInit => Contract!ContractInit
<1> SUFFICES ASSUME CallsInit PROVE Contract!ContractInit
  OBVIOUS
<1>1. PhaseBar = [c \in Calls |-> "idle"]
  BY DEF CallsInit, PhaseBar
<1>2. ProducedBar = [c \in Calls |-> -2]
  BY DEF CallsInit, ProducedBar
<1>3. OutcomeBar = [c \in Calls |-> -2]
  <2>1. \A c \in Calls : result[c] = NoReply
    BY DEF CallsInit
  <2>2. \A c \in Calls : OutcomeBar[c] = -2
    BY <2>1 DEF OutcomeBar, NoReply
  <2>3. OutcomeBar = [c \in Calls |-> OutcomeBar[c]]
    BY DEF OutcomeBar
  <2> QED
    BY <2>2, <2>3
<1>4. QED
  BY <1>1, <1>2, <1>3 DEF Contract!ContractInit, Contract!Unknown, PhaseBar, ProducedBar, OutcomeBar

\* A caller that returns o.
LEMMA ReturnsError ==
    ASSUME Types, NEW c \in Calls,
           pc[c] \in {"idle", "queueing", "waiting"},
           NEW to \in {"leaving", "done"}, pc' = [pc EXCEPT ![c] = to],
           NEW o, o # NoReply, o.kind # "body",
           result' = [result EXCEPT ![c] = o], UNCHANGED size
    PROVE  Contract!ContractNext
<1>1. pc \in [Calls -> {"idle", "filing", "queueing", "waiting", "leaving", "done"}]
      /\ result \in [Calls -> Outcomes]
  BY DEF Types, BoundsInv
<1>2. PhaseBar[c] # "returned" /\ PhaseBar' = [PhaseBar EXCEPT ![c] = "returned"]
  BY <1>1 DEF PhaseBar
<1>3. OutcomeBar' = [OutcomeBar EXCEPT ![c] = -1]
  <2>1. result'[c] = o /\ \A d \in Calls \ {c} : result'[d] = result[d]
    BY <1>1
  <2>2. OutcomeBar'[c] = -1
    BY <2>1 DEF OutcomeBar
  <2>3. \A d \in Calls \ {c} : OutcomeBar'[d] = OutcomeBar[d]
    BY <2>1 DEF OutcomeBar
  <2>4. /\ OutcomeBar = [d \in Calls |-> OutcomeBar[d]]
        /\ OutcomeBar' = [d \in Calls |-> OutcomeBar'[d]]
    BY DEF OutcomeBar
  <2>5. QED
    BY <2>2, <2>3, <2>4, ExceptAt
<1>4. UNCHANGED ProducedBar
  BY DEF ProducedBar
<1>5. Contract!ReturnError(c)
  BY <1>2, <1>3, <1>4 DEF Contract!ReturnError, Contract!Failed, PhaseBar, OutcomeBar, ProducedBar
<1>6. QED
  BY <1>5 DEF Contract!ContractNext

\* A caller that takes a body returns what its API server produced.
LEMMA TakesBody ==
    ASSUME WholeInv, NEW c \in Calls, TakeReply(c), replies[c].kind = "body", c \notin cut
    PROVE  Contract!ContractNext
<1>1. /\ pc \in [Calls -> {"idle", "filing", "queueing", "waiting", "leaving", "done"}]
      /\ result \in [Calls -> Outcomes] /\ replies[c] \in Replies
  BY DEF WholeInv, Types, BoundsInv, AssemblyInv, AssemblyTypeOK
<1>2. /\ pc[c] = "waiting" /\ pc' = [pc EXCEPT ![c] = "leaving"]
      /\ result' = [result EXCEPT ![c] = replies[c]] /\ replies[c] # NoReply
      /\ UNCHANGED size
  BY DEF TakeReply, Finish, Goto, agentVars
<1>3. replies[c].size = size[c] /\ size[c] \in Nat
  BY <1>1 DEF WholeInv, ReplyInv, Replies
<1>4. PhaseBar[c] = "asked" /\ PhaseBar' = [PhaseBar EXCEPT ![c] = "returned"]
  BY <1>1, <1>2 DEF PhaseBar
<1>5. UNCHANGED ProducedBar /\ ProducedBar[c] = size[c] /\ ProducedBar[c] # -2
  BY <1>2, <1>3 DEF ProducedBar, NoBody
<1>6. OutcomeBar' = [OutcomeBar EXCEPT ![c] = ProducedBar[c]]
  <2>1. result'[c] = replies[c] /\ \A d \in Calls \ {c} : result'[d] = result[d]
    BY <1>1, <1>2
  <2>2. OutcomeBar'[c] = ProducedBar[c]
    BY <2>1, <1>2, <1>3, <1>5 DEF OutcomeBar
  <2>3. \A d \in Calls \ {c} : OutcomeBar'[d] = OutcomeBar[d]
    BY <2>1 DEF OutcomeBar
  <2>4. /\ OutcomeBar = [d \in Calls |-> OutcomeBar[d]]
        /\ OutcomeBar' = [d \in Calls |-> OutcomeBar'[d]]
    BY DEF OutcomeBar
  <2>5. QED
    BY <2>2, <2>3, <2>4, ExceptAt
<1>7. Contract!ReturnBody(c)
  BY <1>4, <1>5, <1>6 DEF Contract!ReturnBody, Contract!Unknown, PhaseBar, OutcomeBar, ProducedBar
<1>8. QED
  BY <1>7 DEF Contract!ContractNext

\* A caller's step is one of the contract's or is not seen.
LEMMA CallerKeepsContract ==
    ASSUME WholeInv, cut = {}, NEW c \in Calls, Caller(c)
    PROVE  Contract!ContractNext \/ ContractUnchanged
<1>0. /\ pc \in [Calls -> {"idle", "filing", "queueing", "waiting", "leaving", "done"}]
      /\ result \in [Calls -> Outcomes]
  BY DEF WholeInv, Types, BoundsInv
<1>1. CASE Enter(c) /\ ~closed
  <2>1. /\ pc[c] = "idle" /\ pc' = [pc EXCEPT ![c] = "filing"] /\ UNCHANGED <<size, result>>
    BY <1>1 DEF Enter, Finish, Goto, agentVars
  <2>2. PhaseBar[c] = "idle" /\ PhaseBar' = [PhaseBar EXCEPT ![c] = "asked"]
    BY <1>0, <2>1 DEF PhaseBar
  <2>3. UNCHANGED <<ProducedBar, OutcomeBar>>
    BY <2>1 DEF ProducedBar, OutcomeBar
  <2>4. Contract!Ask(c)
    BY <2>2, <2>3 DEF Contract!Ask, PhaseBar, ProducedBar, OutcomeBar
  <2>5. QED
    BY <2>4 DEF Contract!ContractNext
<1>2. CASE \/ Enter(c) /\ closed
           \/ QueueBacklog(c) \/ SeeClosed(c) \/ Expire(c)
  <2>1. /\ \E to \in {"leaving", "done"}, k \in {"closed", "backlog", "expired"} :
              /\ pc' = [pc EXCEPT ![c] = to]
              /\ result' = [result EXCEPT ![c] = Outcome(k)]
        /\ pc[c] \in {"idle", "queueing", "waiting"}
        /\ UNCHANGED size
    BY <1>2 DEF Enter, QueueBacklog, SeeClosed, Expire, Finish, Goto, agentVars
  <2>2. \A k \in {"closed", "backlog", "expired"} :
           Outcome(k) # NoReply /\ Outcome(k).kind # "body"
    BY DEF Outcome, NoReply
  <2>3. QED
    BY <2>1, <2>2, ReturnsError DEF WholeInv
<1>3. CASE File(c) \/ Queue(c) \/ Leave(c)
  <2>1. UNCHANGED <<size, result>> /\ \/ pc[c] \in {"filing", "queueing"} /\ pc' = [pc EXCEPT ![c] = "queueing"]
                                      \/ pc[c] = "queueing" /\ pc' = [pc EXCEPT ![c] = "waiting"]
                                      \/ pc[c] = "leaving" /\ pc' = [pc EXCEPT ![c] = "done"]
    BY <1>3 DEF File, Queue, Leave, Goto, agentVars
  <2>2. UNCHANGED PhaseBar
    BY <1>0, <2>1 DEF PhaseBar
  <2>3. QED
    BY <2>1, <2>2 DEF ContractUnchanged, ProducedBar, OutcomeBar
<1>4. CASE TakeReply(c)
  <2>1. CASE replies[c].kind = "body"
    BY <1>4, <2>1, TakesBody
  <2>2. CASE replies[c].kind # "body"
    <3>1. /\ pc[c] = "waiting" /\ pc' = [pc EXCEPT ![c] = "leaving"]
          /\ result' = [result EXCEPT ![c] = replies[c]] /\ replies[c] # NoReply
          /\ UNCHANGED size
      BY <1>4 DEF TakeReply, Finish, Goto, agentVars
    <3>2. QED
      BY <3>1, <2>2, ReturnsError DEF WholeInv
  <2>3. QED
    BY <2>1, <2>2
<1>5. QED
  BY <1>1, <1>2, <1>3, <1>4 DEF Caller

\* So is a step of the agent's goroutine,
LEMMA HandlerKeepsContract ==
    ASSUME WholeInv, NEW c \in Calls, Handler(c)
    PROVE  Contract!ContractNext \/ ContractUnchanged
<1>0. UNCHANGED <<pc, result>>
  BY DEF Handler, Acquire, AcquireTimeout, CallFails, CallAnswered, TooLarge, SendPart,
         RelayFails, BodyCut, EndOfBody, SendAnswer, LoseAnswer, Settle, serverVars
<1>1. ASSUME NEW n \in Sizes, CallAnswered(c, n)
      PROVE  Contract!ContractNext
  <2>1. /\ serving[c] = "calling" /\ size' = [size EXCEPT ![c] = n]
    BY <1>1 DEF CallAnswered, AgentGoto
  <2>2. n \in Nat /\ size[c] = NoBody /\ pc[c] # "idle" /\ size \in [Calls -> Sizes \cup {NoBody}]
    BY <2>1, AgentBoundsNat DEF WholeInv, CallerInv, AgentInv, Early, Types, FramesInv
  <2>3. PhaseBar[c] # "idle" /\ ProducedBar[c] = -2
    BY <2>2 DEF PhaseBar, ProducedBar
  <2>4. ProducedBar' = [ProducedBar EXCEPT ![c] = n]
    <3>1. size'[c] = n /\ n # NoBody /\ \A d \in Calls \ {c} : size'[d] = size[d]
      BY <2>1, <2>2 DEF NoBody
    <3>2. ProducedBar'[c] = n /\ \A d \in Calls \ {c} : ProducedBar'[d] = ProducedBar[d]
      BY <3>1 DEF ProducedBar
    <3>3. QED
      BY <3>2 DEF ProducedBar
  <2>5. UNCHANGED <<PhaseBar, OutcomeBar>>
    BY <1>0 DEF PhaseBar, OutcomeBar
  <2>6. Contract!Produce(c, n)
    BY <2>3, <2>4, <2>5 DEF Contract!Produce, Contract!Unknown, PhaseBar, ProducedBar, OutcomeBar
  <2>7. QED
    BY <2>6 DEF Contract!ContractNext
<1>2. CASE ~\E n \in Sizes : CallAnswered(c, n)
  <2>1. UNCHANGED size
    BY <1>2 DEF Handler, Acquire, AcquireTimeout, CallFails, TooLarge, SendPart,
         RelayFails, BodyCut, EndOfBody, SendAnswer, LoseAnswer, Settle
  <2>2. QED
    BY <1>0, <2>1 DEF ContractUnchanged, PhaseBar, ProducedBar, OutcomeBar
<1>3. QED
  BY <1>1, <1>2

\* and so is every step.
LEMMA StepKeepsContract ==
    ASSUME WholeInv, cut = {}, [CallsNext]_callVars
    PROVE  [Contract!ContractNext]_(Contract!contractVars)
<1>1. CASE AgentReceive \/ ReadFrame \/ CloseTunnel \/ StopReading \/ UNCHANGED callVars
  <2>1. UNCHANGED <<pc, result, size>>
    BY <1>1 DEF AgentReceive, ReadFrame, CloseTunnel, StopReading, callVars, serverVars, agentVars
  <2>2. QED
    BY <2>1, NothingSeen DEF ContractUnchanged, PhaseBar, ProducedBar, OutcomeBar
<1>2. QED
  BY <1>1, CallerKeepsContract, HandlerKeepsContract, NothingSeen DEF CallsNext

\* While the API server's connections hold, every step of the callers, the agent
\* and the queues is one of the contract's or none that it sees: a call returns at
\* most once, with an error or with the body the API server produced for it.
THEOREM CallsKeepContract == CallsSpec /\ [](cut = {}) => Contract!ContractSafety
<1>1. CallsInit => Contract!ContractInit
  BY ContractStarts
<1>2. WholeInv /\ cut = {} /\ [CallsNext]_callVars => [Contract!ContractNext]_(Contract!contractVars)
  BY StepKeepsContract
<1>3. QED
  BY <1>1, <1>2, WholeAlways, PTL DEF CallsSpec, Contract!ContractSafety

-----------------------------------------------------------------------------
(* An agent that keeps its limits is not refused. *)

\* Among the first i frames of s is one of this kind for c.
Seen(s, c, kind, i) == \E j \in 1..i : s[j].id = c /\ s[j].type = kind

\* The calls with bytes in the table or in the first i frames, whose final frame comes later.
Bearing(i) ==
    {c \in Calls : /\ body[c] > 0 \/ Seen(toServer, c, "part", i)
                   /\ ~Seen(toServer, c, "final", i)}

\* An agent relays no more than its cap.
CapInv ==
    \A c \in Calls :
        /\ relayed[c] <= AgentCap
        /\ serving[c] \in {"answering", "refusing"} => relayed[c] + answer[c].size <= AgentCap
        /\ serving[c] \in Early \cup {"refusing"} => NoFrame(c) /\ body[c] = 0
        /\ replies[c] # NoReply => body[c] = 0

\* Nor does what its final frame adds pass it.
FinalCap ==
    \A i \in 1..Len(toServer) : toServer[i].type = "final" =>
        relayed[toServer[i].id] + toServer[i].size <= AgentCap

\* A goroutine that ended has its final frame on its way, or nothing of it is left.
DoneInv ==
    \A c \in Calls : serving[c] = "done" =>
        Seen(toServer, c, "final", Len(toServer)) \/ (NoFrame(c) /\ body[c] = 0)

\* At no place in the queue do more calls have bytes than the agent has slots.
BearInv == \A i \in 0..Len(toServer) : Cardinality(Bearing(i)) <= MaxConcurrent

\* The table has refused nobody.
NoneRefused ==
    \A c \in Calls : failure[c] = "none" /\ replies[c].kind \notin {"tooLarge", "budget"}

\* The inductive invariant of honest agents; once an answer is lost only the cap is left.
HonestInv ==
    /\ CapInv /\ FinalCap
    /\ lost = {} => DoneInv /\ BearInv /\ NoneRefused

\* A set of fewer calls is within the slots too.
LEMMA FewerBear ==
    ASSUME NEW S, NEW T \in SUBSET Calls, S \subseteq T, Cardinality(T) <= MaxConcurrent
    PROVE  Cardinality(S) <= MaxConcurrent
<1>1. IsFiniteSet(T) /\ IsFiniteSet(S) /\ Cardinality(S) <= Cardinality(T)
  BY CallsFinite, FS_Subset
<1>2. Cardinality(S) \in Nat /\ Cardinality(T) \in Nat
  BY <1>1, FS_CardinalityType
<1>3. QED
  BY <1>1, <1>2, AgentBoundsNat

\* What is seen in a queue with a frame more.
LEMMA SeenAppend ==
    ASSUME NEW s \in Seq(Frame), NEW f \in Frame, NEW t, t = Append(s, f), NEW c, NEW kind
    PROVE  /\ Len(s) \in Nat /\ Len(t) = Len(s) + 1
           /\ \A i \in 0..Len(s) : Seen(t, c, kind, i) <=> Seen(s, c, kind, i)
           /\ Seen(t, c, kind, Len(t)) <=>
                 Seen(s, c, kind, Len(s)) \/ (f.id = c /\ f.type = kind)
<1>1. /\ Len(s) \in Nat /\ Len(t) = Len(s) + 1 /\ t[Len(s) + 1] = f
      /\ \A i \in 1..Len(s) : t[i] = s[i]
  BY AppendProperties, LenProperties
<1>2. QED
  BY <1>1 DEF Seen

\* What is seen in a queue with a frame less.
LEMMA SeenTail ==
    ASSUME NEW s \in Seq(Frame), s # <<>>, NEW t, t = Tail(s), NEW c, NEW kind
    PROVE  /\ Len(s) \in Nat \ {0} /\ Len(t) = Len(s) - 1
           /\ \A i \in 0..Len(t) :
                 Seen(s, c, kind, i + 1) <=>
                     Seen(t, c, kind, i) \/ (Head(s).id = c /\ Head(s).type = kind)
<1>1. /\ Len(t) = Len(s) - 1 /\ Len(s) \in Nat \ {0}
      /\ Head(s) = s[1] /\ \A i \in 1..Len(t) : t[i] = s[i + 1]
  BY HeadTailProperties, LenProperties, EmptySeq
<1>2. ASSUME NEW i \in 0..Len(t)
      PROVE  Seen(s, c, kind, i + 1) <=>
                 Seen(t, c, kind, i) \/ (Head(s).id = c /\ Head(s).type = kind)
  <2>1. ASSUME Seen(s, c, kind, i + 1)
        PROVE  Seen(t, c, kind, i) \/ (Head(s).id = c /\ Head(s).type = kind)
    <3>1. PICK j \in 1..i + 1 : s[j].id = c /\ s[j].type = kind
      BY <2>1 DEF Seen
    <3>2. CASE j = 1
      BY <3>1, <3>2, <1>1
    <3>3. CASE j # 1
      <4>1. j - 1 \in 1..i /\ t[j - 1] = s[j]
        BY <3>3, <1>1
      <4>2. QED
        BY <4>1, <3>1 DEF Seen
    <3>4. QED
      BY <3>2, <3>3
  <2>2. ASSUME Seen(t, c, kind, i)
        PROVE  Seen(s, c, kind, i + 1)
    <3>1. PICK j \in 1..i : t[j].id = c /\ t[j].type = kind
      BY <2>2 DEF Seen
    <3>2. j + 1 \in 1..i + 1 /\ s[j + 1] = t[j]
      BY <1>1
    <3>3. QED
      BY <3>1, <3>2 DEF Seen
  <2>3. (Head(s).id = c /\ Head(s).type = kind) => Seen(s, c, kind, i + 1)
    <3>1. 1 \in 1..i + 1
      BY <1>1
    <3>2. QED
      BY <3>1, <1>1 DEF Seen
  <2>4. QED
    BY <2>1, <2>2, <2>3
<1>3. QED
  BY <1>1, <1>2

\* HonestInv holds at first.
LEMMA HonestInit == CallsInit => HonestInv
<1> SUFFICES ASSUME CallsInit PROVE HonestInv
  OBVIOUS
<1>1. toServer = <<>> /\ Len(toServer) = 0
  BY EmptySeq DEF CallsInit
<1>2. CapInv /\ FinalCap /\ DoneInv
  BY <1>1, AgentBoundsNat DEF CallsInit, AssemblyInit, CapInv, FinalCap, DoneInv, NoFrame, Early
<1>3. BearInv
  <2>1. Bearing(0) = {}
    BY DEF Bearing, Seen, CallsInit, AssemblyInit
  <2>2. Cardinality(Bearing(0)) <= MaxConcurrent
    BY <2>1, FS_EmptySet, AgentBoundsNat
  <2>3. \A i \in 0..Len(toServer) : i = 0
    BY <1>1
  <2>4. QED
    BY <2>2, <2>3 DEF BearInv
<1>4. NoneRefused
  BY DEF CallsInit, AssemblyInit, NoneRefused, NoReply
<1>5. QED
  BY <1>2, <1>3, <1>4 DEF HonestInv

\* A step that leaves the queue alone and adds no bytes.
LEMMA BearQuiet ==
    ASSUME BearInv, UNCHANGED toServer, \A c \in Calls : body'[c] > 0 => body[c] > 0
    PROVE  BearInv'
<1>1. ASSUME NEW i \in 0..Len(toServer)
      PROVE  Cardinality(Bearing(i)') <= MaxConcurrent
  <2>1. Bearing(i)' \subseteq Bearing(i) /\ Bearing(i) \subseteq Calls
    BY DEF Bearing
  <2>2. Cardinality(Bearing(i)) <= MaxConcurrent
    BY DEF BearInv
  <2>3. QED
    BY <2>1, <2>2, FewerBear
<1>2. QED
  BY <1>1 DEF BearInv

\* A caller that leaves takes its bytes with it.
LEMMA CallerHonest ==
    ASSUME WholeInv, HonestInv, NEW c \in Calls, Caller(c)
    PROVE  HonestInv'
<1>0. body \in [Calls -> Nat] /\ failure \in [Calls -> Failures] /\ replies \in [Calls -> Replies]
  BY DEF WholeInv, Types, AssemblyInv, AssemblyTypeOK
<1>1. UNCHANGED <<agentVars, toServer>>
  BY DEF Caller, Enter, File, Queue, QueueBacklog, SeeClosed, TakeReply, Expire, Leave
<1>2. \/ UNCHANGED <<body, failure, replies>>
      \/ /\ body' = [body EXCEPT ![c] = 0]
         /\ failure' = [failure EXCEPT ![c] = "none"]
         /\ replies' = [replies EXCEPT ![c] = NoReply]
  BY DEF Caller, Enter, File, Queue, QueueBacklog, SeeClosed, TakeReply, Expire, Leave,
         Register, Forget, assemblyVars
<1>3. \A d \in Calls : /\ body'[d] = body[d] \/ body'[d] = 0
                       /\ failure'[d] = failure[d] \/ failure'[d] = "none"
                       /\ replies'[d] = replies[d] \/ replies'[d] = NoReply
  BY <1>0, <1>2
<1>4. NoReply.kind \notin {"tooLarge", "budget"}
  BY DEF NoReply
<1>5. CapInv' /\ FinalCap'
  BY <1>1, <1>3 DEF HonestInv, CapInv, FinalCap, NoFrame, agentVars
<1>6. ASSUME lost = {} PROVE DoneInv' /\ NoneRefused'
  BY <1>1, <1>3, <1>4, <1>6 DEF HonestInv, DoneInv, NoneRefused, NoFrame, agentVars
<1>7. ASSUME lost = {} PROVE BearInv'
  BY <1>1, <1>3, <1>7, BearQuiet DEF HonestInv
<1>8. QED
  BY <1>1, <1>5, <1>6, <1>7 DEF HonestInv, agentVars

\* The handler's steps that put nothing in the queue.
LEMMA HandlerQuiet ==
    ASSUME WholeInv, HonestInv, NEW c \in Calls,
           UNCHANGED <<assemblyVars, toServer, relayed>>,
           NEW to \in Stages, serving' = [serving EXCEPT ![c] = to],
           serving[c] # "done",
           to \in Early \cup {"refusing"} => serving[c] \in Early \cup {"refusing"},
           to = "done" => lost' # {},
           lost \subseteq lost',
           \A d \in Calls \ {c} : answer'[d] = answer[d],
           to \in {"answering", "refusing"} => relayed[c] + answer'[c].size <= AgentCap
    PROVE  HonestInv'
<1>1. /\ serving'[c] = to /\ \A d \in Calls \ {c} : serving'[d] = serving[d]
      /\ UNCHANGED <<body, failure, replies>>
  BY DEF WholeInv, Types, FramesInv, assemblyVars
<1>2. CapInv'
  BY <1>1 DEF HonestInv, CapInv, NoFrame
<1>3. FinalCap'
  BY DEF HonestInv, FinalCap
<1>4. ASSUME lost' = {} PROVE DoneInv' /\ NoneRefused'
  BY <1>1, <1>4 DEF HonestInv, DoneInv, NoneRefused, NoFrame
<1>5. ASSUME lost' = {} PROVE BearInv'
  BY <1>1, <1>5, BearQuiet DEF HonestInv
<1>6. QED
  BY <1>2, <1>3, <1>4, <1>5 DEF HonestInv

\* A frame of c joins the queue while c holds a slot: everybody whose bytes are
\* with the server or on their way, and whose final frame is not, holds one too.
LEMMA BearHolders ==
    ASSUME WholeInv, WholeInv', HonestInv, lost = {}, NEW c \in Calls, NEW f \in Frame,
           f.id = c, toServer' = Append(toServer, f), UNCHANGED body,
           f.type = "part" => serving[c] = "relaying"
    PROVE  BearInv'
<1>1. toServer \in Seq(Frame) /\ body \in [Calls -> Nat] /\ serving \in [Calls -> Stages]
  BY DEF WholeInv, Types, FramesInv, AssemblyInv, AssemblyTypeOK
<1>2. /\ Len(toServer) \in Nat /\ Len(toServer') = Len(toServer) + 1
      /\ \A d \in Calls : \A i \in 0..Len(toServer), kind \in {"part", "final"} :
            Seen(toServer', d, kind, i) <=> Seen(toServer, d, kind, i)
      /\ \A d \in Calls, kind \in {"part", "final"} :
            Seen(toServer', d, kind, Len(toServer')) <=>
                 Seen(toServer, d, kind, Len(toServer)) \/ (f.id = d /\ f.type = kind)
  BY <1>1, SeenAppend
<1>3. DoneInv /\ BearInv
  BY DEF HonestInv
<1>4. Bearing(Len(toServer)) \subseteq Holding
  <2> SUFFICES ASSUME NEW d \in Bearing(Len(toServer)) PROVE d \in Holding
    OBVIOUS
  <2>1. d \in Calls /\ (body[d] > 0 \/ Seen(toServer, d, "part", Len(toServer)))
        /\ ~Seen(toServer, d, "final", Len(toServer))
    BY DEF Bearing
  <2>2. ~(NoFrame(d) /\ body[d] = 0)
    BY <2>1, <1>1 DEF NoFrame, Seen
  <2>3. serving[d] \notin Early \cup {"refusing", "done"}
    BY <2>1, <2>2, <1>3 DEF HonestInv, CapInv, DoneInv
  <2>4. QED
    BY <2>1, <2>3, <1>1 DEF Holding, Early, Stages
<1>5. Cardinality(Holding) <= MaxConcurrent /\ Holding \in SUBSET Calls
  BY DEF WholeInv, Types, BoundsInv, Holding
<1>6. ASSUME NEW i \in 0..Len(toServer')
      PROVE  Cardinality(Bearing(i)') <= MaxConcurrent
  <2>1. CASE i \in 0..Len(toServer)
    <3>1. Bearing(i)' = Bearing(i)
      BY <2>1, <1>2 DEF Bearing
    <3>2. QED
      BY <2>1, <3>1, <1>3 DEF BearInv
  <2>2. CASE i = Len(toServer')
    <3>1. Bearing(i)' \subseteq Holding
      <4> SUFFICES ASSUME NEW d \in Calls, body'[d] > 0 \/ Seen(toServer', d, "part", i),
                          ~Seen(toServer', d, "final", i)
                   PROVE  d \in Holding
        BY DEF Bearing
      <4>1. ~Seen(toServer, d, "final", Len(toServer))
        BY <2>2, <1>2
      <4>2. CASE d = c /\ f.type = "part"
        BY <4>2 DEF Holding
      <4>3. CASE ~(d = c /\ f.type = "part")
        <5>1. body[d] > 0 \/ Seen(toServer, d, "part", Len(toServer))
          BY <4>3, <2>2, <1>2
        <5>2. QED
          BY <5>1, <4>1, <1>4 DEF Bearing
      <4>4. QED
        BY <4>2, <4>3
    <3>2. QED
      BY <3>1, <1>5, FewerBear
  <2>3. QED
    BY <2>1, <2>2, <1>2
<1>7. QED
  BY <1>6 DEF BearInv


\* A goroutine that sends holds a slot, so the calls with bytes stay within the slots.
LEMMA SendHonest ==
    ASSUME WholeInv, WholeInv', HonestInv, NEW c \in Calls, SendPart(c) \/ SendAnswer(c)
    PROVE  HonestInv'
<1>0. PICK f : f = IF SendPart(c) THEN PartFrame(c, Slice) ELSE answer[c]
  OBVIOUS
<1>1. /\ toServer' = Append(toServer, f)
      /\ UNCHANGED <<assemblyVars, answer, lost>>
      /\ \/ /\ f.type = "part" /\ serving[c] = "relaying" /\ UNCHANGED serving
            /\ relayed' = [relayed EXCEPT ![c] = @ + Slice]
            /\ relayed[c] + Slice <= AgentCap
         \/ /\ f.type = "final" /\ serving[c] \in {"answering", "refusing"}
            /\ serving' = [serving EXCEPT ![c] = "done"] /\ UNCHANGED relayed
            /\ relayed[c] + f.size <= AgentCap
  <2>1. CASE SendPart(c)
    <3>1. OverCap(c) = FALSE /\ NextSlice(c) = Slice
      BY <2>1 DEF SendPart
    <3>2. relayed[c] + Slice <= AgentCap
      BY <3>1, SlicePositive, AgentBoundsNat DEF OverCap, WholeInv, Types, FramesInv
    <3>3. QED
      BY <1>0, <2>1, <3>2 DEF SendPart, PartFrame
  <2>2. CASE ~SendPart(c)
    <3>1. SendAnswer(c) /\ f = answer[c]
      BY <1>0, <2>2
    <3>2. /\ serving[c] \in {"answering", "refusing"}
          /\ serving' = [serving EXCEPT ![c] = "done"]
          /\ toServer' = Append(toServer, answer[c])
          /\ UNCHANGED <<assemblyVars, answer, lost, relayed>>
      BY <3>1 DEF SendAnswer, AgentGoto
    <3>3. answer[c].type = "final" /\ relayed[c] + answer[c].size <= AgentCap
      BY <3>2 DEF WholeInv, AgentInv, HonestInv, CapInv
    <3>4. QED
      BY <3>1, <3>2, <3>3
  <2>3. QED
    BY <2>1, <2>2
<1>2. f \in Frame /\ f.id = c
  <2>1. PartFrame(c, Slice) \in Frame /\ PartFrame(c, Slice).id = c
    BY FramesOfParts, SlicePositive DEF PartFrame
  <2>2. SendAnswer(c) => serving[c] \in {"answering", "refusing"}
    BY DEF SendAnswer, AgentGoto
  <2>3. SendAnswer(c) => answer[c] \in Frame /\ answer[c].id = c
    BY <2>2 DEF WholeInv, Types, FramesInv, AgentInv
  <2>4. QED
    BY <1>0, <2>1, <2>3
<1>3. /\ Len(toServer) \in Nat /\ Len(toServer') = Len(toServer) + 1
      /\ toServer'[Len(toServer) + 1] = f
      /\ \A i \in 1..Len(toServer) : toServer'[i] = toServer[i] /\ toServer[i] \in Frame
  BY <1>1, <1>2, FrameQueued
<1>4. UNCHANGED <<body, failure, replies>>
  BY <1>1 DEF assemblyVars
<1>5. /\ serving \in [Calls -> Stages] /\ relayed \in [Calls -> Nat]
      /\ \A d \in Calls \ {c} : serving'[d] = serving[d] /\ relayed'[d] = relayed[d]
      /\ relayed'[c] <= AgentCap
      /\ serving'[c] \in {"relaying", "done"}
  <2>1. serving \in [Calls -> Stages] /\ relayed \in [Calls -> Nat] /\ relayed[c] <= AgentCap
    BY DEF WholeInv, Types, FramesInv, HonestInv, CapInv
  <2>2. QED
    BY <1>1, <2>1
<1>6. \A d \in Calls \ {c} : NoFrame(d) => NoFrame(d)'
  BY <1>2, <1>3 DEF NoFrame
<1>7. replies[c] = NoReply
  BY <1>1 DEF WholeInv, ReplyInv
<1>8. CapInv'
  BY <1>1, <1>4, <1>5, <1>6, <1>7 DEF HonestInv, CapInv, Early
<1>9. FinalCap'
  <2> SUFFICES ASSUME NEW i \in 1..Len(toServer'), toServer'[i].type = "final"
               PROVE  relayed'[toServer'[i].id] + toServer'[i].size <= AgentCap
    BY DEF FinalCap
  <2>1. CASE i = Len(toServer) + 1
    BY <2>1, <1>1, <1>2, <1>3, <1>5
  <2>2. CASE i \in 1..Len(toServer)
    <3>1. /\ toServer'[i] = toServer[i] /\ toServer[i].id \in Calls
          /\ serving[toServer[i].id] = "done"
      BY <2>2, <1>3 DEF WholeInv, FinalInv, Frame
    <3>2. toServer[i].id # c
      BY <3>1, <1>1
    <3>3. QED
      BY <2>2, <3>1, <3>2, <1>5 DEF HonestInv, FinalCap
  <2>3. QED
    BY <2>1, <2>2, <1>3
<1>10. ASSUME lost = {} PROVE DoneInv'
  <2> SUFFICES ASSUME NEW d \in Calls, serving'[d] = "done"
               PROVE  Seen(toServer', d, "final", Len(toServer')) \/ (NoFrame(d)' /\ body'[d] = 0)
    BY DEF DoneInv
  <2>1. toServer \in Seq(Frame)
    BY DEF WholeInv, Types, FramesInv
  <2>2. Seen(toServer', d, "final", Len(toServer')) <=>
            Seen(toServer, d, "final", Len(toServer)) \/ (f.id = d /\ f.type = "final")
    BY <2>1, <1>1, <1>2, SeenAppend
  <2>3. CASE d = c
    BY <2>2, <2>3, <1>1, <1>2
  <2>4. CASE d # c
    BY <2>2, <2>4, <1>4, <1>5, <1>6, <1>10 DEF HonestInv, DoneInv
  <2>5. QED
    BY <2>3, <2>4
<1>11. ASSUME lost = {} PROVE BearInv'
  BY <1>1, <1>2, <1>4, <1>11, BearHolders
<1>12. lost = {} => NoneRefused'
  BY <1>4 DEF HonestInv, NoneRefused
<1>13. QED
  BY <1>1, <1>8, <1>9, <1>10, <1>11, <1>12 DEF HonestInv

\* The other steps of the agent's goroutine.
LEMMA HandlerHonest ==
    ASSUME WholeInv, WholeInv', HonestInv, NEW c \in Calls, Handler(c)
    PROVE  HonestInv'
<1>0. /\ serving \in [Calls -> Stages] /\ answer \in [Calls -> Frame]
      /\ relayed \in [Calls -> Nat] /\ relayed[c] <= AgentCap
  BY DEF WholeInv, Types, FramesInv, HonestInv, CapInv
<1>1. CASE Acquire(c)
  BY <1>0, <1>1, HandlerQuiet DEF Acquire, AgentGoto, Stages, Early
<1>2. ASSUME NEW from \in {"acquiring", "calling", "relaying"},
             NEW to \in {"answering", "refusing"}, NEW f,
             Settle(c, from, to, f), relayed[c] + f.size <= AgentCap,
             to = "refusing" => from = "acquiring"
      PROVE  HonestInv'
  <2>1. /\ serving[c] = from /\ serving' = [serving EXCEPT ![c] = to]
        /\ answer' = [answer EXCEPT ![c] = f]
        /\ UNCHANGED <<assemblyVars, relayed, lost, toServer>>
    BY <1>2 DEF Settle, AgentGoto
  <2>2. answer'[c] = f /\ \A d \in Calls \ {c} : answer'[d] = answer[d]
    BY <2>1, <1>0
  <2>3. /\ to \in Stages /\ to \notin Early /\ to # "done" /\ serving[c] # "done"
        /\ to = "refusing" => serving[c] \in Early \cup {"refusing"}
        /\ lost \subseteq lost'
    BY <1>2, <2>1 DEF Stages, Early
  <2>4. QED
    BY <1>2, <2>1, <2>2, <2>3, HandlerQuiet
<1>3. CASE AcquireTimeout(c) \/ CallFails(c) \/ TooLarge(c) \/ RelayFails(c)
  <2>1. relayed[c] + ErrorFrame(c).size <= AgentCap
    BY <1>0 DEF ErrorFrame
  <2>2. \/ Settle(c, "acquiring", "refusing", ErrorFrame(c))
        \/ Settle(c, "calling", "answering", ErrorFrame(c))
        \/ Settle(c, "relaying", "answering", ErrorFrame(c))
    BY <1>3 DEF AcquireTimeout, CallFails, TooLarge, RelayFails
  <2>3. QED
    BY <2>1, <2>2, <1>2
<1>4. ASSUME NEW n \in Sizes, CallAnswered(c, n)
      PROVE  HonestInv'
  BY <1>0, <1>4, HandlerQuiet DEF CallAnswered, AgentGoto, Stages, Early
<1>5. CASE SendPart(c) \/ SendAnswer(c)
  BY <1>5, SendHonest
<1>6. CASE BodyCut(c)
  <2>1. PICK n \in 0..Slice - 1 : /\ Settle(c, "relaying", "answering", FinalFrame(c, n))
                                  /\ relayed[c] + n <= AgentCap
    BY <1>6 DEF BodyCut
  <2>2. FinalFrame(c, n).size = n
    BY DEF FinalFrame
  <2>3. QED
    BY <2>1, <2>2, <1>2
<1>7. CASE EndOfBody(c)
  <2>1. /\ Settle(c, "relaying", "answering", FinalFrame(c, NextSlice(c)))
        /\ ~OverCap(c) /\ serving[c] = "relaying"
    BY <1>7 DEF EndOfBody, Settle, AgentGoto
  <2>2. NextSlice(c) \in 0..Slice
    BY <2>1, NextSliceBounded DEF WholeInv, Types
  <2>3. relayed[c] + FinalFrame(c, NextSlice(c)).size <= AgentCap
    <3>1. relayed[c] + NextSlice(c) <= AgentCap
      BY <2>1, <2>2, <1>0, AgentBoundsNat, SlicePositive DEF OverCap
    <3>2. QED
      BY <3>1 DEF FinalFrame
  <2>4. QED
    BY <2>1, <2>3, <1>2
<1>8. CASE LoseAnswer(c)
  <2>1. /\ serving[c] \in {"answering", "refusing"} /\ serving' = [serving EXCEPT ![c] = "done"]
        /\ lost' = lost \cup {c}
        /\ UNCHANGED <<assemblyVars, relayed, answer, toServer>>
    BY <1>8 DEF LoseAnswer, AgentGoto
  <2>2. "done" \in Stages /\ "done" \notin Early \cup {"refusing", "answering"} /\ lost' # {}
        /\ lost \subseteq lost' /\ serving[c] # "done"
    BY <2>1 DEF Stages, Early
  <2>3. QED
    BY <2>1, <2>2, HandlerQuiet
<1>9. QED
  BY <1>1, <1>3, <1>4, <1>5, <1>6, <1>7, <1>8 DEF Handler

\* A request the agent takes.
LEMMA ReceiveHonest ==
    ASSUME WholeInv, WholeInv', HonestInv, AgentReceive
    PROVE  HonestInv'
<1>0. PICK c : c = Head(toAgent)
  OBVIOUS
<1>1. /\ serving[c] = "none" /\ serving' = [serving EXCEPT ![c] = "acquiring"]
      /\ toAgent # <<>>
      /\ UNCHANGED <<assemblyVars, relayed, answer, lost, toServer>>
  BY <1>0 DEF AgentReceive, AgentGoto
<1>2. c \in Calls
  BY <1>0, <1>1 DEF WholeInv, Types, FramesInv
<1>3. QED
  BY <1>1, <1>2, HandlerQuiet DEF Stages, Early


\* No call's assembled body outgrows what its handler has relayed.
LEMMA BodyBounded ==
    ASSUME WholeInv, CapInv, NEW d \in Calls
    PROVE  body[d] \in Nat /\ body[d] <= AgentCap
<1>1. body[d] \in Nat /\ relayed[d] \in Nat /\ relayed[d] <= AgentCap
  BY DEF WholeInv, Types, FramesInv, AssemblyInv, AssemblyTypeOK, CapInv
<1>2. CASE body[d] = 0
  BY <1>1, <1>2, AgentBoundsNat
<1>3. CASE body[d] > 0
  <2>1. d \in pending /\ failure[d] = "none"
    BY <1>3 DEF WholeInv, Types, AssemblyInv, OnlyWaitersHold
  <2>2. replies[d] = NoReply
    BY <1>3 DEF CapInv
  <2>3. body[d] + InFlight(d) = relayed[d]
    BY <2>1, <2>2 DEF WholeInv, SumInv
  <2>4. InFlight(d) \in Nat
    BY PartBytesType, TotalNat DEF InFlight, WholeInv, Types, FramesInv
  <2>5. QED
    BY <1>1, <2>3, <2>4, AgentBoundsNat
<1>4. QED
  BY <1>1, <1>2, <1>3

\* Products grow with their factors.
LEMMA Times ==
    ASSUME NEW a \in Nat, NEW b \in Nat, NEW m \in Nat, a <= m
    PROVE  a * b <= m * b
<1>1. PICK k \in Nat : m = a + k
  <2>1. m - a \in Nat /\ m = a + (m - a)
    OBVIOUS
  <2>2. QED
    BY <2>1
<1>2. m * b = a * b + k * b
  BY <1>1
<1>3. k * b \in Nat /\ a * b \in Nat
  OBVIOUS
<1>4. QED
  BY <1>2, <1>3

\* As many calls as the agent has slots, each with a body within the agent's cap,
\* fit into the budget.
LEMMA SlotsFit ==
    ASSUME NEW g \in [Calls -> Nat], NEW D \in SUBSET Calls,
           Cardinality(D) <= MaxConcurrent,
           \A d \in Calls : g[d] <= AgentCap /\ (g[d] > 0 => d \in D)
    PROVE  Cardinality(HeldOf(g)) <= Budget
<1>1. IsFiniteSet(D) /\ Cardinality(D) \in Nat
  BY CallsFinite, FS_Subset, FS_CardinalityType
<1>2. IsFiniteSet(1..AgentCap) /\ Cardinality(1..AgentCap) = AgentCap
  BY FS_Interval, AgentBoundsNat
<1>3. /\ IsFiniteSet(D \X (1..AgentCap))
      /\ Cardinality(D \X (1..AgentCap)) = Cardinality(D) * AgentCap
  BY <1>1, <1>2, FS_Product
<1>4. HeldOf(g) \subseteq D \X (1..AgentCap)
  <2>1. ASSUME NEW u \in HeldOf(g) PROVE u \in D \X (1..AgentCap)
    <3>1. u \in Calls \X (1..BodyLimit) /\ u[2] <= g[u[1]]
      BY DEF HeldOf
    <3>2. u[1] \in Calls /\ u[2] \in 1..BodyLimit /\ u = <<u[1], u[2]>>
      BY <3>1
    <3>3. g[u[1]] \in Nat /\ g[u[1]] > 0 /\ g[u[1]] <= AgentCap
      BY <3>1, <3>2, BoundsNat
    <3>4. u[1] \in D /\ u[2] \in 1..AgentCap
      BY <3>1, <3>2, <3>3, AgentBoundsNat, BoundsNat
    <3>5. QED
      BY <3>2, <3>4
  <2>2. QED
    BY <2>1
<1>5. Cardinality(HeldOf(g)) <= Cardinality(D) * AgentCap
  BY <1>3, <1>4, FS_Subset
<1>6. Cardinality(D) * AgentCap <= MaxConcurrent * AgentCap
  BY <1>1, AgentBoundsNat, Times
<1>7. Cardinality(HeldOf(g)) \in Nat
  BY HeldFinite
<1>8. Cardinality(D) * AgentCap \in Nat /\ MaxConcurrent * AgentCap \in Nat
  BY <1>1, AgentBoundsNat
<1>9. QED
  BY <1>5, <1>6, <1>7, <1>8, LimitsFit, BoundsNat

\* What is behind the head of the queue keeps its bounds.
LEMMA ReadBear ==
    ASSUME WholeInv, BearInv, toServer # <<>>, toServer' = Tail(toServer),
           NEW f, f = Head(toServer),
           \A d \in Calls : body'[d] > 0 =>
               body[d] > 0 \/ (f.id = d /\ f.type = "part"),
           f.type = "final" => NoFrame(f.id)' /\ body'[f.id] = 0,
           f.type \in {"part", "final"}, body' \in [Calls -> Nat]
    PROVE  BearInv'
<1>1. toServer \in Seq(Frame)
  BY DEF WholeInv, Types, FramesInv
<1>2. /\ Len(toServer) \in Nat \ {0} /\ Len(toServer') = Len(toServer) - 1
      /\ \A d \in Calls, kind \in {"part", "final"} : \A i \in 0..Len(toServer') :
           Seen(toServer, d, kind, i + 1) <=>
               Seen(toServer', d, kind, i) \/ (f.id = d /\ f.type = kind)
  BY <1>1, SeenTail
<1>3. ASSUME NEW i \in 0..Len(toServer')
      PROVE  Cardinality(Bearing(i)') <= MaxConcurrent
  <2>1. i + 1 \in 0..Len(toServer)
    BY <1>2
  <2>2. Cardinality(Bearing(i + 1)) <= MaxConcurrent
    BY <2>1 DEF BearInv
  <2>3. Bearing(i)' \subseteq Bearing(i + 1)
    <3> SUFFICES ASSUME NEW d \in Calls, body'[d] > 0 \/ Seen(toServer', d, "part", i),
                        ~Seen(toServer', d, "final", i)
                 PROVE  d \in Bearing(i + 1)
      BY DEF Bearing
    <3>1. body[d] > 0 \/ Seen(toServer, d, "part", i + 1)
      BY <1>2
    <3>2. ~(f.id = d /\ f.type = "final")
      <4> SUFFICES ASSUME f.id = d, f.type = "final" PROVE FALSE
        OBVIOUS
      <4>1. ~Seen(toServer', d, "part", i) /\ body'[d] = 0
        BY <1>2 DEF NoFrame, Seen
      <4>2. QED
        BY <4>1
    <3>3. ~Seen(toServer, d, "final", i + 1)
      BY <1>2, <3>2
    <3>4. QED
      BY <3>1, <3>3 DEF Bearing
  <2>4. Bearing(i + 1) \subseteq Calls
    BY DEF Bearing
  <2>5. QED
    BY <2>2, <2>3, <2>4, FewerBear
<1>4. QED
  BY <1>3 DEF BearInv

\* A part of an agent that keeps its limits is within both bounds.
LEMMA PartFits ==
    ASSUME WholeInv, HonestInv, lost = {}, ReadFrame, Head(toServer).type = "part",
           Collecting(Head(toServer).id)
    PROVE  /\ body[Head(toServer).id] + Head(toServer).size <= BodyLimit
           /\ assembled + Head(toServer).size <= Budget
<1>0. PICK f : f = Head(toServer)
  OBVIOUS
<1>1. PICK c : c = f.id
  OBVIOUS
<1>2. toServer # <<>> /\ toServer' = Tail(toServer) /\ c \in pending /\ failure[c] = "none"
  BY <1>0, <1>1 DEF ReadFrame, Collecting
<1>3. /\ Len(toServer) \in Nat \ {0} /\ f = toServer[1] /\ f \in Frame
      /\ \A d \in Calls : InFlight(d) = Share(f, d) + InFlight(d)'
      /\ \A d \in Calls : InFlight(d)' \in Nat
  BY <1>0, <1>2, FrameRead
<1>4. c \in Calls /\ f.size \in Nat /\ f.type = "part"
  BY <1>0, <1>1, <1>3, BoundsNat DEF Frame
<1>5. ~NoFrame(c) /\ replies[c] = NoReply
  <2>1. ~NoFrame(c)
    BY <1>1, <1>3 DEF NoFrame
  <2>2. QED
    BY <1>4, <2>1 DEF WholeInv, ReplyInv
<1>6. /\ body \in [Calls -> Nat] /\ relayed[c] \in Nat /\ relayed[c] <= AgentCap
  BY <1>4 DEF WholeInv, Types, FramesInv, AssemblyInv, AssemblyTypeOK, HonestInv, CapInv
<1>7. body[c] + f.size <= AgentCap
  <2>1. body[c] + InFlight(c) = relayed[c]
    BY <1>2, <1>5 DEF WholeInv, SumInv
  <2>2. InFlight(c) = f.size + InFlight(c)'
    BY <1>1, <1>3, <1>4 DEF Share
  <2>3. body[c] \in Nat /\ InFlight(c)' \in Nat
    BY <1>3, <1>4, <1>6
  <2>4. QED
    BY <2>1, <2>2, <2>3, <1>4, <1>6, AgentBoundsNat
<1>8. body[c] + f.size <= BodyLimit
  BY <1>4, <1>6, <1>7, LimitsFit, AgentBoundsNat, BoundsNat
<1> DEFINE g == [body EXCEPT ![c] = @ + f.size]
<1>9. Cardinality(HeldOf(g)) = assembled + f.size
  <2>1. assembled = Cardinality(HeldOf(body))
    BY DEF WholeInv, Types, AssemblyInv, AccountingExact, Held
  <2>2. QED
    BY <2>1, <1>4, <1>6, <1>8, HeldAppend
<1>10. Cardinality(HeldOf(g)) <= Budget
  <2>1. g \in [Calls -> Nat]
    BY <1>4, <1>6
  <2>2. \A d \in Calls : body[d] <= AgentCap
    BY BodyBounded DEF HonestInv
  <2>3. \A d \in Calls : g[d] <= AgentCap
    BY <2>2, <1>4, <1>6, <1>7
  <2>4. Cardinality(Bearing(1)) <= MaxConcurrent
    BY <1>3 DEF HonestInv, BearInv
  <2>5. \A d \in Calls : g[d] > 0 => d \in Bearing(1)
    <3> SUFFICES ASSUME NEW d \in Calls, g[d] > 0 PROVE d \in Bearing(1)
      OBVIOUS
    <3>1. ~Seen(toServer, d, "final", 1)
      BY <1>3, <1>4 DEF Seen
    <3>2. CASE d = c
      <4>1. Seen(toServer, d, "part", 1)
        BY <3>2, <1>1, <1>3, <1>4 DEF Seen
      <4>2. QED
        BY <3>1, <4>1 DEF Bearing
    <3>3. CASE d # c
      BY <3>1, <3>3, <1>6 DEF Bearing
    <3>4. QED
      BY <3>2, <3>3
  <2>6. Bearing(1) \in SUBSET Calls
    BY DEF Bearing
  <2> HIDE DEF g
  <2>7. QED
    BY <2>1, <2>3, <2>4, <2>5, <2>6, SlotsFit
<1>11. QED
  BY <1>0, <1>1, <1>8, <1>9, <1>10

\* What is read fits: the calls with bytes are within the slots, and each within the cap.
LEMMA ReadHonest ==
    ASSUME WholeInv, WholeInv', HonestInv, ReadFrame
    PROVE  HonestInv'
<1>0. PICK f : f = Head(toServer)
  OBVIOUS
<1>1. PICK c : c = f.id
  OBVIOUS
<1>2. /\ toServer # <<>> /\ toServer' = Tail(toServer) /\ UNCHANGED agentVars
      /\ f.type \in {"part", "final"}
  BY <1>0 DEF ReadFrame
<1>3. /\ Len(toServer) \in Nat \ {0} /\ Len(toServer') = Len(toServer) - 1
      /\ f = toServer[1] /\ f \in Frame
      /\ \A i \in 1..Len(toServer') : toServer'[i] = toServer[i + 1]
      /\ \A d \in Calls : InFlight(d) = Share(f, d) + InFlight(d)'
      /\ \A d \in Calls : InFlight(d)' \in Nat
  BY <1>0, <1>2, FrameRead
<1>4. c \in Calls /\ f.size \in Nat
  BY <1>1, <1>3, BoundsNat DEF Frame
<1>5. /\ body \in [Calls -> Nat] /\ failure \in [Calls -> Failures]
      /\ replies \in [Calls -> Replies] /\ body' \in [Calls -> Nat]
  BY DEF WholeInv, Types, AssemblyInv, AssemblyTypeOK
<1>6. ~NoFrame(c) /\ replies[c] = NoReply
  <2>1. ~NoFrame(c)
    BY <1>1, <1>3 DEF NoFrame
  <2>2. QED
    BY <1>4, <2>1 DEF WholeInv, ReplyInv
<1>7. /\ \A d \in Calls \ {c} : /\ body'[d] = body[d] /\ failure'[d] = failure[d]
                                /\ replies'[d] = replies[d]
  BY <1>0, <1>1, <1>2, <1>4, <1>5 DEF ReadFrame, AddPart, FailCall, Complete
<1>8. CASE f.type = "part"
  <2>1. AddPart(c, f.size) /\ UNCHANGED replies
    BY <1>0, <1>1, <1>8 DEF ReadFrame, AddPart
  <2>2. lost = {} /\ Collecting(c) =>
            body[c] + f.size <= BodyLimit /\ assembled + f.size <= Budget
    BY <1>0, <1>1, <1>8, PartFits
  <2>3. assembled \in Int
    BY DEF WholeInv, Types, AssemblyInv, AssemblyTypeOK
  <2>4. lost = {} => failure' = failure
    BY <2>1, <2>2, <2>3, <1>4, <1>5, BoundsNat DEF AddPart, FailCall
  <2>5. CapInv'
    <3>1. \A d \in Calls : NoFrame(d) => NoFrame(d)' /\ d # c
      BY <1>3, <1>6 DEF NoFrame
    <3>2. QED
      BY <1>2, <1>6, <1>7, <2>1, <3>1 DEF HonestInv, CapInv, agentVars
  <2>6. lost = {} => NoneRefused'
    BY <2>1, <2>4 DEF HonestInv, NoneRefused
  <2>7. lost = {} => BearInv'
    <3>1. \A d \in Calls : body'[d] > 0 => body[d] > 0 \/ (f.id = d /\ f.type = "part")
      BY <1>1, <1>7, <1>8
    <3>2. QED
      BY <1>0, <1>2, <1>5, <1>8, <3>1, ReadBear DEF HonestInv
  <2>8. lost = {} => DoneInv'
    <3> SUFFICES ASSUME lost = {}, NEW d \in Calls, serving'[d] = "done"
                 PROVE  Seen(toServer', d, "final", Len(toServer')) \/ (NoFrame(d)' /\ body'[d] = 0)
      BY DEF DoneInv
    <3>1. Seen(toServer, d, "final", Len(toServer)) \/ (NoFrame(d) /\ body[d] = 0)
      BY <1>2 DEF HonestInv, DoneInv, agentVars
    <3>2. CASE Seen(toServer, d, "final", Len(toServer))
      <4>1. toServer \in Seq(Frame)
        BY DEF WholeInv, Types, FramesInv
      <4>2. Seen(toServer, d, "final", Len(toServer') + 1) <=>
                Seen(toServer', d, "final", Len(toServer')) \/ (f.id = d /\ f.type = "final")
        <5>1. \A i \in 0..Len(toServer') :
                 Seen(toServer, d, "final", i + 1) <=>
                     Seen(toServer', d, "final", i) \/ (f.id = d /\ f.type = "final")
          BY <4>1, <1>0, <1>2, SeenTail
        <5>2. Len(toServer') \in 0..Len(toServer')
          BY <1>3
        <5>3. QED
          BY <5>1, <5>2
      <4>3. QED
        BY <3>2, <4>2, <1>3, <1>8
    <3>3. CASE NoFrame(d) /\ body[d] = 0
      <4>1. NoFrame(d)' /\ d # c
        BY <3>3, <1>3, <1>6 DEF NoFrame
      <4>2. QED
        BY <3>3, <4>1, <1>7
    <3>4. QED
      BY <3>1, <3>2, <3>3
  <2>9. FinalCap'
    BY <1>2, <1>3 DEF HonestInv, FinalCap, agentVars
  <2>10. lost' = lost
    BY <1>2 DEF agentVars
  <2>11. QED
    BY <2>5, <2>6, <2>7, <2>8, <2>9, <2>10 DEF HonestInv
<1>9. CASE f.type = "final"
  <2>1. Complete(c, f.size, f.err)
    BY <1>0, <1>1, <1>9 DEF ReadFrame
  <2>2. body'[c] = 0 /\ (lost = {} => failure'[c] = "none")
    BY <2>1, <1>4, <1>5 DEF Complete, WholeInv, CallerInv, HonestInv, NoneRefused
  <2>3. NoFrame(c)'
    <3>1. \A j \in 2..Len(toServer) : toServer[j].id # c
      BY <1>1, <1>3, <1>9 DEF WholeInv, FinalInv
    <3>2. ASSUME NEW i \in 1..Len(toServer') PROVE toServer'[i].id # c
      <4>1. i + 1 \in 2..Len(toServer) /\ toServer'[i] = toServer[i + 1]
        BY <1>3
      <4>2. QED
        BY <4>1, <3>1
    <3>3. QED
      BY <3>2 DEF NoFrame
  <2>4. \A d \in Calls : NoFrame(d) => NoFrame(d)' /\ d # c
    BY <1>3, <1>6 DEF NoFrame
  <2>5. CapInv'
    BY <1>2, <1>7, <2>2, <2>3, <2>4 DEF HonestInv, CapInv, agentVars
  <2>6. lost = {} => NoneRefused'
    <3> SUFFICES ASSUME lost = {} PROVE replies'[c].kind \notin {"tooLarge", "budget"}
      BY <1>7, <2>2 DEF HonestInv, NoneRefused
    <3>1. CASE c \notin pending
      BY <2>1, <3>1, <1>6 DEF Complete, NoReply
    <3>2. CASE c \in pending
      <4>1. replies'[c] = Answer(c, f.size, f.err)
        BY <2>1, <3>2, <1>4, <1>5, <1>6 DEF Complete
      <4>2. failure[c] = "none"
        BY <1>4 DEF HonestInv, NoneRefused
      <4>3. body[c] + f.size <= BodyLimit
        <5>1. relayed[c] + f.size <= AgentCap
          BY <1>1, <1>3, <1>9 DEF HonestInv, FinalCap
        <5>2. body[c] + InFlight(c) = relayed[c]
          BY <3>2, <4>2, <1>6 DEF WholeInv, SumInv
        <5>3. InFlight(c) \in Nat
          BY PartBytesType, TotalNat, <1>4 DEF InFlight, WholeInv, Types, FramesInv
        <5>4. body[c] \in Nat
          BY <1>4, <1>5
        <5>5. QED
          BY <5>1, <5>2, <5>3, <5>4, <1>4, LimitsFit, AgentBoundsNat, BoundsNat
      <4>4. body[c] \in Nat /\ ~(body[c] + f.size > BodyLimit)
        BY <4>3, <1>4, <1>5, BoundsNat
      <4>5. QED
        BY <4>1, <4>2, <4>4 DEF Answer, ErrorReply, BodyReply
    <3>3. QED
      BY <3>1, <3>2
  <2>7. lost = {} => BearInv'
    <3>1. \A d \in Calls : body'[d] > 0 => body[d] > 0
      BY <1>7, <2>2
    <3>2. QED
      BY <1>0, <1>1, <1>2, <1>5, <2>2, <2>3, <3>1, ReadBear DEF HonestInv
  <2>8. lost = {} => DoneInv'
    <3> SUFFICES ASSUME lost = {}, NEW d \in Calls, serving'[d] = "done"
                 PROVE  Seen(toServer', d, "final", Len(toServer')) \/ (NoFrame(d)' /\ body'[d] = 0)
      BY DEF DoneInv
    <3>0. CASE d = c
      BY <3>0, <2>2, <2>3
    <3>1. CASE d # c
      <4>1. Seen(toServer, d, "final", Len(toServer)) \/ (NoFrame(d) /\ body[d] = 0)
        BY <1>2 DEF HonestInv, DoneInv, agentVars
      <4>2. toServer \in Seq(Frame)
        BY DEF WholeInv, Types, FramesInv
      <4>3. Seen(toServer, d, "final", Len(toServer') + 1) <=>
                Seen(toServer', d, "final", Len(toServer')) \/ (f.id = d /\ f.type = "final")
        <5>1. \A i \in 0..Len(toServer') :
                 Seen(toServer, d, "final", i + 1) <=>
                     Seen(toServer', d, "final", i) \/ (f.id = d /\ f.type = "final")
          BY <4>2, <1>0, <1>2, SeenTail
        <5>2. Len(toServer') \in 0..Len(toServer')
          BY <1>3
        <5>3. QED
          BY <5>1, <5>2
      <4>4. QED
        BY <3>1, <4>1, <4>3, <1>1, <1>3, <1>7, <2>4
    <3>2. QED
      BY <3>0, <3>1
  <2>9. FinalCap'
    BY <1>2, <1>3 DEF HonestInv, FinalCap, agentVars
  <2>10. lost' = lost
    BY <1>2 DEF agentVars
  <2>11. QED
    BY <2>5, <2>6, <2>7, <2>8, <2>9, <2>10 DEF HonestInv
<1>10. QED
  BY <1>2, <1>8, <1>9

\* Every step keeps HonestInv.
LEMMA HonestStep ==
    ASSUME WholeInv, HonestInv, [CallsNext]_callVars
    PROVE  HonestInv'
<1>1. WholeInv'
  BY WholeStep
<1>2. CASE CloseTunnel \/ StopReading \/ UNCHANGED callVars
  <2>1. UNCHANGED <<assemblyVars, agentVars, toServer>>
    BY <1>2 DEF CloseTunnel, StopReading, callVars
  <2>2. CapInv' /\ FinalCap' /\ (lost = {} => DoneInv' /\ NoneRefused')
    BY <2>1 DEF HonestInv, CapInv, FinalCap, DoneInv, NoneRefused, NoFrame, assemblyVars, agentVars
  <2>3. lost = {} => BearInv'
    BY <2>1, BearQuiet DEF HonestInv, assemblyVars
  <2>4. QED
    BY <2>1, <2>2, <2>3 DEF HonestInv, agentVars
<1>3. QED
  BY <1>1, <1>2, CallerHonest, HandlerHonest, ReceiveHonest, ReadHonest DEF CallsNext

\* The bounds on assembly are the agent's own limits: for any number of calls and
\* any bodies, no response of an agent that keeps its slots and its cap is refused
\* by them, as long as every answer found room on its way.
THEOREM HonestAccepted == CallsSpec => []HonestAgentAccepted
<1>1. HonestInv => HonestAgentAccepted
  BY DEF HonestInv, NoneRefused, HonestAgentAccepted
<1>2. CallsSpec => []HonestInv
  BY HonestInit, HonestStep, WholeAlways, PTL DEF CallsSpec
<1>3. QED
  BY <1>1, <1>2, PTL
=============================================================================
