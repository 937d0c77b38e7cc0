---------------------------- MODULE StreamProofs -----------------------------
(* What the server receives over a stream and what it keeps of it: for any sizes of
   buffers, chunks and pages.

   A stream is read by its caller, filled by the shared read loop and closed by any
   of three.  Neither its budget nor its order is inductive alone: that a clean
   close comes after the last chunk depends on where each chunk is, in the inbox,
   in the hand of deliver, buffered or read, and on which of the three closes it.
   The event buffer follows the cluster because a list is of one version and the
   watch begins there; that an event has one place among the arrivals rests on
   deleted events never coming back.                                           *)
EXTENDS TunnelStream, EventRing, SeqSumsProofs

-----------------------------------------------------------------------------
(* One stream, at the server. *)

\* What deliver has counted and not yet buffered.
Pushed == IF loop = "pushing" THEN holding.size ELSE 0

\* Whether deliver has a chunk in hand.
Inside == IF loop \in {"checking", "counting", "pushing"} THEN 1 ELSE 0

\* The last frame in the inbox that is not a close.
LastData == IF inbox # <<>> /\ inbox[Len(inbox)].type = "close" THEN Len(inbox) - 1 ELSE Len(inbox)

\* Whether the first one is the start.
Starting == IF inbox # <<>> /\ inbox[1].type = "start" THEN 1 ELSE 0

\* What a stream can be closed with.
Reasons == {"none", "agent", "backlog", "handshake", "tunnel"}

\* One of the three runs Close, and what it has done is where it stands there.
OnceInv ==
    /\ why \in [Actors -> Reasons]
    /\ once = "free" => ~done
    /\ once = "spent" => done
    /\ \A a \in Actors : closing[a] \in {"marking", "shutting", "telling"} <=> once = a
    /\ \A a \in Actors : closing[a] = "marking" => ~done
    /\ \A a \in Actors : closing[a] \in {"shutting", "telling"} => done
    /\ closing["closer"] # "no" => why["closer"] = "tunnel"
    /\ closing["caller"] # "no" => caller \in {"ended", "gone"}
    /\ closing["loop"] # "no" => loop = "reading"
    /\ caller = "ended" => done

\* The budget counts what is buffered, in hand and on its way in.  The events watch
\* releases nothing, and a panic on the way in keeps its chunk counted.
BytesInv ==
    /\ inHand \in Nat /\ received \in Nat /\ produced \in 0..MaxChunks
    /\ loop \in {"checking", "counting", "pushing"} => holding \in Chunk
    /\ inHand # 0 => caller \in {"handling", "gone"}
    /\ queued >= BytesOf(data) + inHand + Pushed
    /\ kind # "events" /\ loop # "panicked" => queued = BytesOf(data) + inHand + Pushed

\* What the agent can send.
Frame == [type : {"start", "data", "close"}, head : {"none", "ok", "refused", "agent"},
          chunk : Chunk \cup {NoChunk}]

\* The inbox: start first, close last, and numbered so that the last chunk in it is
\* the last that was produced.
InboxInv ==
    /\ inbox \in Seq(Frame)
    /\ agent \in {"silent", "streaming", "ended"}
    /\ agent = "silent" => produced = 0 /\ inbox = <<>> /\ received = 0 /\ data = <<>>
                           /\ loop \in {"reading", "stopped"}
    /\ caller \in {"opening", "registering", "queueing"} => agent = "silent"
    /\ \A i \in 1..Len(inbox) :
        /\ inbox[i].type = "start" => i = 1 /\ inbox[i].head \in {"ok", "refused"}
        /\ inbox[i].type = "close" => i = Len(inbox) /\ agent = "ended" /\ inbox[i].head \in {"none", "agent"}
        /\ inbox[i].type = "data" => inbox[i].chunk \in Chunk
                                     /\ inbox[i].chunk.number = produced - LastData + i

\* Every chunk is with the caller, buffered, in hand of deliver or in the inbox, in
\* the order of their numbers, while the stream is open; and a clean close leaves
\* nothing in the inbox.
OrderInv ==
    /\ \A k \in 1..Len(data) : data[k].number = received + k
    /\ loop \in {"counting", "pushing"} \/ (loop = "checking" /\ ~done) =>
          holding.number = received + Len(data) + 1
    /\ ~done /\ registered /\ closing["loop"] = "no" /\ loop # "panicked" =>
          produced = received + Len(data) + Inside + LastData - Starting
    /\ ~done /\ closing["loop"] # "no" /\ why["loop"] = "none" =>
          received + Len(data) = produced /\ agent = "ended" /\ inbox = <<>>
    /\ done /\ cause = "none" /\ caller # "gone" =>
          received + Len(data) = produced /\ agent = "ended" /\ inbox = <<>>
          /\ loop \in {"reading", "stopped"}

\* The inductive invariant, but for what the caller sees at the end.
StreamInv == StreamTypeOK /\ OnceInv /\ BytesInv /\ InboxInv /\ OrderInv

\* The sizes of the chunks of s.
SizesOf(s) == [i \in 1..Len(s) |-> s[i].size]

\* Sizes and numbers are naturals.
LEMMA ChunkSize == \A c \in Chunk : c.size \in Nat /\ c.number \in Nat
<1> TAKE c \in Chunk
<1>1. c.size \in ChunkSizes /\ c.number \in 1..MaxChunks
  BY DEF Chunk
<1>2. c.size \in Nat
  BY <1>1, ChunksNat
<1>3. c.number \in Nat
  BY <1>1
<1> QED
  BY <1>2, <1>3

\* The sizes of chunks are numbers to be added up.
LEMMA SizesType ==
    ASSUME NEW s \in Seq(Chunk)
    PROVE  SizesOf(s) \in Seq(Nat) /\ Len(SizesOf(s)) = Len(s) /\ BytesOf(s) \in Nat
           /\ \A i \in 1..Len(s) : SizesOf(s)[i] = s[i].size
<1>1. Len(s) \in Nat /\ \A i \in 1..Len(s) : s[i] \in Chunk
  BY LenProperties, ElementOfSeq
<1>2. \A i \in 1..Len(s) : s[i].size \in Nat
  BY <1>1, ChunkSize
<1>3. SizesOf(s) \in [1..Len(s) -> Nat]
  BY <1>2 DEF SizesOf
<1>4. SizesOf(s) \in UNION {[1..n -> Nat] : n \in Nat}
  BY <1>1, <1>3
<1>5. SizesOf(s) \in Seq(Nat)
  BY <1>4, SeqDef
<1>6. DOMAIN SizesOf(s) = 1..Len(s) /\ DOMAIN SizesOf(s) = 1..Len(SizesOf(s)) /\ Len(SizesOf(s)) \in Nat
  BY <1>3, <1>5, LenProperties
<1>7. Len(SizesOf(s)) = Len(s)
  BY <1>1, <1>6
<1> QED
  BY <1>1, <1>5, <1>7, TotalNat DEF BytesOf, SizesOf

\* No chunk has no bytes.
LEMMA BytesEmpty == BytesOf(<<>>) = 0
<1>1. Len(<<>>) = 0 /\ <<>> \in Seq(Chunk)
  BY EmptySeq
<1>2. SizesOf(<<>>) \in Seq(Nat) /\ Len(SizesOf(<<>>)) = 0
  BY <1>1, SizesType
<1>3. SizesOf(<<>>) = <<>>
  BY <1>2, EmptySeq
<1> QED
  BY <1>3, TotalEmpty DEF BytesOf, SizesOf

\* One more chunk adds its bytes.
LEMMA BytesAppend ==
    ASSUME NEW s \in Seq(Chunk), NEW c \in Chunk
    PROVE  BytesOf(Append(s, c)) = BytesOf(s) + c.size
<1>1. /\ Append(s, c) \in Seq(Chunk) /\ Len(Append(s, c)) = Len(s) + 1
      /\ Append(s, c)[Len(s) + 1] = c /\ \A i \in 1..Len(s) : Append(s, c)[i] = s[i]
      /\ Len(s) \in Nat
  BY AppendProperties, LenProperties
<1> DEFINE u == SizesOf(s)
           v == SizesOf(Append(s, c))
<1>2. /\ u \in Seq(Nat) /\ v \in Seq(Nat) /\ Len(u) = Len(s) /\ Len(v) = Len(s) + 1
      /\ \A i \in 1..Len(s) : u[i] = s[i].size
      /\ \A i \in 1..Len(s) + 1 : v[i] = Append(s, c)[i].size
  BY <1>1, SizesType
<1>3. c.size \in Nat
  BY ChunkSize
<1> HIDE DEF u, v
<1>4. /\ Append(u, c.size) \in Seq(Nat) /\ Len(Append(u, c.size)) = Len(s) + 1
      /\ Append(u, c.size)[Len(s) + 1] = c.size
      /\ \A i \in 1..Len(s) : Append(u, c.size)[i] = u[i]
  BY <1>2, <1>3, AppendProperties
<1>5. \A i \in 1..Len(s) + 1 : v[i] = Append(u, c.size)[i]
  <2> SUFFICES ASSUME NEW i \in 1..Len(s) + 1 PROVE v[i] = Append(u, c.size)[i]
    OBVIOUS
  <2>1. CASE i = Len(s) + 1
    BY <1>1, <1>2, <1>4, <2>1
  <2>2. CASE i \in 1..Len(s)
    BY <1>1, <1>2, <1>4, <2>2
  <2>3. Len(s) \in Nat
    BY LenProperties
  <2>4. i = Len(s) + 1 \/ i \in 1..Len(s)
    BY <2>3
  <2> QED
    BY <2>1, <2>2, <2>4
<1>6. v = Append(u, c.size)
  BY <1>2, <1>4, <1>5, SeqEqual
<1>7. Total(v) = Total(u) + c.size
  BY <1>2, <1>3, <1>6, TotalAppend
<1> QED
  BY <1>7 DEF BytesOf, SizesOf, u, v

\* Reading a chunk takes its bytes away.
LEMMA BytesTail ==
    ASSUME NEW s \in Seq(Chunk), s # <<>>
    PROVE  BytesOf(s) = Head(s).size + BytesOf(Tail(s))
<1>1. /\ Tail(s) \in Seq(Chunk) /\ Len(Tail(s)) = Len(s) - 1 /\ Len(s) \in Nat /\ Len(s) >= 1
      /\ \A i \in 1..Len(s) - 1 : Tail(s)[i] = s[i + 1]
      /\ Head(s) = s[1]
  BY HeadTailProperties, LenProperties, EmptySeq
<1> DEFINE u == SizesOf(s)
           v == SizesOf(Tail(s))
<1>2. /\ u \in Seq(Nat) /\ v \in Seq(Nat) /\ Len(u) = Len(s) /\ Len(v) = Len(s) - 1
      /\ \A i \in 1..Len(s) : u[i] = s[i].size
      /\ \A i \in 1..Len(s) - 1 : v[i] = Tail(s)[i].size
  BY <1>1, SizesType
<1> HIDE DEF u, v
<1>3. u # <<>>
  BY <1>1, <1>2, EmptySeq
<1>4. /\ Tail(u) \in Seq(Nat) /\ Len(Tail(u)) = Len(s) - 1 /\ Head(u) = u[1]
      /\ \A i \in 1..Len(s) - 1 : Tail(u)[i] = u[i + 1]
  BY <1>2, <1>3, HeadTailProperties
<1>5. \A i \in 1..Len(s) - 1 : v[i] = Tail(u)[i]
  <2> SUFFICES ASSUME NEW i \in 1..Len(s) - 1 PROVE v[i] = Tail(u)[i]
    OBVIOUS
  <2>1. i + 1 \in 1..Len(s)
    BY <1>1
  <2> QED
    BY <1>1, <1>2, <1>4, <2>1
<1>6. v = Tail(u)
  BY <1>2, <1>4, <1>5, SeqEqual
<1>7. Total(u) = Head(u) + Total(Tail(u)) /\ Head(u) = Head(s).size
  <2>1. 1 \in 1..Len(s)
    BY <1>1
  <2> QED
    BY <1>1, <1>2, <1>3, <1>4, <2>1, TotalTail
<1> QED
  BY <1>6, <1>7 DEF BytesOf, SizesOf, u, v

\* The invariant holds before the stream is opened.
LEMMA StreamStart == StreamInit => StreamInv
<1> SUFFICES ASSUME StreamInit PROVE StreamInv
  OBVIOUS
<1> USE DEF StreamInit
<1>1. <<>> \in Seq(Chunk) /\ Len(<<>>) = 0
  BY EmptySeq
<1>2. 0 \in 0..BufferBytes /\ 0 <= BufferChunks /\ 0 \in 0..MaxChunks
  BY BuffersNat, ChunksNat
<1>3. StreamTypeOK
  BY <1>1, <1>2 DEF StreamTypeOK, NoChunk, Chunk
<1>4. OnceInv
  BY DEF OnceInv, Actors, Reasons
<1>5. BytesInv
  BY <1>2, BytesEmpty DEF BytesInv, Pushed
<1>6. InboxInv
  BY <1>1, EmptySeq DEF InboxInv
<1>7. OrderInv
  BY <1>1 DEF OrderInv, Actors
<1> QED
  BY <1>3, <1>4, <1>5, <1>6, <1>7 DEF StreamInv

\* Every step keeps to the once (closeOnce).
LEMMA OnceStep ==
    ASSUME StreamTypeOK, OnceInv, InboxInv, StreamNext
    PROVE  OnceInv'
<1> USE DEF OnceInv, StreamTypeOK, Actors, Reasons
<1>1. ASSUME NEW a \in Actors, CloseEnter(a) PROVE OnceInv'
  BY <1>1 DEF CloseEnter, CloseStep, callerVars, loopVars
<1>2. ASSUME NEW a \in Actors, CloseMark(a) PROVE OnceInv'
  BY <1>2 DEF CloseMark, CloseStep, callerVars, loopVars
<1>3. ASSUME NEW a \in Actors, CloseShut(a) PROVE OnceInv'
  BY <1>3 DEF CloseShut, CloseStep, callerVars, loopVars
<1>4. ASSUME NEW a \in Actors, CloseTell(a) PROVE OnceInv'
  BY <1>4 DEF CloseTell, CloseStep, callerVars, loopVars
<1>5. CASE OpenCheck \/ OpenRegister \/ OpenSend \/ OpenFails
  BY <1>5 DEF OpenCheck, OpenRegister, OpenSend, OpenFails, Step, loopVars, streamVars, closeVars
<1>6. CASE OpenAnswered \/ OpenTimeout
  BY <1>6 DEF OpenAnswered, OpenTimeout, Step, StartClose, loopVars, streamVars, closeVars
<1>7. CASE ReadChunk \/ Handle
  BY <1>7 DEF ReadChunk, Handle, Step, loopVars, streamVars, closeVars
<1>8. CASE ReadEnd
  BY <1>8 DEF ReadEnd, SeesEnd, Step, StartClose, loopVars, streamVars
<1>9. CASE Leave
  BY <1>9 DEF Leave, Step, StartClose, loopVars, streamVars
<1>10. CASE ReadFrame
  <2>1. Head(inbox) = inbox[1] /\ 1 \in 1..Len(inbox)
    BY <1>10, HeadTailProperties, LenProperties, EmptySeq DEF ReadFrame, InboxInv
  <2>2. Head(inbox).type = "close" => Head(inbox).head \in {"none", "agent"}
    BY <2>1 DEF InboxInv
  <2> QED
    BY <1>10, <2>2 DEF ReadFrame, LoopStep, StartClose, callerVars, closeVars
<1>11. CASE DeliverCheck \/ LoopStops
  BY <1>11 DEF DeliverCheck, LoopStops, LoopStep, callerVars, streamVars, closeVars
<1>12. CASE DeliverCount
  BY <1>12 DEF DeliverCount, LoopStep, StartClose, callerVars, closeVars
<1>13. CASE DeliverPush
  BY <1>13 DEF DeliverPush, LoopStep, StartClose, callerVars, closeVars
<1>14. CASE CloseTunnel \/ LaneMoves
  BY <1>14 DEF CloseTunnel, LaneMoves, callerVars, loopVars, streamVars, closeVars
<1>15. CASE CloseStreams
  BY <1>15 DEF CloseStreams, StartClose, callerVars, loopVars, streamVars
<1>16. CASE AgentStart \/ AgentData \/ AgentClose
  BY <1>16 DEF AgentStart, AgentData, AgentClose, callerVars, loopVars, streamVars, closeVars
<1> QED
  BY <1>1, <1>2, <1>3, <1>4, <1>5, <1>6, <1>7, <1>8, <1>9, <1>10, <1>11, <1>12, <1>13,
     <1>14, <1>15, <1>16 DEF StreamNext, Opening, Reading, Delivering, Close

\* Every step keeps the budget and the types.
LEMMA BytesStep ==
    ASSUME StreamTypeOK, OnceInv, BytesInv, InboxInv, StreamNext
    PROVE  BytesInv' /\ StreamTypeOK'
<1> DEFINE Goal == BytesInv /\ StreamTypeOK
<1>p. /\ BytesOf(data) \in Nat /\ inHand \in Nat /\ Pushed \in Nat /\ received \in Nat
      /\ queued \in 0..BufferBytes /\ BufferBytes \in Nat /\ Len(data) \in Nat
      /\ holding.size \in Nat
  <2>1. holding \in Chunk \cup {NoChunk} /\ data \in Seq(Chunk) /\ queued \in 0..BufferBytes
    BY DEF StreamTypeOK
  <2>2. holding.size \in Nat
    BY <2>1, ChunkSize DEF NoChunk
  <2>3. BytesOf(data) \in Nat /\ Len(data) \in Nat
    BY <2>1, SizesType, LenProperties
  <2> QED
    BY <2>1, <2>2, <2>3, BuffersNat DEF BytesInv, Pushed
<1>s. ASSUME UNCHANGED <<kind, inHand, received, loop, holding, head, data, queued, produced>>,
             inHand # 0 => caller' \in {"handling", "gone"},
             caller' \in {"opening", "registering", "queueing", "awaiting", "using", "handling",
                          "ended", "gone"},
             cause' \in {"none", "agent", "backlog", "handshake", "tunnel"},
             once' \in Actors \cup {"free", "spent"},
             closing' \in [Actors -> {"no", "entering", "marking", "shutting", "telling"}],
             dataClosed' => done'
      PROVE  Goal'
  BY <1>s DEF BytesInv, StreamTypeOK, Pushed
<1>1. ASSUME NEW a \in Actors, CloseEnter(a) PROVE Goal'
  <2>1. UNCHANGED <<kind, caller, inHand, received, loop, holding, head, data, queued, produced, cause,
                    done, dataClosed>>
        /\ once' \in Actors \cup {"free", "spent"}
        /\ closing' \in [Actors -> {"no", "entering", "marking", "shutting", "telling"}]
    BY <1>1 DEF CloseEnter, CloseStep, callerVars, loopVars, agentVars, StreamTypeOK
  <2> QED
    BY <2>1, <1>s DEF StreamTypeOK, BytesInv
<1>2. ASSUME NEW a \in Actors, CloseMark(a) PROVE Goal'
  <2>1. UNCHANGED <<kind, caller, inHand, received, loop, holding, head, data, queued, produced, once>>
        /\ done' = TRUE /\ cause' \in Reasons
        /\ closing' \in [Actors -> {"no", "entering", "marking", "shutting", "telling"}]
    BY <1>2 DEF CloseMark, CloseStep, callerVars, loopVars, agentVars, StreamTypeOK, OnceInv
  <2> QED
    BY <2>1, <1>s DEF StreamTypeOK, BytesInv, Reasons
<1>3. ASSUME NEW a \in Actors, CloseShut(a) PROVE Goal'
  <2>1. UNCHANGED <<kind, caller, inHand, received, loop, holding, head, data, queued, produced, once,
                    cause, done>> /\ done
        /\ closing' \in [Actors -> {"no", "entering", "marking", "shutting", "telling"}]
    BY <1>3 DEF CloseShut, CloseStep, callerVars, loopVars, agentVars, StreamTypeOK, OnceInv
  <2> QED
    BY <2>1, <1>s DEF StreamTypeOK, BytesInv
<1>4. ASSUME NEW a \in Actors, CloseTell(a) PROVE Goal'
  <2>1. UNCHANGED <<kind, caller, inHand, received, loop, holding, head, data, queued, produced,
                    cause, done, dataClosed>> /\ once' = "spent"
        /\ closing' \in [Actors -> {"no", "entering", "marking", "shutting", "telling"}]
    BY <1>4 DEF CloseTell, CloseStep, callerVars, loopVars, agentVars, StreamTypeOK
  <2> QED
    BY <2>1, <1>s DEF StreamTypeOK, BytesInv
<1>5. CASE OpenCheck \/ OpenRegister \/ OpenSend \/ OpenFails
  <2>1. UNCHANGED <<kind, inHand, received, loop, holding, head, data, queued, produced,
                    cause, done, dataClosed, once, closing>>
        /\ caller \in {"opening", "registering", "queueing", "awaiting"}
        /\ caller' \in {"registering", "queueing", "awaiting", "gone"}
    BY <1>5 DEF OpenCheck, OpenRegister, OpenSend, OpenFails, Step, loopVars, streamVars, closeVars, agentVars
  <2> QED
    BY <2>1, <1>s DEF StreamTypeOK, BytesInv
<1>6. CASE OpenAnswered \/ OpenTimeout
  <2>1. UNCHANGED <<kind, inHand, received, loop, holding, head, data, queued, produced,
                    cause, done, dataClosed, once>>
        /\ caller = "awaiting" /\ caller' \in {"using", "gone"}
        /\ closing' \in [Actors -> {"no", "entering", "marking", "shutting", "telling"}]
    BY <1>6 DEF OpenAnswered, OpenTimeout, Step, StartClose, loopVars, streamVars, closeVars, agentVars,
                StreamTypeOK, Actors
  <2> QED
    BY <2>1, <1>s DEF StreamTypeOK, BytesInv
<1>7. CASE ReadChunk
  <2>1. /\ data # <<>> /\ caller = "using" /\ caller' = "handling" /\ received' = received + 1
        /\ inHand' = Head(data).size /\ data' = Tail(data)
        /\ UNCHANGED <<kind, loop, holding, head, queued, produced, cause, done, dataClosed, once, closing>>
    BY <1>7 DEF ReadChunk, Step, loopVars, closeVars, agentVars
  <2>2. /\ BytesOf(data) = Head(data).size + BytesOf(Tail(data)) /\ Head(data).size \in Nat
        /\ Tail(data) \in Seq(Chunk) /\ Len(Tail(data)) <= Len(data)
    <3>1. data \in Seq(Chunk)
      BY DEF StreamTypeOK
    <3>2. Tail(data) \in Seq(Chunk) /\ Len(Tail(data)) = Len(data) - 1 /\ Head(data) \in Chunk
      BY <2>1, <3>1, HeadTailProperties
    <3>3. Len(Tail(data)) <= Len(data)
      BY <3>2, <1>p
    <3> QED
      BY <2>1, <3>1, <3>2, <3>3, BytesTail, ChunkSize
  <2>3. inHand = 0
    BY <2>1 DEF BytesInv
  <2>4. Pushed' = Pushed /\ BytesOf(data') \in Nat
    BY <2>1, <2>2, SizesType DEF Pushed
  <2>5. BytesOf(data') + inHand' + Pushed' = BytesOf(data) + inHand + Pushed
    BY <1>p, <2>1, <2>2, <2>3, <2>4
  <2>6. StreamTypeOK'
    BY <1>p, <2>1, <2>2, BuffersNat DEF StreamTypeOK
  <2>7. BytesInv'
    BY <1>p, <2>1, <2>2, <2>4, <2>5 DEF BytesInv
  <2> QED
    BY <2>6, <2>7
<1>8. CASE Handle
  <2>1. /\ caller = "handling" /\ caller' = "using" /\ queued' = queued - Consumed /\ inHand' = 0
        /\ UNCHANGED <<kind, received, loop, holding, head, data, produced, cause, done, dataClosed, once, closing>>
    BY <1>8 DEF Handle, Step, loopVars, closeVars, agentVars
  <2>2. Pushed' = Pushed
    BY <2>1 DEF Pushed
  <2>3. Consumed \in 0..inHand /\ (kind # "events" => Consumed = inHand)
    BY <1>p DEF Consumed
  <2>4. queued >= BytesOf(data) + inHand + Pushed
    BY DEF BytesInv
  <2>5. queued' \in 0..BufferBytes /\ queued' >= BytesOf(data) + 0 + Pushed
    BY <1>p, <2>1, <2>3, <2>4
  <2>6. kind # "events" /\ loop # "panicked" => queued' = BytesOf(data) + 0 + Pushed
    BY <1>p, <2>1, <2>3 DEF BytesInv
  <2>7. StreamTypeOK'
    BY <2>1, <2>5 DEF StreamTypeOK
  <2>8. BytesInv'
    BY <1>p, <2>1, <2>2, <2>5, <2>6 DEF BytesInv
  <2> QED
    BY <2>7, <2>8
<1>9. CASE ReadEnd
  <2>1. UNCHANGED <<kind, inHand, received, loop, holding, head, data, queued, produced,
                    cause, done, dataClosed, once>>
        /\ caller = "using" /\ caller' = "ended"
        /\ closing' \in [Actors -> {"no", "entering", "marking", "shutting", "telling"}]
    BY <1>9 DEF ReadEnd, Step, StartClose, loopVars, streamVars, agentVars, StreamTypeOK, Actors
  <2> QED
    BY <2>1, <1>s DEF StreamTypeOK, BytesInv
<1>10. CASE Leave
  <2>1. UNCHANGED <<kind, inHand, received, loop, holding, head, data, queued, produced,
                    cause, done, dataClosed, once>>
        /\ caller' = "gone"
        /\ closing' \in [Actors -> {"no", "entering", "marking", "shutting", "telling"}]
    BY <1>10 DEF Leave, Step, StartClose, loopVars, streamVars, agentVars, StreamTypeOK, Actors
  <2> QED
    BY <2>1, <1>s DEF StreamTypeOK, BytesInv
<1>11. CASE ReadFrame
  <2>1. /\ Head(inbox) = inbox[1] /\ 1 \in 1..Len(inbox)
        /\ inbox[1] \in Frame
    <3>1. inbox \in Seq(Frame) /\ inbox # <<>>
      BY <1>11 DEF ReadFrame, InboxInv
    <3>2. Len(inbox) \in Nat /\ Len(inbox) # 0 /\ Head(inbox) = inbox[1]
      BY <3>1, HeadTailProperties, LenProperties, EmptySeq
    <3>3. 1 \in 1..Len(inbox)
      BY <3>2
    <3>4. inbox[1] \in Frame
      BY <3>1, <3>3, ElementOfSeq
    <3> QED
      BY <3>2, <3>3, <3>4
  <2>2. /\ Head(inbox).type = "data" => Head(inbox).chunk \in Chunk
        /\ Head(inbox).type = "start" => Head(inbox).head \in {"ok", "refused"}
    BY <2>1 DEF InboxInv
  <2>3. /\ UNCHANGED <<kind, caller, inHand, received, data, queued, produced, cause, done, dataClosed, once>>
        /\ loop = "reading" /\ loop' \in {"reading", "checking"}
        /\ closing' \in [Actors -> {"no", "entering", "marking", "shutting", "telling"}]
    BY <1>11 DEF ReadFrame, LoopStep, StartClose, callerVars, closeVars, StreamTypeOK, Actors
  <2>4. (loop' = "reading" /\ holding' = holding) \/ (holding' \in Chunk)
    BY <1>11, <2>2, <2>3 DEF ReadFrame, LoopStep
  <2>5. head' \in {"none", "ok", "refused"}
    BY <1>11, <2>2 DEF ReadFrame, StreamTypeOK
  <2>6. Pushed' = 0 /\ Pushed = 0
    BY <2>3 DEF Pushed
  <2>7. StreamTypeOK'
    BY <2>3, <2>4, <2>5 DEF StreamTypeOK
  <2>8. BytesInv'
    BY <2>3, <2>4, <2>6 DEF BytesInv
  <2> QED
    BY <2>7, <2>8
<1>12. CASE DeliverCheck \/ LoopStops
  <2>1. /\ UNCHANGED <<kind, caller, inHand, received, holding, head, data, queued, produced, cause, done,
                       dataClosed, once, closing>>
        /\ loop \in {"reading", "checking"} /\ loop' \in {"reading", "counting", "stopped"}
        /\ (loop' = "counting" => loop = "checking")
    BY <1>12 DEF DeliverCheck, LoopStops, LoopStep, callerVars, streamVars, closeVars, agentVars
  <2>2. Pushed' = 0 /\ Pushed = 0
    BY <2>1 DEF Pushed
  <2>3. StreamTypeOK'
    BY <2>1 DEF StreamTypeOK
  <2>4. BytesInv'
    BY <2>1, <2>2 DEF BytesInv
  <2> QED
    BY <2>3, <2>4
<1>13. CASE DeliverCount
  <2>1. /\ UNCHANGED <<kind, caller, inHand, received, holding, head, data, produced, cause, done,
                       dataClosed, once>>
        /\ loop = "counting" /\ holding \in Chunk
        /\ closing' \in [Actors -> {"no", "entering", "marking", "shutting", "telling"}]
        /\ \/ loop' = "reading" /\ queued' = queued
           \/ loop' = "pushing" /\ queued' = queued + holding.size /\ queued + holding.size <= BufferBytes
    BY <1>13 DEF DeliverCount, LoopStep, StartClose, callerVars, closeVars, agentVars, StreamTypeOK, Actors, BytesInv
  <2>2. Pushed = 0 /\ Pushed' = IF loop' = "pushing" THEN holding.size ELSE 0
    BY <2>1 DEF Pushed
  <2>3. queued' \in 0..BufferBytes
    BY <1>p, <2>1
  <2>4. queued' = queued + Pushed'
    BY <1>p, <2>1, <2>2
  <2>5. StreamTypeOK'
    BY <2>1, <2>3 DEF StreamTypeOK
  <2>6. Pushed' \in Nat
    BY <1>p, <2>2
  <2>7. queued' >= BytesOf(data) + inHand + Pushed'
        /\ (kind # "events" => queued' = BytesOf(data) + inHand + Pushed')
    BY <1>p, <2>1, <2>2, <2>4, <2>6 DEF BytesInv
  <2>8. BytesInv'
    BY <2>1, <2>7 DEF BytesInv
  <2> QED
    BY <2>5, <2>8
<1>14. CASE DeliverPush
  <2>1. /\ UNCHANGED <<kind, caller, inHand, received, holding, head, produced, cause, done,
                       dataClosed, once>>
        /\ loop = "pushing" /\ holding \in Chunk
        /\ closing' \in [Actors -> {"no", "entering", "marking", "shutting", "telling"}]
        /\ \/ loop' = "reading" /\ queued' = queued /\ data' = Append(data, holding) /\ Len(data) < BufferChunks
           \/ loop' = "reading" /\ queued' = queued - holding.size /\ data' = data
           \/ loop' = "panicked" /\ queued' = queued /\ data' = data
    BY <1>14 DEF DeliverPush, LoopStep, StartClose, callerVars, closeVars, agentVars, StreamTypeOK, Actors, BytesInv
  <2>2. Pushed = holding.size /\ Pushed' = 0
    BY <2>1 DEF Pushed
  <2>3. queued >= BytesOf(data) + inHand + Pushed
        /\ (kind # "events" => queued = BytesOf(data) + inHand + Pushed)
    BY <2>1 DEF BytesInv
  <2>4. /\ data' \in Seq(Chunk) /\ Len(data') <= BufferChunks
        /\ BytesOf(data') = BytesOf(data) \/ (BytesOf(data') = BytesOf(data) + holding.size /\ queued' = queued
                                              /\ loop' # "panicked")
    <3>1. CASE data' = data
      BY <3>1 DEF StreamTypeOK
    <3>2. CASE data' = Append(data, holding) /\ Len(data) < BufferChunks /\ queued' = queued /\ loop' = "reading"
      <4>1. Len(data') = Len(data) + 1 /\ data' \in Seq(Chunk)
        BY <2>1, <3>2, AppendProperties DEF StreamTypeOK
      <4>2. BytesOf(data') = BytesOf(data) + holding.size
        BY <2>1, <3>2, BytesAppend DEF StreamTypeOK
      <4> QED
        BY <1>p, <3>2, <4>1, <4>2, BuffersNat
    <3> QED
      BY <2>1, <3>1, <3>2
  <2>5. queued' \in 0..BufferBytes
    BY <1>p, <2>1, <2>2, <2>3
  <2>6. StreamTypeOK'
    BY <2>1, <2>4, <2>5 DEF StreamTypeOK
  <2>7. queued' >= BytesOf(data') + inHand + 0
        /\ (kind # "events" /\ loop' # "panicked" => queued' = BytesOf(data') + inHand + 0)
    <3>1. CASE loop' = "reading" /\ queued' = queued /\ data' = Append(data, holding)
      <4>1. BytesOf(data') = BytesOf(data) + holding.size
        BY <2>1, <3>1, BytesAppend DEF StreamTypeOK
      <4> QED
        BY <1>p, <2>2, <2>3, <3>1, <4>1
    <3>2. CASE queued' = queued - holding.size /\ data' = data
      BY <1>p, <2>2, <2>3, <3>2
    <3>3. CASE loop' = "panicked" /\ queued' = queued /\ data' = data
      BY <1>p, <2>2, <2>3, <3>3
    <3> QED
      BY <2>1, <3>1, <3>2, <3>3
  <2>8. BytesInv'
    BY <2>1, <2>2, <2>7 DEF BytesInv
  <2> QED
    BY <2>6, <2>8
<1>15. CASE CloseTunnel \/ LaneMoves
  BY <1>15, <1>s DEF CloseTunnel, LaneMoves, callerVars, loopVars, streamVars, closeVars, agentVars, StreamTypeOK, BytesInv
<1>16. CASE CloseStreams
  <2>1. UNCHANGED <<kind, caller, inHand, received, loop, holding, head, data, queued, produced,
                    cause, done, dataClosed, once>>
        /\ closing' \in [Actors -> {"no", "entering", "marking", "shutting", "telling"}]
    BY <1>16 DEF CloseStreams, StartClose, callerVars, loopVars, streamVars, agentVars, StreamTypeOK, Actors
  <2> QED
    BY <2>1, <1>s DEF StreamTypeOK, BytesInv
<1>17. CASE AgentStart \/ AgentClose
  BY <1>17, <1>s DEF AgentStart, AgentClose, callerVars, loopVars, streamVars, closeVars, StreamTypeOK, BytesInv
<1>18. CASE AgentData
  <2>1. produced' = produced + 1 /\ produced < MaxChunks /\ produced' \in 0..MaxChunks
    BY <1>18, ChunksNat DEF AgentData, BytesInv
  <2> QED
    BY <1>18, <2>1 DEF AgentData, callerVars, loopVars, streamVars, closeVars, StreamTypeOK, BytesInv, Pushed
<1> QED
  BY <1>1, <1>2, <1>3, <1>4, <1>5, <1>6, <1>7, <1>8, <1>9, <1>10, <1>11, <1>12, <1>13,
     <1>14, <1>15, <1>16, <1>17, <1>18 DEF StreamNext, Opening, Reading, Delivering, Close

\* What taking the first frame does to the inbox.
LEMMA InboxTail ==
    ASSUME InboxInv, inbox # <<>>, inbox' = Tail(inbox)
    PROVE  /\ inbox' \in Seq(Frame) /\ Len(inbox') = Len(inbox) - 1 /\ Len(inbox) \in Nat \ {0}
           /\ \A i \in 1..Len(inbox') : inbox'[i] = inbox[i + 1] /\ i + 1 \in 1..Len(inbox)
           /\ Head(inbox) = inbox[1] /\ 1 \in 1..Len(inbox) /\ inbox[1] \in Frame
           /\ Len(inbox) > 1 \/ inbox[1].type # "close" => LastData' = LastData - 1
           /\ inbox[1].type = "close" => Len(inbox) = 1 /\ LastData = 0 /\ inbox' = <<>>
           /\ LastData \in Int /\ Starting' = 0
           /\ Starting = IF inbox[1].type = "start" THEN 1 ELSE 0
<1>1. inbox \in Seq(Frame)
  BY DEF InboxInv
<1>2. /\ inbox' \in Seq(Frame) /\ Len(inbox') = Len(inbox) - 1 /\ Len(inbox) \in Nat \ {0}
      /\ \A i \in 1..Len(inbox) - 1 : inbox'[i] = inbox[i + 1]
      /\ Head(inbox) = inbox[1]
  <2>1. Tail(inbox) \in Seq(Frame) /\ Len(Tail(inbox)) = Len(inbox) - 1 /\ Head(inbox) = inbox[1]
        /\ \A i \in 1..Len(inbox) - 1 : Tail(inbox)[i] = inbox[i + 1]
    BY <1>1, HeadTailProperties
  <2>2. Len(inbox) \in Nat \ {0}
    BY <1>1, LenProperties, EmptySeq
  <2> QED
    BY <2>1, <2>2
<1>3. \A i \in 1..Len(inbox') : inbox'[i] = inbox[i + 1] /\ i + 1 \in 1..Len(inbox)
  BY <1>2
<1>4. 1 \in 1..Len(inbox) /\ inbox[1] \in Frame
  BY <1>1, <1>2, ElementOfSeq
<1>5. Len(inbox) > 1 => inbox'[Len(inbox')] = inbox[Len(inbox)] /\ inbox' # <<>> /\ Len(inbox') \in 1..Len(inbox')
  <2> SUFFICES ASSUME Len(inbox) > 1
               PROVE  inbox'[Len(inbox')] = inbox[Len(inbox)] /\ inbox' # <<>> /\ Len(inbox') \in 1..Len(inbox')
    OBVIOUS
  <2>1. Len(inbox') \in 1..Len(inbox') /\ Len(inbox') + 1 = Len(inbox) /\ Len(inbox') # 0
    BY <1>2
  <2> QED
    BY <1>3, <2>1, EmptySeq
<1>6. Len(inbox) = 1 => inbox' = <<>> /\ Len(inbox') = 0
  BY <1>2, EmptySeq
<1>7. Len(inbox) > 1 => LastData' = LastData - 1
  BY <1>2, <1>5 DEF LastData
<1>8. inbox[1].type # "close" => LastData' = LastData - 1
  <2>1. CASE Len(inbox) > 1
    BY <1>7, <2>1
  <2>2. CASE Len(inbox) = 1 /\ inbox[1].type # "close"
    BY <1>6, <2>2 DEF LastData
  <2>3. Len(inbox) > 1 \/ Len(inbox) = 1
    BY <1>2
  <2> QED
    BY <2>1, <2>2, <2>3
<1>9. inbox[1].type = "close" => Len(inbox) = 1 /\ LastData = 0 /\ inbox' = <<>>
  <2> SUFFICES ASSUME inbox[1].type = "close" PROVE Len(inbox) = 1 /\ LastData = 0 /\ inbox' = <<>>
    OBVIOUS
  <2>1. Len(inbox) = 1
    BY <1>4 DEF InboxInv
  <2> QED
    BY <1>6, <2>1 DEF LastData
<1>10. LastData \in Int
  BY <1>2 DEF LastData
<1>11. Starting' = 0
  <2>1. inbox' # <<>> => inbox'[1].type # "start"
    <3> SUFFICES ASSUME inbox' # <<>> PROVE inbox'[1].type # "start"
      OBVIOUS
    <3>1. Len(inbox') # 0
      BY <1>2, EmptySeq
    <3>2. 1 \in 1..Len(inbox') /\ 1 + 1 \in 1..Len(inbox)
      BY <1>2, <3>1
    <3>3. inbox'[1] = inbox[1 + 1]
      BY <1>3, <3>2
    <3>4. 1 + 1 # 1
      OBVIOUS
    <3> QED
      BY <3>2, <3>3, <3>4 DEF InboxInv
  <2> QED
    BY <2>1 DEF Starting
<1>12. Starting = IF inbox[1].type = "start" THEN 1 ELSE 0
  BY DEF Starting
<1> QED
  BY <1>2, <1>3, <1>4, <1>7, <1>8, <1>9, <1>10, <1>11, <1>12

\* What adding a frame does to it; nothing follows a close.
LEMMA InboxAppend ==
    ASSUME InboxInv, NEW f \in Frame, inbox' = Append(inbox, f), agent # "ended"
    PROVE  /\ inbox' \in Seq(Frame) /\ Len(inbox') = Len(inbox) + 1 /\ Len(inbox) \in Nat
           /\ inbox'[Len(inbox) + 1] = f
           /\ \A i \in 1..Len(inbox) : inbox'[i] = inbox[i]
           /\ LastData = Len(inbox)
           /\ LastData' = IF f.type = "close" THEN Len(inbox) ELSE Len(inbox) + 1
           /\ Starting' = IF inbox = <<>> THEN (IF f.type = "start" THEN 1 ELSE 0) ELSE Starting
<1>1. inbox \in Seq(Frame)
  BY DEF InboxInv
<1>2. /\ inbox' \in Seq(Frame) /\ Len(inbox') = Len(inbox) + 1 /\ Len(inbox) \in Nat
      /\ inbox'[Len(inbox) + 1] = f
      /\ \A i \in 1..Len(inbox) : inbox'[i] = inbox[i]
  BY <1>1, AppendProperties, LenProperties
<1>3. inbox' # <<>>
  BY <1>2, EmptySeq
<1>4. LastData = Len(inbox)
  <2>1. inbox # <<>> => Len(inbox) \in 1..Len(inbox)
    BY <1>1, <1>2, EmptySeq
  <2>2. inbox # <<>> => inbox[Len(inbox)].type # "close"
    BY <2>1 DEF InboxInv
  <2> QED
    BY <2>2 DEF LastData
<1>5. LastData' = IF f.type = "close" THEN Len(inbox) ELSE Len(inbox) + 1
  <2>1. inbox'[Len(inbox')] = f
    BY <1>2
  <2> QED
    BY <1>2, <1>3, <2>1 DEF LastData
<1>6. Starting' = IF inbox = <<>> THEN (IF f.type = "start" THEN 1 ELSE 0) ELSE Starting
  <2>1. CASE inbox = <<>>
    <3>1. Len(inbox) = 0
      BY <2>1, EmptySeq
    <3>2. inbox'[1] = f
      BY <1>2, <3>1
    <3> QED
      BY <1>3, <2>1, <3>2 DEF Starting
  <2>2. CASE inbox # <<>>
    <3>1. 1 \in 1..Len(inbox)
      BY <1>1, <1>2, <2>2, EmptySeq
    <3>2. inbox'[1] = inbox[1]
      BY <1>2, <3>1
    <3> QED
      BY <1>3, <2>2, <3>2 DEF Starting
  <2> QED
    BY <2>1, <2>2
<1> QED
  BY <1>2, <1>4, <1>5, <1>6

\* An agent that has sent nothing has left nothing to read.
LEMMA SilentAgent ==
    ASSUME InboxInv
    PROVE  agent = "silent" => inbox = <<>> /\ data = <<>> /\ loop \in {"reading", "stopped"}
BY DEF InboxInv

\* What the agent sends is one frame, and it sends nothing after a close.
LEMMA AgentSends ==
    ASSUME BytesInv, InboxInv, AgentStart \/ AgentData \/ AgentClose
    PROVE  \E f \in Frame :
           /\ inbox' = Append(inbox, f) /\ agent # "ended" /\ agent' # "silent"
           /\ UNCHANGED <<received, data, loop, caller, done, registered, closing, why, cause, holding>>
           /\ caller \notin {"opening", "registering", "queueing"} /\ agent' \in {"streaming", "ended"}
           /\ \/ /\ f.type = "start" /\ inbox = <<>> /\ f.head \in {"ok", "refused"} /\ produced' = produced
              \/ /\ f.type = "data" /\ f.chunk \in Chunk /\ f.chunk.number = produced + 1 /\ produced' = produced + 1
              \/ /\ f.type = "close" /\ agent' = "ended" /\ f.head \in {"none", "agent"} /\ produced' = produced
<1>u. UNCHANGED <<received, data, loop, caller, done, registered, closing, why, cause, holding>>
  BY DEF AgentStart, AgentData, AgentClose, callerVars, loopVars, streamVars, closeVars
<1>1. CASE AgentStart
  <2>1. PICK h \in {"ok", "refused"} : AgentFrame("start", h, NoChunk) /\ agent' \in {"streaming", "ended"}
    BY <1>1 DEF AgentStart
  <2> DEFINE f == [type |-> "start", head |-> h, chunk |-> NoChunk]
  <2>2. f \in Frame /\ inbox' = Append(inbox, f)
    BY <2>1 DEF Frame, AgentFrame
  <2>3. agent = "silent" /\ inbox = <<>> /\ produced' = produced /\ caller \notin {"opening", "registering", "queueing"}
    BY <1>1, SilentAgent DEF AgentStart
  <2> QED
    BY <1>u, <2>1, <2>2, <2>3
<1>2. CASE AgentData
  <2>1. PICK n \in ChunkSizes : AgentFrame("data", "none", [number |-> produced', size |-> n])
    BY <1>2 DEF AgentData
  <2>2. produced' = produced + 1 /\ agent = "streaming" /\ agent' = agent /\ produced' \in 1..MaxChunks
    BY <1>2, ChunksNat DEF AgentData, BytesInv
  <2> DEFINE c == [number |-> produced', size |-> n]
             f == [type |-> "data", head |-> "none", chunk |-> c]
  <2>3. c \in Chunk
    BY <2>2 DEF Chunk
  <2>4. f \in Frame /\ inbox' = Append(inbox, f) /\ f.chunk.number = produced + 1
    BY <2>1, <2>2, <2>3 DEF Frame, AgentFrame
  <2>5. caller \notin {"opening", "registering", "queueing"}
    BY <2>2 DEF InboxInv
  <2> QED
    BY <1>u, <2>2, <2>3, <2>4, <2>5
<1>3. CASE AgentClose
  <2>1. PICK h \in {"none", "agent"} : AgentFrame("close", h, NoChunk)
    BY <1>3 DEF AgentClose
  <2> DEFINE f == [type |-> "close", head |-> h, chunk |-> NoChunk]
  <2>2. f \in Frame /\ inbox' = Append(inbox, f)
    BY <2>1 DEF Frame, AgentFrame
  <2>3. agent = "streaming" /\ agent' = "ended" /\ produced' = produced
    BY <1>3 DEF AgentClose
  <2>5. caller \notin {"opening", "registering", "queueing"}
    BY <2>3 DEF InboxInv
  <2> QED
    BY <1>u, <2>2, <2>3, <2>5
<1> QED
  BY <1>1, <1>2, <1>3

\* Every step keeps the inbox in order.
LEMMA InboxStep ==
    ASSUME StreamTypeOK, OnceInv, BytesInv, InboxInv, StreamNext
    PROVE  InboxInv'
<1>s. ASSUME UNCHANGED <<inbox, agent, produced>>,
             agent = "silent" => UNCHANGED <<received, data>> /\ loop' \in {"reading", "stopped"},
             caller' \in {"opening", "registering", "queueing"} => caller \in {"opening", "registering", "queueing"}
      PROVE  InboxInv'
  BY <1>s DEF InboxInv, LastData
<1>i. agent = "silent" => inbox = <<>> /\ data = <<>> /\ loop \in {"reading", "stopped"}
  BY DEF InboxInv
<1>1. ASSUME NEW a \in Actors, Close(a) PROVE InboxInv'
  <2>1. UNCHANGED <<inbox, agent, produced, received, data, loop, caller>>
    BY <1>1 DEF Close, CloseEnter, CloseMark, CloseShut, CloseTell, callerVars, loopVars, agentVars
  <2> QED
    BY <1>s, <1>i, <2>1
<1>2. CASE Opening
  <2>1. UNCHANGED <<inbox, agent, produced, received, data, loop>>
        /\ (caller' \in {"opening", "registering", "queueing"} => caller \in {"opening", "registering", "queueing"})
    BY <1>2 DEF Opening, OpenCheck, OpenRegister, OpenSend, OpenFails, OpenAnswered, OpenTimeout, Step,
                loopVars, streamVars, agentVars
  <2> QED
    BY <1>s, <1>i, <2>1
<1>3. CASE Reading
  <2>1. UNCHANGED <<inbox, agent, produced, loop>> /\ caller' \in {"using", "handling", "ended", "gone"}
        /\ (UNCHANGED <<received, data>> \/ data # <<>>)
    BY <1>3 DEF Reading, ReadChunk, Handle, ReadEnd, Leave, Step, loopVars, streamVars, agentVars
  <2> QED
    BY <1>s, <1>i, <2>1
<1>4. CASE DeliverCheck \/ DeliverCount \/ DeliverPush \/ LoopStops
  <2>1. /\ UNCHANGED <<inbox, agent, produced, caller, received>>
        /\ loop \in {"checking", "counting", "pushing"} \/ (UNCHANGED data /\ loop' = "stopped")
    BY <1>4 DEF DeliverCheck, DeliverCount, DeliverPush, LoopStops, LoopStep, callerVars, streamVars, agentVars
  <2>2. agent = "silent" => loop \notin {"checking", "counting", "pushing"}
    BY <1>i
  <2> QED
    BY <1>s, <2>1, <2>2
<1>5. CASE CloseTunnel \/ LaneMoves \/ CloseStreams
  <2>1. UNCHANGED <<inbox, agent, produced, caller, received, data, loop>>
    BY <1>5 DEF CloseTunnel, LaneMoves, CloseStreams, callerVars, loopVars, streamVars, agentVars
  <2> QED
    BY <1>s, <1>i, <2>1
<1>6. CASE ReadFrame
  <2>1. inbox # <<>> /\ inbox' = Tail(inbox) /\ UNCHANGED <<agent, produced, caller, received, data>>
    BY <1>6 DEF ReadFrame, callerVars
  <2>2. agent # "silent"
    BY <1>i, <2>1
  <2>3. /\ inbox' \in Seq(Frame) /\ Len(inbox') = Len(inbox) - 1 /\ Len(inbox) \in Nat \ {0}
        /\ \A i \in 1..Len(inbox') : inbox'[i] = inbox[i + 1] /\ i + 1 \in 1..Len(inbox)
        /\ Len(inbox) > 1 => LastData' = LastData - 1
        /\ LastData \in Int
    BY <2>1, InboxTail
  <2>4. ASSUME NEW i \in 1..Len(inbox')
        PROVE  /\ inbox'[i].type # "start"
               /\ inbox'[i].type = "close" => i = Len(inbox') /\ agent = "ended" /\ inbox'[i].head \in {"none", "agent"}
               /\ inbox'[i].type = "data" => inbox'[i].chunk \in Chunk
                                     /\ inbox'[i].chunk.number = produced - LastData' + i
    <3>1. inbox'[i] = inbox[i + 1] /\ i + 1 \in 1..Len(inbox) /\ i + 1 # 1 /\ Len(inbox) > 1
      BY <2>3
    <3>2. LastData' = LastData - 1 /\ produced \in Int
      BY <2>3, <3>1 DEF BytesInv
    <3>3. inbox[i + 1].type # "start"
      BY <3>1 DEF InboxInv
    <3>4. inbox[i + 1].type = "close" => i + 1 = Len(inbox) /\ agent = "ended" /\ inbox[i + 1].head \in {"none", "agent"}
      BY <3>1 DEF InboxInv
    <3>5. inbox[i + 1].type = "data" => inbox[i + 1].chunk \in Chunk
                                     /\ inbox[i + 1].chunk.number = produced - LastData + (i + 1)
      BY <3>1 DEF InboxInv
    <3>6. produced - LastData + (i + 1) = produced - (LastData - 1) + i
      BY <2>3, <3>2
    <3>7. i + 1 = Len(inbox) => i = Len(inbox')
      BY <2>3
    <3> QED
      BY <3>1, <3>2, <3>3, <3>4, <3>5, <3>6, <3>7
  <2> QED
    BY <2>1, <2>2, <2>3, <2>4 DEF InboxInv
<1>7. ASSUME NEW f \in Frame, inbox' = Append(inbox, f), agent # "ended", agent' # "silent",
             UNCHANGED <<received, data, loop, caller>>,
             caller \notin {"opening", "registering", "queueing"}, agent' \in {"streaming", "ended"},
             \/ /\ f.type = "start" /\ inbox = <<>> /\ f.head \in {"ok", "refused"} /\ produced' = produced
             \/ /\ f.type = "data" /\ f.chunk \in Chunk /\ f.chunk.number = produced + 1 /\ produced' = produced + 1
             \/ /\ f.type = "close" /\ agent' = "ended" /\ f.head \in {"none", "agent"} /\ produced' = produced
      PROVE  InboxInv'
  <2>1. /\ inbox' \in Seq(Frame) /\ Len(inbox') = Len(inbox) + 1 /\ Len(inbox) \in Nat
        /\ inbox'[Len(inbox) + 1] = f
        /\ \A i \in 1..Len(inbox) : inbox'[i] = inbox[i]
        /\ LastData = Len(inbox)
        /\ LastData' = IF f.type = "close" THEN Len(inbox) ELSE Len(inbox) + 1
    BY <1>7, InboxAppend
  <2>2. produced \in Nat /\ (inbox = <<>> => Len(inbox) = 0)
    BY EmptySeq DEF BytesInv
  <2>3. ASSUME NEW i \in 1..Len(inbox')
        PROVE  /\ inbox'[i].type = "start" => i = 1 /\ inbox'[i].head \in {"ok", "refused"}
               /\ inbox'[i].type = "close" => i = Len(inbox') /\ agent' = "ended" /\ inbox'[i].head \in {"none", "agent"}
               /\ inbox'[i].type = "data" => inbox'[i].chunk \in Chunk
                                     /\ inbox'[i].chunk.number = produced' - LastData' + i
    <3>1. i \in 1..Len(inbox) \/ i = Len(inbox) + 1
      BY <2>1
    <3>2. CASE i = Len(inbox) + 1
      BY <1>7, <2>1, <2>2, <3>2
    <3>3. CASE i \in 1..Len(inbox)
      <4>1. inbox'[i] = inbox[i] /\ inbox[i].type # "close"
        BY <1>7, <2>1, <3>3 DEF InboxInv
      <4>2. inbox[i].type = "start" => i = 1 /\ inbox[i].head \in {"ok", "refused"}
        BY <3>3 DEF InboxInv
      <4>3. inbox[i].type = "data" => inbox[i].chunk \in Chunk
                                     /\ inbox[i].chunk.number = produced - LastData + i
        BY <3>3 DEF InboxInv
      <4>4. produced' - LastData' = produced - LastData
        <5>1. f.type # "start"
          BY <1>7, <2>2, <3>3
        <5> QED
          BY <1>7, <2>1, <2>2, <5>1
      <4> QED
        BY <4>1, <4>2, <4>3, <4>4
    <3> QED
      BY <3>1, <3>2, <3>3
  <2> QED
    BY <1>7, <2>1, <2>3 DEF InboxInv
<1>8. CASE AgentStart \/ AgentData \/ AgentClose
  BY <1>7, <1>8, AgentSends
<1> QED
  BY <1>1, <1>2, <1>3, <1>4, <1>5, <1>6, <1>8 DEF StreamNext, Delivering

\* A step that moves no chunk, and that neither reopens the stream nor ends the
\* loop's Close, keeps the accounts.
LEMMA OrderFrame ==
    ASSUME OrderInv, UNCHANGED <<data, received, produced, holding, loop, inbox, agent>>,
           done => done',
           ~done' /\ registered' /\ closing'["loop"] = "no" => registered /\ closing["loop"] = "no",
           ~done' /\ closing'["loop"] # "no" /\ why'["loop"] = "none" =>
               closing["loop"] # "no" /\ why["loop"] = "none",
           done' /\ cause' = "none" /\ caller' # "gone" => done /\ cause = "none" /\ caller # "gone"
    PROVE  OrderInv'
BY DEF OrderInv, Inside, LastData, Starting

\* Closing keeps the chunks in order; a clean close comes after the last of them.
LEMMA OrderClosing ==
    ASSUME StreamTypeOK, OnceInv, OrderInv, NEW a \in Actors, Close(a)
    PROVE  OrderInv'
<1>t. closing \in [Actors -> {"no", "entering", "marking", "shutting", "telling"}] /\ "loop" \in Actors
  BY DEF StreamTypeOK, Actors
<1>u. UNCHANGED <<data, received, produced, holding, loop, inbox, agent, caller>> /\ UNCHANGED why
  BY DEF Close, CloseEnter, CloseMark, CloseShut, CloseTell, callerVars, loopVars, agentVars
<1>1. CASE CloseEnter(a)
  <2>1. UNCHANGED <<done, cause, registered>>
        /\ (closing'["loop"] # closing["loop"] => closing["loop"] = "entering" /\ (closing'["loop"] = "no" => once = "spent"))
    BY <1>1, <1>t DEF CloseEnter, CloseStep
  <2>2. once = "spent" => done
    BY DEF OnceInv
  <2>3. ~done' /\ closing'["loop"] = "no" => closing["loop"] = "no"
    BY <2>1, <2>2
  <2>4. closing'["loop"] # "no" => closing["loop"] # "no"
    BY <2>1
  <2> QED
    BY <1>u, <2>1, <2>3, <2>4, OrderFrame
<1>2. CASE CloseMark(a)
  <2>1. /\ done' = TRUE /\ cause' = why[a] /\ ~done /\ closing[a] = "marking"
    BY <1>2 DEF CloseMark, CloseStep, OnceInv
  <2>2. ASSUME cause' = "none", caller' # "gone"
        PROVE  /\ received + Len(data) = produced /\ agent = "ended" /\ inbox = <<>>
               /\ loop \in {"reading", "stopped"}
    <3>1. a # "closer"
      BY <2>1, <2>2 DEF OnceInv
    <3>2. a # "caller"
      BY <1>u, <2>1, <2>2 DEF OnceInv
    <3>3. a = "loop"
      BY <3>1, <3>2 DEF Actors
    <3>4. why["loop"] = "none" /\ closing["loop"] # "no" /\ loop = "reading"
      BY <2>1, <2>2, <3>3 DEF OnceInv
    <3> QED
      BY <2>1, <3>4 DEF OrderInv
  <2>3. loop \in {"counting", "pushing"} => holding.number = received + Len(data) + 1
    BY DEF OrderInv
  <2>4. \A k \in 1..Len(data) : data[k].number = received + k
    BY DEF OrderInv
  <2> QED
    BY <1>u, <2>1, <2>2, <2>3, <2>4 DEF OrderInv
<1>3. CASE CloseShut(a) \/ CloseTell(a)
  <2>1. closing[a] \in {"shutting", "telling"} /\ UNCHANGED <<done, cause>>
    BY <1>3 DEF CloseShut, CloseTell, CloseStep
  <2>2. done
    BY <2>1 DEF OnceInv
  <2> QED
    BY <1>u, <2>1, <2>2, OrderFrame
<1> QED
  BY <1>1, <1>2, <1>3 DEF Close

\* The caller's steps keep the chunks in order.
LEMMA OrderCaller ==
    ASSUME StreamTypeOK, OnceInv, BytesInv, InboxInv, OrderInv, Opening \/ Reading
    PROVE  OrderInv'
<1>t. closing \in [Actors -> {"no", "entering", "marking", "shutting", "telling"}]
      /\ why \in [Actors -> Reasons] /\ "loop" \in Actors
  BY DEF StreamTypeOK, OnceInv, Actors
<1>1. CASE OpenCheck \/ OpenSend \/ OpenFails \/ OpenAnswered \/ OpenTimeout
  <2>1. /\ UNCHANGED <<data, received, produced, holding, loop, inbox, agent, done, cause>>
        /\ caller # "gone" /\ (registered' => registered)
    BY <1>1 DEF OpenCheck, OpenSend, OpenFails, OpenAnswered, OpenTimeout, Step, loopVars, streamVars, agentVars
  <2>2. closing'["loop"] = closing["loop"] /\ why'["loop"] = why["loop"]
    BY <1>1, <1>t DEF OpenCheck, OpenSend, OpenFails, OpenAnswered, OpenTimeout, StartClose, closeVars
  <2> QED
    BY <2>1, <2>2, OrderFrame
<1>2. CASE OpenRegister
  <2>1. /\ UNCHANGED <<data, received, produced, holding, loop, inbox, agent, done, cause, closing, why>>
        /\ caller = "registering" /\ caller' # "gone"
    BY <1>2 DEF OpenRegister, Step, loopVars, agentVars, closeVars
  <2>2. produced = 0 /\ inbox = <<>> /\ received = 0 /\ data = <<>> /\ loop \in {"reading", "stopped"}
    BY <2>1 DEF InboxInv
  <2>3. Len(data) = 0 /\ Len(inbox) = 0
    BY <2>2, EmptySeq
  <2>4. produced' = received' + Len(data') + Inside' + LastData' - Starting'
    BY <2>1, <2>2, <2>3 DEF Inside, LastData, Starting
  <2>5. ASSUME done', cause' = "none", caller' # "gone"
        PROVE  received' + Len(data') = produced' /\ agent' = "ended" /\ inbox' = <<>>
               /\ loop' \in {"reading", "stopped"}
    BY <2>1, <2>5 DEF OrderInv
  <2> QED
    BY <2>1, <2>4, <2>5 DEF OrderInv
<1>3. CASE Handle \/ ReadEnd \/ Leave
  <2>1. /\ UNCHANGED <<data, received, produced, holding, loop, inbox, agent, done, cause, registered>>
        /\ caller # "gone"
    BY <1>3 DEF Handle, ReadEnd, Leave, Step, loopVars, streamVars, agentVars
  <2>2. closing'["loop"] = closing["loop"] /\ why'["loop"] = why["loop"]
    BY <1>3, <1>t DEF Handle, ReadEnd, Leave, StartClose, closeVars
  <2> QED
    BY <2>1, <2>2, OrderFrame
<1>4. CASE ReadChunk
  <2>1. /\ data # <<>> /\ received' = received + 1 /\ data' = Tail(data) /\ caller = "using" /\ caller' = "handling"
        /\ UNCHANGED <<produced, holding, loop, inbox, agent, done, cause, registered, closing, why>>
    BY <1>4 DEF ReadChunk, Step, loopVars, agentVars, closeVars
  <2>2. /\ Len(data') = Len(data) - 1 /\ Len(data) \in Nat \ {0} /\ received \in Nat
        /\ \A k \in 1..Len(data') : data'[k] = data[k + 1] /\ k + 1 \in 1..Len(data)
    <3>1. data \in Seq(Chunk)
      BY DEF StreamTypeOK
    <3>2. Len(Tail(data)) = Len(data) - 1 /\ \A k \in 1..Len(data) - 1 : Tail(data)[k] = data[k + 1]
      BY <2>1, <3>1, HeadTailProperties
    <3>3. Len(data) \in Nat \ {0} /\ received \in Nat
      BY <2>1, <3>1, LenProperties, EmptySeq DEF BytesInv
    <3>4. \A k \in 1..Len(data) - 1 : k + 1 \in 1..Len(data)
      BY <3>3
    <3> QED
      BY <2>1, <3>2, <3>3, <3>4
  <2>3. received' + Len(data') = received + Len(data)
    BY <2>1, <2>2
  <2>4. ASSUME NEW k \in 1..Len(data') PROVE data'[k].number = received' + k
    <3>1. data'[k] = data[k + 1] /\ k + 1 \in 1..Len(data)
      BY <2>2
    <3>2. data[k + 1].number = received + (k + 1)
      BY <3>1 DEF OrderInv
    <3>3. received + (k + 1) = received' + k
      BY <2>1, <2>2
    <3> QED
      BY <3>1, <3>2, <3>3
  <2>5. Inside' = Inside /\ LastData' = LastData /\ Starting' = Starting
    BY <2>1 DEF Inside, LastData, Starting
  <2> HIDE DEF Inside, LastData, Starting
  <2> QED
    BY <2>1, <2>3, <2>4, <2>5 DEF OrderInv
<1> QED
  BY <1>1, <1>2, <1>3, <1>4 DEF Opening, Reading

\* The read loop's steps keep the chunks in order, and lose none while the stream is
\* open (serve, deliver).
LEMMA OrderLoop ==
    ASSUME StreamTypeOK, OnceInv, BytesInv, InboxInv, OrderInv, Delivering
    PROVE  OrderInv'
<1>t. closing \in [Actors -> {"no", "entering", "marking", "shutting", "telling"}]
      /\ why \in [Actors -> Reasons] /\ "loop" \in Actors
  BY DEF StreamTypeOK, OnceInv, Actors
<1>n. Len(data) \in Nat /\ received \in Nat /\ produced \in Nat /\ data \in Seq(Chunk)
  BY LenProperties DEF StreamTypeOK, BytesInv
<1>1. CASE DeliverCheck
  <2>1. /\ UNCHANGED <<data, received, produced, holding, inbox, agent, done, cause, registered, closing, why, caller>>
        /\ loop = "checking" /\ loop' = IF done THEN "reading" ELSE "counting"
    BY <1>1 DEF DeliverCheck, LoopStep, callerVars, streamVars, closeVars, agentVars
  <2>2. LastData' = LastData /\ Starting' = Starting /\ (~done => Inside' = Inside)
    BY <2>1 DEF LastData, Starting, Inside
  <2>3. ~(done /\ cause = "none" /\ caller # "gone")
    BY <2>1 DEF OrderInv
  <2>4. ~done => holding.number = received + Len(data) + 1
    BY <2>1 DEF OrderInv
  <2> QED
    BY <2>1, <2>2, <2>3, <2>4 DEF OrderInv
<1>2. CASE DeliverCount
  <2>1. /\ UNCHANGED <<data, received, produced, holding, inbox, agent, done, cause, registered, caller>>
        /\ loop = "counting" /\ closing["loop"] = "no"
        /\ \/ loop' = "reading" /\ closing'["loop"] = "entering" /\ why'["loop"] = "backlog"
           \/ loop' = "pushing" /\ UNCHANGED <<closing, why>>
    BY <1>2, <1>t DEF DeliverCount, LoopStep, StartClose, callerVars, closeVars, agentVars
  <2>2. LastData' = LastData /\ Starting' = Starting /\ (loop' = "pushing" => Inside' = Inside)
    BY <2>1 DEF LastData, Starting, Inside
  <2>3. ~(done /\ cause = "none" /\ caller # "gone")
    BY <2>1 DEF OrderInv
  <2>4. holding.number = received + Len(data) + 1
    BY <2>1 DEF OrderInv
  <2> QED
    BY <2>1, <2>2, <2>3, <2>4 DEF OrderInv
<1>3. CASE DeliverPush
  <2>1. /\ UNCHANGED <<received, produced, holding, inbox, agent, done, cause, registered, caller>>
        /\ loop = "pushing" /\ closing["loop"] = "no"
        /\ \/ loop' = "reading" /\ UNCHANGED <<closing, why>> /\ data' = Append(data, holding)
           \/ loop' = "reading" /\ closing'["loop"] = "entering" /\ why'["loop"] = "backlog" /\ UNCHANGED data
           \/ loop' = "panicked" /\ UNCHANGED <<closing, why, data>>
    BY <1>3, <1>t DEF DeliverPush, LoopStep, StartClose, callerVars, closeVars, agentVars
  <2>2. ~(done /\ cause = "none" /\ caller # "gone")
    BY <2>1 DEF OrderInv
  <2>3. holding.number = received + Len(data) + 1
    BY <2>1 DEF OrderInv
  <2>4. CASE data' = data
    <3>1. ~(~done' /\ registered' /\ closing'["loop"] = "no" /\ loop' # "panicked") \/ data' = Append(data, holding)
      BY <2>1
    <3>2. Append(data, holding) # data
      <4>1. holding \in Chunk
        BY <2>1 DEF BytesInv
      <4>2. Len(Append(data, holding)) = Len(data) + 1
        BY <1>n, <4>1, AppendProperties
      <4>3. Len(data) + 1 # Len(data)
        BY <1>n
      <4> QED
        BY <4>2, <4>3
    <3>3. loop' \in {"reading", "panicked"} /\ (closing'["loop"] # "no" => why'["loop"] # "none")
      BY <2>1
    <3> QED
      BY <2>1, <2>2, <2>4, <3>1, <3>2, <3>3 DEF OrderInv
  <2>5. CASE data' = Append(data, holding) /\ loop' = "reading" /\ UNCHANGED <<closing, why>>
    <3>1. holding \in Chunk
      BY <2>1 DEF BytesInv
    <3>2. /\ Len(data') = Len(data) + 1 /\ data'[Len(data) + 1] = holding
          /\ \A k \in 1..Len(data) : data'[k] = data[k]
      BY <1>n, <2>5, <3>1, AppendProperties
    <3>3. ASSUME NEW k \in 1..Len(data') PROVE data'[k].number = received' + k
      <4>1. k \in 1..Len(data) \/ k = Len(data) + 1
        BY <1>n, <3>2
      <4>2. CASE k \in 1..Len(data)
        BY <2>1, <3>2, <4>2 DEF OrderInv
      <4>3. CASE k = Len(data) + 1
        <5>1. received + Len(data) + 1 = received + k
          BY <1>n, <4>3
        <5> QED
          BY <2>1, <2>3, <3>2, <4>3, <5>1
      <4> QED
        BY <4>1, <4>2, <4>3
    <3>4. /\ LastData' = LastData /\ Starting' = Starting /\ Inside' = 0 /\ Inside = 1
      BY <2>1, <2>5 DEF LastData, Starting, Inside
    <3>5. received' + Len(data') + Inside' = received + Len(data) + Inside
      BY <1>n, <2>1, <3>2, <3>4
    <3> QED
      BY <2>1, <2>2, <2>5, <3>3, <3>4, <3>5 DEF OrderInv
  <2> QED
    BY <2>1, <2>4, <2>5
<1>4. CASE LoopStops
  <2>1. /\ UNCHANGED <<data, received, produced, holding, inbox, agent, done, cause, registered, closing, why, caller>>
        /\ loop = "reading" /\ loop' = "stopped"
    BY <1>4 DEF LoopStops, LoopStep, callerVars, streamVars, closeVars, agentVars
  <2>2. LastData' = LastData /\ Starting' = Starting /\ Inside' = Inside
    BY <2>1 DEF LastData, Starting, Inside
  <2> QED
    BY <2>1, <2>2 DEF OrderInv
<1>5. CASE ReadFrame
  <2> DEFINE f == inbox[1]
  <2>1. /\ UNCHANGED <<data, received, produced, agent, done, cause, registered, caller>>
        /\ inbox # <<>> /\ inbox' = Tail(inbox) /\ loop = "reading" /\ closing["loop"] = "no"
    BY <1>5 DEF ReadFrame, LoopStep, callerVars
  <2>2. /\ Head(inbox) = f /\ 1 \in 1..Len(inbox) /\ f \in Frame
        /\ f.type # "close" => LastData' = LastData - 1
        /\ f.type = "close" => Len(inbox) = 1 /\ LastData = 0 /\ inbox' = <<>>
        /\ LastData \in Int /\ Starting' = 0
        /\ Starting = IF f.type = "start" THEN 1 ELSE 0
    BY <2>1, InboxTail
  <2>3. ~(done /\ cause = "none" /\ caller # "gone")
    BY <2>1 DEF OrderInv
  <2>4. \A k \in 1..Len(data') : data'[k].number = received' + k
    BY <2>1 DEF OrderInv
  <2>5. CASE ~registered
    <3>1. loop' = "reading" /\ UNCHANGED closing
      BY <1>5, <2>5 DEF ReadFrame, LoopStep, closeVars
    <3> QED
      BY <2>1, <2>3, <2>4, <2>5, <3>1 DEF OrderInv
  <2>6. CASE registered /\ done
    <3>1. loop' \in {"reading", "checking"}
      BY <1>5, <2>6 DEF ReadFrame, LoopStep
    <3> QED
      BY <2>1, <2>3, <2>4, <2>6, <3>1 DEF OrderInv
  <2>7. CASE registered /\ ~done
    <3>1. produced = received + Len(data) + LastData - Starting
      <4>1. produced = received + Len(data) + Inside + LastData - Starting
        BY <2>1, <2>7 DEF OrderInv
      <4>2. Inside = 0
        BY <2>1 DEF Inside
      <4> QED
        BY <1>n, <2>2, <4>1, <4>2
    <3>2. CASE f.type = "start"
      <4>1. loop' = "reading" /\ UNCHANGED <<closing, why>>
        BY <1>5, <2>2, <2>7, <3>2 DEF ReadFrame, LoopStep, closeVars
      <4>2. Inside' = 0
        BY <4>1 DEF Inside
      <4>3. produced' = received' + Len(data') + Inside' + LastData' - Starting'
        BY <1>n, <2>1, <2>2, <3>1, <3>2, <4>2
      <4> QED
        BY <2>1, <2>4, <2>7, <4>1, <4>3 DEF OrderInv
    <3>3. CASE f.type = "data"
      <4>1. loop' = "checking" /\ holding' = f.chunk /\ UNCHANGED <<closing, why>>
        BY <1>5, <2>2, <2>7, <3>3 DEF ReadFrame, LoopStep, closeVars
      <4>2. Inside' = 1
        BY <4>1 DEF Inside
      <4>3. Starting = 0 /\ Starting' = 0 /\ LastData' = LastData - 1
        BY <2>2, <3>3
      <4>4. produced' = received' + Len(data') + Inside' + LastData' - Starting'
        BY <1>n, <2>1, <2>2, <3>1, <4>2, <4>3
      <4>5. f.chunk.number = produced - LastData + 1
        BY <2>2, <3>3 DEF InboxInv
      <4>6. f.chunk.number = received + Len(data) + 1
        BY <1>n, <2>2, <3>1, <4>3, <4>5
      <4> QED
        BY <2>1, <2>4, <2>7, <4>1, <4>4, <4>6 DEF OrderInv
    <3>4. CASE f.type = "close"
      <4>1. loop' = "reading" /\ closing'["loop"] = "entering" /\ agent = "ended" /\ inbox' = <<>>
        BY <1>5, <1>t, <2>2, <2>7, <3>4 DEF ReadFrame, LoopStep, StartClose, InboxInv
      <4>2. received + Len(data) = produced
        BY <1>n, <2>2, <3>1, <3>4
      <4> QED
        BY <2>1, <2>4, <2>7, <4>1, <4>2 DEF OrderInv
    <3>5. f.type \in {"start", "data", "close"}
      BY <2>2 DEF Frame
    <3> QED
      BY <3>2, <3>3, <3>4, <3>5
  <2> QED
    BY <2>5, <2>6, <2>7
<1> QED
  BY <1>1, <1>2, <1>3, <1>4, <1>5 DEF Delivering

\* The agent's frames keep the chunks in order.
LEMMA OrderAgent ==
    ASSUME BytesInv, InboxInv, OrderInv, StreamTypeOK, AgentStart \/ AgentData \/ AgentClose
    PROVE  OrderInv'
<1>1. PICK f \in Frame :
             /\ inbox' = Append(inbox, f) /\ agent # "ended" /\ agent' # "silent"
             /\ UNCHANGED <<received, data, loop, caller, done, registered, closing, why, cause, holding>>
             /\ \/ /\ f.type = "start" /\ inbox = <<>> /\ produced' = produced
                \/ /\ f.type = "data" /\ produced' = produced + 1
                \/ /\ f.type = "close" /\ produced' = produced
  BY AgentSends
<1>2. /\ LastData = Len(inbox) /\ Len(inbox) \in Nat
      /\ LastData' = IF f.type = "close" THEN Len(inbox) ELSE Len(inbox) + 1
      /\ Starting' = IF inbox = <<>> THEN (IF f.type = "start" THEN 1 ELSE 0) ELSE Starting
  BY <1>1, InboxAppend
<1>3. Starting \in {0, 1} /\ (inbox = <<>> => Starting = 0) /\ produced \in Nat
  BY DEF Starting, BytesInv
<1>4. produced' - LastData' + Starting' = produced - LastData + Starting
  <2>1. CASE f.type = "start"
    BY <1>1, <1>2, <1>3, <2>1
  <2>2. CASE f.type \in {"data", "close"}
    <3>1. Starting' = Starting
      BY <1>2, <1>3, <2>2
    <3>2. produced' - LastData' = produced - LastData
      BY <1>1, <1>2, <1>3, <2>2
    <3> QED
      BY <1>2, <1>3, <3>1, <3>2, <1>1
  <2> QED
    BY <1>1, <2>1, <2>2
<1>5. Inside' = Inside /\ Inside \in {0, 1} /\ Len(data) \in Nat /\ received \in Nat
  BY <1>1, LenProperties DEF Inside, StreamTypeOK, BytesInv
<1>6. LastData' \in Int /\ Starting' \in Int /\ produced' \in Int
  BY <1>1, <1>2, <1>3
<1>7. ASSUME produced = received + Len(data) + Inside + LastData - Starting
      PROVE  produced' = received' + Len(data') + Inside' + LastData' - Starting'
  <2>1. received' = received /\ Len(data') = Len(data) /\ Inside' = Inside
    BY <1>1, <1>5
  <2>2. LastData \in Int /\ Starting \in Int /\ Inside \in Int
    BY <1>2, <1>3, <1>5
  <2>3. produced - LastData + Starting = received + Len(data) + Inside
    BY <1>3, <1>5, <1>7, <2>2
  <2>4. produced' - LastData' + Starting' = received + Len(data) + Inside
    BY <1>4, <2>3
  <2>5. produced' = received + Len(data) + Inside + LastData' - Starting'
    BY <1>5, <1>6, <2>2, <2>4
  <2> QED
    BY <2>1, <2>5
<1> QED
  BY <1>1, <1>7 DEF OrderInv

\* Every step keeps the chunks in order.
LEMMA OrderStep ==
    ASSUME StreamTypeOK, OnceInv, BytesInv, InboxInv, OrderInv, StreamNext
    PROVE  OrderInv'
<1>1. CASE CloseTunnel \/ CloseStreams \/ LaneMoves
  <2>1. /\ UNCHANGED <<data, received, produced, holding, loop, inbox, agent, done, cause, registered, caller>>
    BY <1>1 DEF CloseTunnel, CloseStreams, LaneMoves, callerVars, loopVars, streamVars, agentVars
  <2>2. closing'["loop"] = closing["loop"] /\ why'["loop"] = why["loop"]
    BY <1>1 DEF CloseTunnel, CloseStreams, LaneMoves, StartClose, closeVars, StreamTypeOK, OnceInv, Actors
  <2> QED
    BY <2>1, <2>2, OrderFrame
<1> QED
  BY <1>1, OrderClosing, OrderCaller, OrderLoop, OrderAgent DEF StreamNext

-----------------------------------------------------------------------------
\* The relay ends only once Chunks is closed and drained.
EndInv == kind = "relay" /\ caller = "ended" => dataClosed /\ data = <<>>

\* Every step keeps that: nothing is buffered behind a close.
LEMMA EndStep ==
    ASSUME StreamTypeOK, OnceInv, EndInv, StreamNext
    PROVE  EndInv'
<1> USE DEF EndInv
<1>1. ASSUME NEW a \in Actors, Close(a) PROVE EndInv'
  BY <1>1 DEF Close, CloseEnter, CloseMark, CloseShut, CloseTell, callerVars
<1>2. CASE Opening
  BY <1>2 DEF Opening, OpenCheck, OpenRegister, OpenSend, OpenFails, OpenAnswered, OpenTimeout, Step
<1>3. CASE Reading
  BY <1>3 DEF Reading, ReadChunk, Handle, ReadEnd, Leave, SeesEnd, Step, streamVars
<1>4. CASE Delivering
  BY <1>4 DEF Delivering, ReadFrame, DeliverCheck, DeliverCount, DeliverPush, LoopStops, callerVars, streamVars
<1>5. CASE CloseTunnel \/ CloseStreams \/ LaneMoves \/ AgentStart \/ AgentData \/ AgentClose
  BY <1>5 DEF CloseTunnel, CloseStreams, LaneMoves, AgentStart, AgentData, AgentClose, callerVars, streamVars
<1> QED
  BY <1>1, <1>2, <1>3, <1>4, <1>5 DEF StreamNext

\* Every reachable state keeps the accounts of the stream.
THEOREM StreamAccounts == StreamSpec => [](StreamInv /\ EndInv)
<1>1. StreamInit => StreamInv /\ EndInv
  BY StreamStart DEF StreamInit, EndInv
<1>2. StreamInv /\ EndInv /\ [StreamNext]_streamAllVars => (StreamInv /\ EndInv)'
  <2>1. CASE StreamNext
    BY <2>1, OnceStep, BytesStep, InboxStep, OrderStep, EndStep DEF StreamInv
  <2>2. CASE UNCHANGED streamAllVars
    <3>1. UNCHANGED <<kind, caller, inHand, received, loop, holding, registered, head, data, queued, done,
                      dataClosed, cause, once, closing, why, inbox, agent, produced>>
      BY <2>2 DEF streamAllVars, callerVars, loopVars, streamVars, closeVars, agentVars
    <3>2. (StreamTypeOK => StreamTypeOK') /\ (OnceInv => OnceInv')
      BY <3>1 DEF StreamTypeOK, OnceInv
    <3>3. BytesInv => BytesInv'
      BY <3>1 DEF BytesInv, Pushed, BytesOf
    <3>4. InboxInv => InboxInv'
      BY <3>1 DEF InboxInv, LastData
    <3>5. OrderInv => OrderInv'
      BY <3>1 DEF OrderInv, Inside, LastData, Starting
    <3>6. EndInv => EndInv'
      BY <3>1 DEF EndInv
    <3> QED
      BY <3>2, <3>3, <3>4, <3>5, <3>6 DEF StreamInv
  <2> QED
    BY <2>1, <2>2
<1> QED
  BY <1>1, <1>2, PTL DEF StreamSpec

\* For every buffer size and every caller that releases what it reads, the budget
\* of the stream is exactly what is buffered, in the caller's hand or on its way
\* into the buffer (deliver, Consumed).
THEOREM BudgetIsExact == StreamSpec => []BudgetExact
<1>1. StreamInv => BudgetExact
  BY DEF StreamInv, BudgetExact, QueuedExact, BytesInv, Pushed
<1> QED
  BY <1>1, StreamAccounts, PTL

\* The chunk that the caller reads is the next one.
LEMMA NextInOrder ==
    ASSUME StreamInv, StreamNext, received' # received
    PROVE  Head(data).number = received + 1
<1>1. data # <<>>
  BY DEF StreamNext, Opening, Reading, Delivering, Close, OpenCheck, OpenRegister, OpenSend, OpenFails,
         OpenAnswered, OpenTimeout, ReadChunk, Handle, ReadEnd, Leave, ReadFrame, DeliverCheck, DeliverCount,
         DeliverPush, LoopStops, CloseEnter, CloseMark, CloseShut, CloseTell, CloseTunnel, CloseStreams,
         LaneMoves, AgentStart, AgentData, AgentClose, callerVars
<1>2. data \in Seq(Chunk)
  BY DEF StreamInv, StreamTypeOK
<1>3. Head(data) = data[1] /\ 1 \in 1..Len(data)
  BY <1>1, <1>2, HeadTailProperties, LenProperties, EmptySeq
<1> QED
  BY <1>3 DEF StreamInv, OrderInv

\* The read loop gives up only a full buffer (deliver).
LEMMA BacklogIsFull ==
    ASSUME StreamInv, StreamNext, kind # "events"
    PROVE  LeftUnread
<1> SUFFICES ASSUME closing["loop"] = "no", closing'["loop"] = "entering", why'["loop"] = "backlog"
             PROVE  Unread + holding.size > BufferBytes \/ Len(data) = BufferChunks
  BY DEF LeftUnread
<1>t. closing \in [Actors -> {"no", "entering", "marking", "shutting", "telling"}]
      /\ why \in [Actors -> Reasons] /\ "loop" \in Actors
  BY DEF StreamInv, StreamTypeOK, OnceInv, Actors
<1>1. DeliverCount \/ DeliverPush \/ ReadFrame
  <2>1. ASSUME NEW a \in Actors, Close(a) PROVE FALSE
    <3>1. closing'["loop"] = "entering" => closing["loop"] = "entering"
      BY <2>1, <1>t DEF Close, CloseEnter, CloseMark, CloseShut, CloseTell, CloseStep
    <3> QED
      BY <3>1
  <2>2. Opening \/ Reading => FALSE
    BY <1>t DEF Opening, Reading, OpenCheck, OpenRegister, OpenSend, OpenFails, OpenAnswered, OpenTimeout,
         ReadChunk, Handle, ReadEnd, Leave, StartClose, closeVars
  <2>3. DeliverCheck \/ LoopStops \/ CloseTunnel \/ CloseStreams \/ LaneMoves \/ AgentStart \/ AgentData \/ AgentClose => FALSE
    BY <1>t DEF DeliverCheck, LoopStops, CloseTunnel, CloseStreams, LaneMoves, AgentStart, AgentData, AgentClose,
                StartClose, closeVars
  <2> QED
    BY <2>1, <2>2, <2>3 DEF StreamNext, Delivering
<1>2. CASE ReadFrame
  <2>1. inbox # <<>> /\ Head(inbox).type = "close" /\ why'["loop"] = Head(inbox).head
    BY <1>2, <1>t DEF ReadFrame, StartClose, closeVars
  <2>2. inbox \in Seq(Frame)
    BY DEF StreamInv, InboxInv
  <2>3. Head(inbox) = inbox[1] /\ 1 \in 1..Len(inbox)
    BY <2>1, <2>2, HeadTailProperties, LenProperties, EmptySeq
  <2>4. inbox[1].head \in {"none", "agent"}
    BY <2>1, <2>3 DEF StreamInv, InboxInv
  <2> QED
    BY <2>1, <2>3, <2>4
<1>3. CASE DeliverCount
  <2>1. queued + holding.size > BufferBytes /\ loop = "counting"
    BY <1>3, <1>t DEF DeliverCount, LoopStep, closeVars
  <2>2. queued = BytesOf(data) + inHand + Pushed
    BY <2>1 DEF StreamInv, BytesInv
  <2>3. Pushed = 0 /\ inHand \in Nat
    BY <2>1 DEF Pushed, StreamInv, BytesInv
  <2>4. BytesOf(data) \in Nat
    BY SizesType DEF StreamInv, StreamTypeOK
  <2>5. queued = Unread
    BY <2>2, <2>3, <2>4 DEF Unread
  <2> QED
    BY <2>1, <2>5
<1>4. CASE DeliverPush
  BY <1>4, <1>t DEF DeliverPush, closeVars
<1> QED
  BY <1>1, <1>2, <1>3, <1>4

\* For every buffer size and any number of chunks, nothing is lost between the
\* agent and the caller: a stream read to its clean end is whole, its chunks come
\* in order without a gap, and only a full buffer its caller has left unread makes
\* the read loop give a stream up (deliver, Close, streamproxy.go).
THEOREM NothingIsLost == StreamSpec => NothingLost
<1>1. StreamInv /\ EndInv => CleanEndIsWhole
  <2> SUFFICES ASSUME StreamInv, EndInv, kind = "relay", caller = "ended", cause = "none"
               PROVE  received = produced
    BY DEF CleanEndIsWhole, EndIsWhole
  <2>1. received + Len(data) = produced /\ Len(data) = 0
    BY EmptySeq DEF StreamInv, OnceInv, OrderInv, EndInv
  <2> QED
    BY <2>1 DEF StreamInv, BytesInv
<1>2. StreamInv /\ [StreamNext]_streamAllVars => [received' # received => Head(data).number = received + 1]_streamAllVars
  <2>1. UNCHANGED streamAllVars => UNCHANGED received
    BY DEF streamAllVars, callerVars
  <2> QED
    BY <2>1, NextInOrder
<1>3. StreamInv /\ [StreamNext]_streamAllVars => [kind # "events" => LeftUnread]_streamAllVars
  BY BacklogIsFull
<1>4. StreamSpec => ChunksInOrder
  BY <1>2, StreamAccounts, PTL DEF StreamSpec, ChunksInOrder
<1>5. StreamSpec => BacklogMeansBehind
  BY <1>3, StreamAccounts, PTL DEF StreamSpec, BacklogMeansBehind
<1>6. StreamSpec => []CleanEndIsWhole
  BY <1>1, StreamAccounts, PTL
<1> QED
  BY <1>4, <1>5, <1>6 DEF NothingLost

-----------------------------------------------------------------------------
(* The event buffer. *)

\* What trimLocked leaves: within the bound, the filed arrivals but those that go.
LEMMA TrimLeaves ==
    ASSUME NEW filed, NEW come \in Seq(Uids), IsInjective(come)
    PROVE  LET t == Trimmed(filed, come)
           IN  /\ t.order \in Seq(Uids) /\ Len(t.order) <= BufferSize /\ IsInjective(t.order)
               /\ Range(t.order) = (Range(come) \cap filed) \ t.gone /\ t.gone \subseteq Uids
<1> DEFINE known == KeepOnly(come, filed)
           over == IF Len(known) > BufferSize THEN Len(known) - BufferSize ELSE 0
           order == SubSeq(known, over + 1, Len(known))
           gone == {known[i] : i \in 1..over}
<1>1. known \in Seq(Uids) /\ Range(known) = Range(come) \cap filed /\ IsInjective(known)
  BY KeepOnlyType, KeepOnlyRange, KeepOnlyInjective
<1>2. Trimmed(filed, come) = [order |-> order, gone |-> gone]
  BY DEF Trimmed
<1> HIDE DEF known
<1>3. /\ Len(known) \in Nat /\ BufferSize \in Nat /\ over \in 0..Len(known)
      /\ Len(known) - over <= BufferSize /\ known \in [1..Len(known) -> Uids]
  BY <1>1, LenProperties, RingBounds
<1> HIDE DEF over
<1>4. /\ order \in Seq(Uids) /\ Len(order) = Len(known) - over
      /\ \A i \in 1..Len(known) - over : order[i] = known[over + i]
  <2>1. \A i \in over + 1..Len(known) : known[i] \in Uids
    BY <1>3
  <2>2. over + 1 \in Int /\ Len(known) \in Int
    BY <1>3
  <2>3. /\ order \in Seq(Uids)
        /\ Len(order) = IF over + 1 <= Len(known) THEN Len(known) - (over + 1) + 1 ELSE 0
        /\ \A i \in 1..Len(known) - (over + 1) + 1 : order[i] = known[over + 1 + i - 1]
    BY <2>1, <2>2, SubSeqProperties
  <2>4. Len(known) - (over + 1) + 1 = Len(known) - over
        /\ (~(over + 1 <= Len(known)) => Len(known) - over = 0)
    <3>1. over \in Int /\ Len(known) \in Int /\ over <= Len(known)
      BY <1>3
    <3> QED
      BY <3>1
  <2>5. \A i \in 1..Len(known) - over : over + 1 + i - 1 = over + i
    BY <1>3
  <2>6. \A i \in 1..Len(known) - over : order[i] = known[over + i]
    BY <2>3, <2>4, <2>5
  <2> QED
    BY <2>3, <2>4, <2>6
<1> HIDE DEF order
<1>5. DOMAIN order = 1..Len(known) - over /\ DOMAIN known = 1..Len(known)
  BY <1>1, <1>4, LenProperties
<1>6. \A i \in 1..Len(known) - over : over + i \in 1..Len(known)
  BY <1>3
<1>7. IsInjective(order)
  <2> SUFFICES ASSUME NEW i \in 1..Len(known) - over, NEW j \in 1..Len(known) - over, order[i] = order[j]
               PROVE  i = j
    BY <1>5 DEF IsInjective
  <2>1. over + i = over + j
    BY <1>1, <1>4, <1>5, <1>6 DEF IsInjective
  <2> QED
    BY <1>3, <2>1
<1>8. Range(order) = Range(known) \ gone
  <2>1. ASSUME NEW u \in Range(order) PROVE u \in Range(known) \ gone
    <3>1. PICK i \in 1..Len(known) - over : u = order[i]
      BY <1>5 DEF Range
    <3>2. u = known[over + i] /\ over + i \in 1..Len(known)
      BY <1>4, <1>6, <3>1
    <3>3. ASSUME NEW j \in 1..over, u = known[j] PROVE FALSE
      <4>1. j \in 1..Len(known) /\ j # over + i
        BY <1>3
      <4> QED
        BY <1>1, <1>5, <3>2, <3>3, <4>1 DEF IsInjective
    <3> QED
      BY <1>5, <3>2, <3>3 DEF Range
  <2>2. ASSUME NEW u \in Range(known) \ gone PROVE u \in Range(order)
    <3>1. PICK k \in 1..Len(known) : u = known[k]
      BY <1>5 DEF Range
    <3>2. k \notin 1..over
      BY <3>1
    <3>3. k - over \in 1..Len(known) - over /\ over + (k - over) = k
      BY <1>3, <3>2
    <3>4. order[k - over] = u
      BY <1>4, <3>1, <3>3
    <3> QED
      BY <1>5, <3>3, <3>4 DEF Range
  <2> QED
    BY <2>1, <2>2
<1>9. gone \subseteq Uids
  <2>1. \A i \in 1..over : i \in 1..Len(known)
    BY <1>3
  <2> QED
    BY <1>3, <2>1
<1> HIDE DEF gone
<1> QED
  BY <1>1, <1>2, <1>3, <1>4, <1>7, <1>8, <1>9

-----------------------------------------------------------------------------
\* u has been deleted by version v.
Deleted(u, v) == \E i \in 1..v : changes[i] = [uid |-> u, type |-> "del"]

\* The cluster's changes: what is deleted does not come back.
ChangesInv ==
    /\ changes \in Seq([uid : Uids, type : {"put", "del"}])
    /\ \A i, j \in 1..Len(changes) : changes[i].type = "del" /\ i < j => changes[j].uid # changes[i].uid

\* The ring between two lists.
ListInv ==
    /\ arrived \in Seq(Uids) /\ left \subseteq Uids
    /\ feed \in {"none", "first"} => byUID = {} /\ arrived = <<>>
    /\ feed = "pages" => /\ byUID \cup pages \subseteq HeldAt(listed)
                         /\ HeldAt(listed) \subseteq byUID \cup pages \cup left
                         /\ Range(arrived) = byUID
    /\ feed = "watch" => \A u \in Range(arrived) : u \in byUID \/ Deleted(u, position)

\* The inductive invariant.
RingInv == RingTypeOK /\ RingFollows /\ ChangesInv /\ ListInv

\* A change that is put after version v, or one before it, leaves HeldAt(v) alone.
LEMMA HeldStays ==
    ASSUME ChangesInv, NEW c \in [uid : Uids, type : {"put", "del"}], changes' = Append(changes, c),
           NEW v \in 0..Len(changes)
    PROVE  HeldAt(v)' = HeldAt(v) /\ \A u : Deleted(u, v)' <=> Deleted(u, v)
<1>1. /\ Len(changes) \in Nat /\ \A i \in 1..Len(changes) : changes'[i] = changes[i]
  BY AppendProperties, LenProperties DEF ChangesInv
<1>2. \A i \in 1..v : i \in 1..Len(changes) /\ changes'[i] = changes[i]
  BY <1>1
<1>3. \A i \in 1..v : \A j \in (i + 1)..v : j \in 1..v
  BY <1>1
<1>4. HeldAt(v)' = HeldAt(v)
  BY <1>2, <1>3 DEF HeldAt
<1> QED
  BY <1>2, <1>4 DEF Deleted

\* What one more change does to what is held.
LEMMA HeldNext ==
    ASSUME ChangesInv, NEW v \in Nat, v < Len(changes)
    PROVE  LET c == changes[v + 1]
           IN  HeldAt(v + 1) = IF c.type = "put" THEN HeldAt(v) \cup {c.uid} ELSE HeldAt(v) \ {c.uid}
<1> DEFINE c == changes[v + 1]
<1>1. Len(changes) \in Nat /\ v + 1 \in 1..Len(changes) /\ c \in [uid : Uids, type : {"put", "del"}]
  <2>1. Len(changes) \in Nat /\ changes \in Seq([uid : Uids, type : {"put", "del"}])
    BY LenProperties DEF ChangesInv
  <2>2. v + 1 \in 1..Len(changes)
    BY <2>1
  <2> QED
    BY <2>1, <2>2, ElementOfSeq
<1>2. \A i \in 1..v : i \in 1..v + 1 /\ v + 1 \in (i + 1)..v + 1 /\ i # v + 1
  BY DEF ChangesInv
<1>3. \A i : i \in 1..v + 1 <=> i \in 1..v \/ i = v + 1
  OBVIOUS
<1>4. \A i \in 1..v : \A j : j \in (i + 1)..v + 1 <=> j \in (i + 1)..v \/ j = v + 1
  OBVIOUS
<1>5. \A j : j \notin (v + 1 + 1)..v + 1
  OBVIOUS
<1>6. ASSUME NEW u \in Uids, u # c.uid PROVE u \in HeldAt(v + 1) <=> u \in HeldAt(v)
  <2>1. c # [uid |-> u, type |-> "put"]
    BY <1>6
  <2>2. ASSUME u \in HeldAt(v) PROVE u \in HeldAt(v + 1)
    <3>1. PICK i \in 1..v : changes[i] = [uid |-> u, type |-> "put"]
                            /\ \A j \in (i + 1)..v : changes[j].uid = u => changes[j].type = "put"
      BY <2>2 DEF HeldAt
    <3>2. \A j \in (i + 1)..v + 1 : changes[j].uid = u => changes[j].type = "put"
      BY <1>4, <1>6, <3>1
    <3>3. i \in 1..v + 1
      BY <1>2
    <3> QED
      BY <3>1, <3>2, <3>3 DEF HeldAt
  <2>3. ASSUME u \in HeldAt(v + 1) PROVE u \in HeldAt(v)
    <3>1. PICK i \in 1..v + 1 : changes[i] = [uid |-> u, type |-> "put"]
                            /\ \A j \in (i + 1)..v + 1 : changes[j].uid = u => changes[j].type = "put"
      BY <2>3 DEF HeldAt
    <3>2. i \in 1..v
      BY <1>3, <2>1, <3>1
    <3>3. \A j \in (i + 1)..v : changes[j].uid = u => changes[j].type = "put"
      BY <1>4, <3>1, <3>2
    <3> QED
      BY <3>1, <3>2, <3>3 DEF HeldAt
  <2> QED
    BY <2>2, <2>3
<1>7. CASE c.type = "put"
  <2>1. c = [uid |-> c.uid, type |-> "put"] /\ c.uid \in Uids
    BY <1>1, <1>7
  <2>2. c.uid \in HeldAt(v + 1)
    <3>1. v + 1 \in 1..v + 1
      BY <1>1
    <3> QED
      BY <1>5, <2>1, <3>1 DEF HeldAt
  <2>3. HeldAt(v + 1) \subseteq Uids /\ HeldAt(v) \subseteq Uids
    BY DEF HeldAt
  <2> QED
    BY <1>6, <1>7, <2>1, <2>2, <2>3
<1>8. CASE c.type = "del"
  <2>1. c.uid \notin HeldAt(v + 1)
    <3> SUFFICES ASSUME c.uid \in HeldAt(v + 1) PROVE FALSE
      OBVIOUS
    <3>1. PICK i \in 1..v + 1 : changes[i] = [uid |-> c.uid, type |-> "put"]
                            /\ \A j \in (i + 1)..v + 1 : changes[j].uid = c.uid => changes[j].type = "put"
      BY DEF HeldAt
    <3>2. i \in 1..v
      BY <1>3, <1>8, <3>1
    <3> QED
      BY <1>2, <1>8, <3>1, <3>2
  <2>2. HeldAt(v + 1) \subseteq Uids /\ HeldAt(v) \subseteq Uids
    BY DEF HeldAt
  <2> QED
    BY <1>6, <1>8, <2>1, <2>2
<1> QED
  BY <1>1, <1>7, <1>8

\* What put does to the ring: u is filed, and the oldest arrivals make room.
LEMMA PutMeans ==
    ASSUME NEW u \in Uids, PutEvent(u), RingTypeOK, ListInv, u \in Range(arrived) => u \in byUID
    PROVE  /\ arrived' \in Seq(Uids) /\ Len(arrived') <= BufferSize /\ IsInjective(arrived')
           /\ Range(arrived') = byUID' /\ left' \subseteq Uids /\ left \subseteq left'
           /\ byUID' \subseteq byUID \cup {u}
           /\ byUID \cup {u} \subseteq byUID' \cup left'
           /\ skipped' = skipped \ {u}
<1> DEFINE come == IF u \in byUID THEN arrived ELSE Append(arrived, u)
           filed == byUID \cup {u}
           t == Trimmed(filed, come)
<1>1. arrived \in Seq(Uids) /\ byUID \subseteq Range(arrived) /\ IsInjective(arrived) /\ left \subseteq Uids
      /\ byUID \subseteq Uids
  <2>1. arrived \in Seq(Uids) /\ byUID \subseteq Range(arrived) /\ IsInjective(arrived) /\ left \subseteq Uids
    BY DEF RingTypeOK, ListInv
  <2>2. Range(arrived) \subseteq Uids
    BY <2>1, LenProperties DEF Range
  <2> QED
    BY <2>1, <2>2
<1>2. come \in Seq(Uids) /\ IsInjective(come) /\ Range(come) \cap filed = filed
  <2>1. CASE u \in byUID
    BY <1>1, <2>1
  <2>2. CASE u \notin byUID
    <3>0. u \notin Range(arrived)
      BY <2>2
    <3>1. Append(arrived, u) \in Seq(Uids) /\ IsInjective(Append(arrived, u))
      BY <1>1, <3>0, AppendProperties, AppendNew
    <3>2. Range(Append(arrived, u)) = Range(arrived) \cup {u}
      BY <1>1, RangeAppend
    <3> QED
      BY <1>1, <2>2, <3>1, <3>2
  <2> QED
    BY <2>1, <2>2
<1>3. /\ byUID' = filed \ t.gone /\ arrived' = t.order /\ left' = left \cup t.gone
      /\ skipped' = skipped \ {u}
  BY DEF PutEvent
<1>4. t.order \in Seq(Uids) /\ Len(t.order) <= BufferSize /\ IsInjective(t.order)
      /\ Range(t.order) = filed \ t.gone /\ t.gone \subseteq Uids
  BY <1>2, TrimLeaves
<1> QED
  BY <1>1, <1>3, <1>4

\* It holds of the empty ring.
LEMMA RingStart == RingInit => RingInv
<1> SUFFICES ASSUME RingInit PROVE RingInv
  OBVIOUS
<1>1. <<>> \in Seq(Uids) /\ <<>> \in Seq([uid : Uids, type : {"put", "del"}]) /\ Len(<<>>) = 0
      /\ IsInjective(<<>>) /\ 0 <= BufferSize
  BY EmptySeq, RingBounds DEF IsInjective
<1>2. RingTypeOK
  <2>1. 0 \in 0..Len(changes) /\ Len(arrived) <= BufferSize /\ IsInjective(arrived)
    BY <1>1 DEF RingInit
  <2>2. feed = "none" /\ listed = 0 /\ position = 0 /\ pages = {} /\ byUID = {} /\ synced = FALSE
       /\ skipped = {}
    BY DEF RingInit
  <2> QED
    BY <2>1, <2>2 DEF RingTypeOK
<1> QED
  BY <1>1, <1>2 DEF RingInit, RingInv, RingFollows, ChangesInv, ListInv

\* Every step keeps it.
LEMMA RingStep ==
    ASSUME RingInv, [RingNext]_eventVars
    PROVE  RingInv'
<1> USE DEF RingInv
<1>t. RingTypeOK /\ RingFollows /\ ChangesInv /\ ListInv /\ Len(changes) \in Nat
  BY LenProperties DEF ChangesInv
<1>c. ASSUME UNCHANGED changes PROVE ChangesInv' /\ \A v : HeldAt(v)' = HeldAt(v) /\ \A u : Deleted(u, v)' <=> Deleted(u, v)
  BY <1>c DEF ChangesInv, HeldAt, Deleted
<1>1. ASSUME NEW u \in Uids, NEW type \in {"put", "del"}, Change(u, type) PROVE RingInv'
  <2> DEFINE c == [uid |-> u, type |-> type]
  <2>1. /\ UNCHANGED <<feedVars, ringVars>> /\ changes' = Append(changes, c)
        /\ \A i \in DOMAIN changes : changes[i].uid = u => changes[i].type = "put"
    BY <1>1 DEF Change
  <2>2. c \in [uid : Uids, type : {"put", "del"}]
    OBVIOUS
  <2>3. /\ changes' \in Seq([uid : Uids, type : {"put", "del"}]) /\ Len(changes') = Len(changes) + 1
        /\ changes'[Len(changes) + 1] = c /\ \A i \in 1..Len(changes) : changes'[i] = changes[i]
    BY <2>1, <2>2, AppendProperties DEF ChangesInv
  <2>4. ChangesInv'
    <3> SUFFICES ASSUME NEW i \in 1..Len(changes'), NEW j \in 1..Len(changes'), changes'[i].type = "del", i < j
                 PROVE  changes'[j].uid # changes'[i].uid
      BY <2>3 DEF ChangesInv
    <3>1. i \in 1..Len(changes) /\ (j \in 1..Len(changes) \/ j = Len(changes) + 1)
      BY <1>t, <2>3
    <3>2. CASE j \in 1..Len(changes)
      BY <2>3, <3>1, <3>2 DEF ChangesInv
    <3>3. CASE j = Len(changes) + 1
      <4>1. changes[i].uid # u
        BY <2>1, <2>3, <3>1, LenProperties DEF ChangesInv
      <4> QED
        BY <2>3, <3>1, <3>3, <4>1
    <3> QED
      BY <3>1, <3>2, <3>3
  <2>5. RingTypeOK'
    <3>1. \A k \in 0..Len(changes) : k \in 0..Len(changes')
      BY <1>t, <2>3
    <3> QED
      BY <1>t, <2>1, <3>1 DEF RingTypeOK, feedVars, ringVars
  <2>6. listed \in 0..Len(changes) /\ position \in 0..Len(changes)
    BY <1>t DEF RingTypeOK
  <2>7. /\ HeldAt(listed)' = HeldAt(listed) /\ HeldAt(position)' = HeldAt(position)
        /\ \A w : Deleted(w, position)' <=> Deleted(w, position)
    <3>1. listed' = listed /\ position' = position
      BY <2>1 DEF feedVars
    <3>2. PICK l, p : l = listed /\ p = position
      OBVIOUS
    <3>3. l \in 0..Len(changes) /\ p \in 0..Len(changes)
      BY <2>6, <3>2
    <3>4. HeldAt(l)' = HeldAt(l)
      BY <1>t, <2>1, <2>2, <3>3, HeldStays
    <3>5. HeldAt(p)' = HeldAt(p) /\ \A w : Deleted(w, p)' <=> Deleted(w, p)
      BY <1>t, <2>1, <2>2, <3>3, HeldStays
    <3>6. HeldAt(listed)' = HeldAt(l)' /\ HeldAt(position)' = HeldAt(p)'
      BY <3>1, <3>2 DEF HeldAt
    <3>7. \A w : Deleted(w, position)' <=> Deleted(w, p)'
      BY <3>1, <3>2 DEF Deleted
    <3> QED
      BY <3>2, <3>4, <3>5, <3>6, <3>7
  <2>8. RingFollows' /\ ListInv'
    BY <1>t, <2>1, <2>7 DEF RingFollows, ListInv, feedVars, ringVars
  <2> QED
    BY <2>4, <2>5, <2>8
<1>2. CASE AskFirst \/ Release \/ StartList \/ ListFails \/ WatchEnds
  <2>1. UNCHANGED changes /\ feed' \in {"list", "none", "first"}
    BY <1>2 DEF AskFirst, Release, StartList, ListFails, WatchEnds
  <2>2. \/ UNCHANGED <<byUID, arrived, left, skipped>> /\ feed' = "list"
        \/ byUID' = {} /\ arrived' = <<>> /\ left' = {} /\ skipped' = {}
    BY <1>2 DEF AskFirst, Release, StartList, ListFails, WatchEnds, ringVars
  <2>3. UNCHANGED <<listed, pages, position>> \/ (listed' = 0 /\ pages' = {} /\ position' = 0)
    BY <1>2 DEF AskFirst, Release, StartList, ListFails, WatchEnds
  <2>4. synced' \in BOOLEAN
    BY <1>2, <1>t DEF AskFirst, Release, StartList, ListFails, WatchEnds, RingTypeOK
  <2>5. <<>> \in Seq(Uids) /\ Len(<<>>) = 0 /\ IsInjective(<<>>) /\ 0 <= BufferSize /\ 0 \in 0..Len(changes)
    BY <1>t, EmptySeq, RingBounds DEF IsInjective
  <2>6. ListInv' /\ RingFollows'
    BY <1>t, <2>1, <2>2, <2>5 DEF ListInv, RingFollows
  <2>7. /\ arrived' \in Seq(Uids) /\ byUID' \subseteq Range(arrived') /\ Len(arrived') <= BufferSize
        /\ IsInjective(arrived') /\ skipped' \subseteq Uids
    BY <1>t, <2>2, <2>5 DEF RingTypeOK, ListInv
  <2>8. listed' \in 0..Len(changes') /\ position' \in 0..Len(changes') /\ pages' \subseteq Uids
    BY <1>t, <2>1, <2>3, <2>5 DEF RingTypeOK
  <2>9. RingTypeOK'
    BY <2>1, <2>4, <2>7, <2>8 DEF RingTypeOK
  <2> QED
    BY <1>c, <2>1, <2>6, <2>9
<1>3. CASE FirstPage
  <2>1. /\ UNCHANGED <<changes, position, synced, byUID, arrived, left, skipped>> /\ feed = "first" /\ feed' = "pages"
        /\ listed' = Len(changes) /\ pages' = HeldAt(Len(changes))
    BY <1>3 DEF FirstPage, ringVars
  <2>2. Range(arrived) = {} /\ byUID = {}
    BY <1>t, <2>1 DEF ListInv, Range
  <2>3. HeldAt(Len(changes)) \subseteq Uids
    BY DEF HeldAt
  <2>4. HeldAt(listed)' = HeldAt(Len(changes))
    BY <2>1 DEF HeldAt
  <2>5. Len(changes) \in 0..Len(changes)
    BY <1>t
  <2>6. RingTypeOK'
    BY <1>t, <2>1, <2>3, <2>5 DEF RingTypeOK
  <2>7. ListInv' /\ RingFollows'
    BY <1>t, <2>1, <2>2, <2>4 DEF ListInv, RingFollows
  <2> QED
    BY <1>c, <2>1, <2>6, <2>7
<1>4. CASE OpenWatch
  <2>1. /\ UNCHANGED <<changes, listed, pages, byUID, arrived, left, skipped>> /\ feed = "pages" /\ pages = {}
        /\ feed' = "watch" /\ synced' = TRUE /\ position' = listed
    BY <1>4 DEF OpenWatch, ringVars
  <2>2. HeldAt(position)' = HeldAt(listed)
    BY <2>1 DEF HeldAt
  <2>3. RingTypeOK'
    BY <1>t, <2>1 DEF RingTypeOK
  <2>4. ListInv' /\ RingFollows'
    BY <1>t, <2>1, <2>2 DEF ListInv, RingFollows
  <2> QED
    BY <1>c, <2>1, <2>3, <2>4
<1>5. ASSUME NEW u \in Uids, ListItem(u) PROVE RingInv'
  <2>1. /\ UNCHANGED <<changes, feed, listed, position, synced>> /\ feed = "pages" /\ u \in pages
        /\ \/ pages' = {} /\ left' = left \cup pages /\ UNCHANGED <<byUID, arrived, skipped>>
           \/ pages' = pages \ {u} /\ PutEvent(u)
    BY <1>5 DEF ListItem
  <2>2. HeldAt(listed)' = HeldAt(listed)
    BY <2>1 DEF HeldAt
  <2>3. /\ byUID \cup pages \subseteq HeldAt(listed) /\ HeldAt(listed) \subseteq byUID \cup pages \cup left
        /\ Range(arrived) = byUID /\ pages \subseteq Uids /\ left \subseteq Uids
    BY <1>t, <2>1 DEF ListInv, RingTypeOK
  <2>4. CASE pages' = {} /\ left' = left \cup pages /\ UNCHANGED <<byUID, arrived, skipped>>
    <3>1. RingTypeOK'
      BY <1>t, <2>1, <2>4 DEF RingTypeOK
    <3>2. ListInv' /\ RingFollows'
      BY <1>t, <2>1, <2>2, <2>3, <2>4 DEF ListInv, RingFollows
    <3> QED
      BY <1>c, <2>1, <3>1, <3>2
  <2>5. CASE pages' = pages \ {u} /\ PutEvent(u)
    <3>1. /\ arrived' \in Seq(Uids) /\ Len(arrived') <= BufferSize /\ IsInjective(arrived')
          /\ Range(arrived') = byUID' /\ left' \subseteq Uids /\ left \subseteq left'
          /\ byUID' \subseteq byUID \cup {u}
          /\ byUID \cup {u} \subseteq byUID' \cup left' /\ skipped' = skipped \ {u}
      BY <1>t, <2>3, <2>5, PutMeans
    <3>2. RingTypeOK'
      BY <1>t, <2>1, <2>3, <2>5, <3>1 DEF RingTypeOK
    <3>3. ListInv' /\ RingFollows'
      BY <2>1, <2>2, <2>3, <2>5, <3>1 DEF ListInv, RingFollows
    <3> QED
      BY <1>c, <2>1, <3>2, <3>3
  <2> QED
    BY <2>1, <2>4, <2>5
<1>6. CASE WatchLine
  <2> DEFINE c == changes[position + 1]
  <2>1. /\ UNCHANGED <<changes, feed, listed, pages, synced>> /\ feed = "watch" /\ position < Len(changes)
        /\ position' = position + 1
        /\ IF c.type = "put" THEN PutEvent(c.uid) ELSE DropEvent(c.uid)
    BY <1>6 DEF WatchLine
  <2>2. /\ position \in Nat /\ position + 1 \in 1..Len(changes)
    BY <1>t, <2>1 DEF RingTypeOK
  <2>3. c \in [uid : Uids, type : {"put", "del"}]
    BY <2>2, ElementOfSeq DEF ChangesInv
  <2>4. HeldAt(position)' = IF c.type = "put" THEN HeldAt(position) \cup {c.uid} ELSE HeldAt(position) \ {c.uid}
    <3>1. HeldAt(position)' = HeldAt(position + 1)
      BY <2>1 DEF HeldAt
    <3> QED
      BY <1>t, <2>1, <2>2, <3>1, HeldNext
  <2>5. /\ byUID \subseteq HeldAt(position) \cup skipped
        /\ HeldAt(position) \subseteq byUID \cup left \cup skipped
        /\ \A u \in Range(arrived) : u \in byUID \/ Deleted(u, position)
    BY <1>t, <2>1 DEF RingFollows, ListInv
  <2>6. position' \in 0..Len(changes')
    BY <2>1, <2>2
  <2>7. \A u : Deleted(u, position) => Deleted(u, position)'
    <3>1. \A i \in 1..position : i \in 1..position + 1
      BY <2>2
    <3> QED
      BY <2>1, <3>1 DEF Deleted
  <2>8. CASE c.type = "put"
    <3>1. c.uid \in Range(arrived) => c.uid \in byUID
      <4> SUFFICES ASSUME Deleted(c.uid, position) PROVE FALSE
        BY <2>5
      <4>1. PICK i \in 1..position : changes[i] = [uid |-> c.uid, type |-> "del"]
        BY DEF Deleted
      <4>2. i \in 1..Len(changes) /\ i < position + 1
        BY <2>2
      <4> QED
        BY <1>t, <2>2, <4>1, <4>2 DEF ChangesInv
    <3>2. /\ arrived' \in Seq(Uids) /\ Len(arrived') <= BufferSize /\ IsInjective(arrived')
          /\ Range(arrived') = byUID' /\ left' \subseteq Uids /\ left \subseteq left'
          /\ byUID' \subseteq byUID \cup {c.uid}
          /\ byUID \cup {c.uid} \subseteq byUID' \cup left' /\ skipped' = skipped \ {c.uid}
      BY <1>t, <2>1, <2>3, <2>8, <3>1, PutMeans
    <3>3. RingTypeOK'
      BY <1>t, <2>1, <2>6, <3>2 DEF RingTypeOK
    <3>4. ListInv' /\ RingFollows'
      BY <2>1, <2>4, <2>5, <2>8, <3>2 DEF ListInv, RingFollows
    <3> QED
      BY <1>c, <2>1, <3>3, <3>4
  <2>9. CASE c.type = "del"
    <3>p. PICK w \in Uids : w = c.uid
      BY <2>3
    <3>1. byUID' = byUID \ {w} /\ skipped' = skipped \ {w} /\ UNCHANGED <<arrived, left>>
      BY <2>1, <2>9, <3>p DEF DropEvent
    <3>2. Deleted(w, position)'
      <4>1. position + 1 \in 1..position + 1
        BY <2>2
      <4>2. c = [uid |-> w, type |-> "del"]
        BY <2>3, <2>9, <3>p
      <4> QED
        BY <2>1, <4>1, <4>2 DEF Deleted
    <3>3. RingTypeOK'
      BY <1>t, <2>1, <2>6, <3>1 DEF RingTypeOK
    <3>4. ListInv'
      BY <1>t, <2>1, <2>5, <2>7, <3>1, <3>2 DEF ListInv
    <3>5. RingFollows'
      BY <2>1, <2>4, <2>5, <2>9, <3>p, <3>1 DEF RingFollows
    <3> QED
      BY <1>c, <2>1, <3>3, <3>4, <3>5
  <2> QED
    BY <2>3, <2>8, <2>9
<1>7. CASE SkipLine
  <2> DEFINE c == changes[position + 1]
  <2>1. /\ UNCHANGED <<changes, feed, listed, pages, synced, byUID, arrived, left>>
        /\ feed = "watch" /\ position < Len(changes)
        /\ position' = position + 1 /\ skipped' = skipped \cup {c.uid}
    BY <1>7 DEF SkipLine
  <2>2. position \in Nat /\ position + 1 \in 1..Len(changes)
    BY <1>t, <2>1 DEF RingTypeOK
  <2>3. c \in [uid : Uids, type : {"put", "del"}]
    BY <2>2, ElementOfSeq DEF ChangesInv
  <2>4. HeldAt(position)' = IF c.type = "put" THEN HeldAt(position) \cup {c.uid} ELSE HeldAt(position) \ {c.uid}
    <3>1. HeldAt(position)' = HeldAt(position + 1)
      BY <2>1 DEF HeldAt
    <3> QED
      BY <1>t, <2>1, <2>2, <3>1, HeldNext
  <2>5. \A u : Deleted(u, position) => Deleted(u, position)'
    <3>1. \A i \in 1..position : i \in 1..position + 1
      BY <2>2
    <3> QED
      BY <2>1, <3>1 DEF Deleted
  <2>6. position' \in 0..Len(changes')
    BY <2>1, <2>2
  <2>7. RingTypeOK'
    BY <1>t, <2>1, <2>3, <2>6 DEF RingTypeOK
  <2>8. ListInv'
    BY <1>t, <2>1, <2>5 DEF ListInv
  <2>9. RingFollows'
    BY <1>t, <2>1, <2>4 DEF RingFollows
  <2> QED
    BY <1>c, <2>1, <2>7, <2>8, <2>9
<1>8. CASE UNCHANGED eventVars
  <2>1. UNCHANGED <<changes, feed, listed, pages, scanned, position, synced, byUID, arrived, left, skipped>>
    BY <1>8 DEF eventVars, feedVars, ringVars
  <2>2. RingTypeOK' /\ ListInv' /\ RingFollows'
    BY <1>t, <2>1 DEF RingTypeOK, ListInv, RingFollows, HeldAt, Deleted
  <2> QED
    BY <1>c, <2>1, <2>2
<1> QED
  BY <1>1, <1>2, <1>3, <1>4, <1>5, <1>6, <1>7, <1>8 DEF RingNext, ListSteps

\* For every buffer and page size and any changes in the cluster: everything held
\* has one place among the arrivals, within the bound, and once listed the ring is
\* what the cluster held at the watch's position, but for what the bounds kept out
\* and the events whose latest line could not be read (syncEventRing, trimLocked,
\* applyWatchLine, streamEvents).
THEOREM RingIsWhole == RingSpec => []RingWhole
<1>1. RingInv => RingWhole
  BY DEF RingInv, RingWhole
<1> QED
  BY <1>1, RingStart, RingStep, PTL DEF RingSpec

=============================================================================
