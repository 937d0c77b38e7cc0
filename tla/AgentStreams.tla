---------------------------- MODULE AgentStreams ----------------------------
(* The agent's reconnect loop and the streams of the tunnel it holds
   (agent/internal/tunnel/tunnel.go, stream.go): Run, connectOnce and pump, one
   openStream goroutine per stream, and for an upgraded session the goroutine
   that writes its input to the cluster.

   Ids are counted per tunnel by the server, so the next tunnel uses them again,
   and the table that finds a stream by its id belongs to the client, not to the
   tunnel.  Frames arrive in order: open, data, close.                       *)
EXTENDS Integers, SeqSums

CONSTANTS
    Ids,          \* stream ids of one tunnel
    Upgrades,     \* those of sessions; the others are bodies
    Sizes,        \* sizes of an input chunk
    InputFrames,  \* inputQueueFrames
    InputBytes,   \* inputQueueBytes
    MinBackoff,
    MaxBackoff

ASSUME UpgradesAreIds == Upgrades \subseteq Ids
ASSUME InputBounds == InputFrames \in Nat \ {0} /\ InputBytes \in Nat /\ Sizes \subseteq Nat
ASSUME BackoffBounds ==
    MinBackoff \in Nat \ {0} /\ MaxBackoff \in Nat /\ MinBackoff <= MaxBackoff

VARIABLES
    run,       \* where Run is
    backoff,
    stopping,  \* the process was told to stop
    table,     \* streamTable
    asked,     \* what the read loop has read of each id
    main,      \* where each openStream is
    shut,      \* stream.closed, and why
    waiting,   \* stream.toCluster
    queued,    \* stream.queued
    pushing,   \* the chunk the read loop is between reserving and queueing
    stdin,     \* where the input goroutine is
    socket,    \* the stream's connection to the API server
    report     \* the stream_close handed to the writer

runVars == <<run, backoff, stopping>>
streamVars == <<table, asked, main, shut, waiting, queued, pushing, stdin, socket, report>>
agentVars == <<runVars, streamVars>>

NoPush == [about |-> "none"]
NoInput == [at |-> "none", size |-> 0]
Fresh(x) == [i \in Ids |-> x]
AtWork(i) == main[i] \notin {"none", "gone"}

\* The stream's context: cancelled with the pump's, the process's, or its own.
Cancelled(i) == stopping \/ run # "serving" \/ shut[i] # "open"

AgentInit ==
    /\ run = "dialling" /\ backoff = MinBackoff /\ stopping = FALSE
    /\ table = {}
    /\ asked = Fresh("nothing") /\ main = Fresh("none") /\ shut = Fresh("open")
    /\ waiting = Fresh(<<>>) /\ queued = Fresh(0) /\ pushing = NoPush
    /\ stdin = Fresh(NoInput) /\ socket = Fresh("none") /\ report = Fresh("none")

-----------------------------------------------------------------------------
(* Run and connectOnce. *)

Connect ==
    /\ run = "dialling" /\ ~stopping
    /\ run' = "serving"
    /\ UNCHANGED <<backoff, stopping, streamVars>>

After(b) ==
    /\ run' = IF stopping THEN "stopped" ELSE "pausing"
    /\ backoff' = b

DialFails ==
    /\ run = "dialling"
    /\ After(backoff)
    /\ UNCHANGED <<stopping, streamVars>>

\* pump's read fails: its context is cancelled and closeAll ends what the table
\* has.  The table is emptied before the streams are closed, with the lock.
EndPump ==
    /\ run = "serving" /\ pushing = NoPush
    /\ run' = "closing"
    /\ shut' = [i \in Ids |-> IF i \in table /\ shut[i] = "open" THEN "asked" ELSE shut[i]]
    /\ table' = {}
    /\ UNCHANGED <<backoff, stopping, asked, main, waiting, queued, pushing, stdin, socket,
                   report>>

\* Mutant: pump does not wait for its goroutines.
PumpReturnsEarly ==
    /\ run = "closing"
    /\ \E b \in {MinBackoff, backoff} : After(b)
    /\ UNCHANGED <<stopping, streamVars>>

\* wg.Wait.  The backoff is reset by a clean end, and by nothing else.
PumpReturns ==
    /\ run = "closing"
    /\ \A i \in Ids : ~AtWork(i)
    /\ \E b \in {MinBackoff, backoff} : After(b)
    /\ asked' = Fresh("nothing") /\ main' = Fresh("none")
    /\ UNCHANGED <<stopping, table, shut, waiting, queued, pushing, stdin, socket, report>>

Redial ==
    /\ run = "pausing"
    /\ run' = "dialling"
    /\ backoff' = IF 2 * backoff > MaxBackoff THEN MaxBackoff ELSE 2 * backoff
    /\ UNCHANGED <<stopping, streamVars>>

\* SIGTERM.  Nothing of it reaches the tunnel's own read.
Stop ==
    /\ ~stopping
    /\ stopping' = TRUE
    /\ run' = IF run = "pausing" THEN "stopped" ELSE run
    /\ UNCHANGED <<backoff, streamVars>>

-----------------------------------------------------------------------------
(* The read loop. *)

Reading == run = "serving" /\ pushing = NoPush

ReadOpen(i) ==
    /\ Reading /\ asked[i] = "nothing"
    /\ asked' = [asked EXCEPT ![i] = "open"]
    /\ main' = [main EXCEPT ![i] = "spawned"]
    /\ UNCHANGED <<runVars, table, shut, waiting, queued, pushing, stdin, socket, report>>

\* streamTable.get, and closeWith: the first cause stays.
ReadClose(i) ==
    /\ Reading /\ asked[i] = "open"
    /\ asked' = [asked EXCEPT ![i] = "close"]
    /\ shut' = [shut EXCEPT ![i] = IF i \in table /\ @ = "open" THEN "asked" ELSE @]
    /\ UNCHANGED <<runVars, table, main, waiting, queued, pushing, stdin, socket, report>>

\* push, as far as the byte budget.
Reserve(i, n) ==
    /\ Reading /\ asked[i] = "open"
    /\ i \in table /\ i \in Upgrades /\ shut[i] = "open"
    /\ IF queued[i] + n > InputBytes
       THEN /\ shut' = [shut EXCEPT ![i] = "backlog"]
            /\ UNCHANGED <<queued, pushing>>
       ELSE /\ queued' = [queued EXCEPT ![i] = @ + n]
            /\ pushing' = [about |-> i, size |-> n]
            /\ UNCHANGED shut
    /\ UNCHANGED <<runVars, table, asked, main, waiting, stdin, socket, report>>

\* Mutant: a chunk that finds no room keeps its bytes.
QueueKeepsBytes ==
    \E i \in Ids :
        /\ pushing # NoPush /\ pushing.about = i
        /\ pushing' = NoPush
        /\ \/ /\ Len(waiting[i]) < InputFrames
              /\ waiting' = [waiting EXCEPT ![i] = Append(@, pushing.size)]
              /\ UNCHANGED <<queued, shut>>
           \/ /\ shut[i] # "open"
              /\ queued' = [queued EXCEPT ![i] = @ - pushing.size]
              /\ UNCHANGED <<waiting, shut>>
           \/ /\ shut[i] = "open" /\ Len(waiting[i]) = InputFrames
              /\ shut' = [shut EXCEPT ![i] = "backlog"]
              /\ UNCHANGED <<waiting, queued>>
        /\ UNCHANGED <<runVars, table, asked, main, stdin, socket, report>>

\* The rest of push: a select takes either of two cases that are ready.
Queue ==
    \E i \in Ids :
        /\ pushing # NoPush /\ pushing.about = i
        /\ pushing' = NoPush
        /\ \/ /\ Len(waiting[i]) < InputFrames
              /\ waiting' = [waiting EXCEPT ![i] = Append(@, pushing.size)]
              /\ UNCHANGED <<queued, shut>>
           \/ /\ shut[i] # "open"
              /\ queued' = [queued EXCEPT ![i] = @ - pushing.size]
              /\ UNCHANGED <<waiting, shut>>
           \/ /\ shut[i] = "open" /\ Len(waiting[i]) = InputFrames
              /\ queued' = [queued EXCEPT ![i] = @ - pushing.size]
              /\ shut' = [shut EXCEPT ![i] = "backlog"]
              /\ UNCHANGED waiting
        /\ UNCHANGED <<runVars, table, asked, main, stdin, socket, report>>

-----------------------------------------------------------------------------
(* openStream, runBodyStream and runUpgradeStream. *)

AddStream(i) ==
    /\ main[i] = "spawned"
    /\ main' = [main EXCEPT ![i] = "calling"]
    /\ table' = table \cup {i}
    /\ UNCHANGED <<runVars, asked, shut, waiting, queued, pushing, stdin, socket, report>>

Called(i) ==
    /\ main[i] = "calling" /\ ~Cancelled(i)
    /\ main' = [main EXCEPT ![i] = "reading"]
    /\ socket' = [socket EXCEPT ![i] = "up"]
    /\ stdin' = [stdin EXCEPT ![i].at = IF i \in Upgrades THEN "taking" ELSE "none"]
    /\ UNCHANGED <<runVars, table, asked, shut, waiting, queued, pushing, report>>

\* The API server refuses, or the context ends the call; stream_start says so.
CallFails(i) ==
    /\ main[i] = "calling"
    /\ main' = [main EXCEPT ![i] = "leaving"]
    /\ UNCHANGED <<runVars, table, asked, shut, waiting, queued, pushing, stdin, socket, report>>

\* The cluster's side of the connection ends.
SocketEnds(i) ==
    /\ socket[i] = "up"
    /\ \/ socket' = [socket EXCEPT ![i] = "ended"]
       \/ socket' = [socket EXCEPT ![i] = "broken"]
    /\ UNCHANGED <<runVars, table, asked, main, shut, waiting, queued, pushing, stdin, report>>

\* Mutant: a session over on this side leaves its socket to the cluster.
HangUpNever(i) ==
    /\ socket[i] = "up" /\ Cancelled(i) /\ i \notin Upgrades
    /\ socket' = [socket EXCEPT ![i] = "closed"]
    /\ UNCHANGED <<runVars, table, asked, main, shut, waiting, queued, pushing, stdin, report>>

\* For a session the goroutine that waits for the stream to be over, for a body
\* the context of its request.
HangUp(i) ==
    /\ socket[i] = "up" /\ Cancelled(i)
    /\ socket' = [socket EXCEPT ![i] = "closed"]
    /\ UNCHANGED <<runVars, table, asked, main, shut, waiting, queued, pushing, stdin, report>>

ReadChunk(i) ==
    /\ main[i] = "reading" /\ socket[i] = "up"
    /\ main' = [main EXCEPT ![i] = "sending"]
    /\ UNCHANGED <<runVars, table, asked, shut, waiting, queued, pushing, stdin, socket, report>>

Explained(i) ==
    IF i \in Upgrades
    THEN CASE shut[i] = "backlog" -> "backlog"
           [] shut[i] # "backlog" /\ Cancelled(i) -> "stopping"
           [] OTHER -> IF socket[i] = "ended" THEN "clean" ELSE "failed"
    ELSE IF socket[i] = "ended" \/ Cancelled(i) THEN "clean" ELSE "failed"

\* Mutant: what cut the body short is not told.
ReadEndsSilently(i) ==
    /\ main[i] = "reading" /\ socket[i] # "up"
    /\ main' = [main EXCEPT ![i] = "leaving"]
    /\ report' = [report EXCEPT ![i] = "clean"]
    /\ UNCHANGED <<runVars, table, asked, shut, waiting, queued, pushing, stdin, socket>>

ReadEnds(i) ==
    /\ main[i] = "reading" /\ socket[i] # "up"
    /\ main' = [main EXCEPT ![i] = "leaving"]
    /\ report' = [report EXCEPT ![i] = Explained(i)]
    /\ UNCHANGED <<runVars, table, asked, shut, waiting, queued, pushing, stdin, socket>>

\* out.data: the chunk is queued, or the writer had no room for ten seconds.  Then
\* a session is over when its input goroutine is, a body when its stream is.
SendChunk(i) ==
    /\ main[i] = "sending"
    /\ \/ /\ main' = [main EXCEPT ![i] = "leaving"]
          /\ UNCHANGED report
       \/ /\ i \in Upgrades /\ stdin[i].at = "done"
          /\ main' = [main EXCEPT ![i] = "leaving"]
          /\ report' = [report EXCEPT ![i] = "clean"]
       \/ /\ IF i \in Upgrades THEN stdin[i].at # "done" ELSE ~Cancelled(i)
          /\ main' = [main EXCEPT ![i] = "reading"]
          /\ UNCHANGED report
    /\ UNCHANGED <<runVars, table, asked, shut, waiting, queued, pushing, stdin, socket>>

\* The deferred calls: the connection, the table, the stream.  What is left of the
\* stream is seen by goroutines about to notice, and is forgotten here.
Leave(i) ==
    /\ main[i] = "leaving"
    /\ main' = [main EXCEPT ![i] = "gone"]
    /\ table' = table \ {i}
    /\ pushing' = IF pushing # NoPush /\ pushing.about = i THEN NoPush ELSE pushing
    /\ shut' = [shut EXCEPT ![i] = "open"]
    /\ waiting' = [waiting EXCEPT ![i] = <<>>]
    /\ queued' = [queued EXCEPT ![i] = 0]
    /\ stdin' = [stdin EXCEPT ![i] = NoInput]
    /\ socket' = [socket EXCEPT ![i] = "none"]
    /\ report' = [report EXCEPT ![i] = "none"]
    /\ UNCHANGED <<runVars, asked>>

\* The input goroutine.  It takes a chunk, gives back its bytes, writes it.
TakeInput(i) ==
    /\ stdin[i].at = "taking"
    /\ waiting[i] # <<>>
    /\ stdin' = [stdin EXCEPT ![i] = [at |-> "holding", size |-> Head(waiting[i])]]
    /\ waiting' = [waiting EXCEPT ![i] = Tail(@)]
    /\ UNCHANGED <<runVars, table, asked, main, shut, queued, pushing, socket, report>>

GiveBack(i) ==
    /\ stdin[i].at = "holding"
    /\ queued' = [queued EXCEPT ![i] = @ - stdin[i].size]
    /\ stdin' = [stdin EXCEPT ![i] = [at |-> "writing", size |-> 0]]
    /\ UNCHANGED <<runVars, table, asked, main, shut, waiting, pushing, socket, report>>

WriteInput(i) ==
    /\ stdin[i].at = "writing"
    /\ stdin' = [stdin EXCEPT ![i].at = IF socket[i] = "up" THEN "taking" ELSE "done"]
    /\ UNCHANGED <<runVars, table, asked, main, shut, waiting, queued, pushing, socket, report>>

InputEnds(i) ==
    /\ stdin[i].at = "taking" /\ Cancelled(i)
    /\ stdin' = [stdin EXCEPT ![i].at = "done"]
    /\ UNCHANGED <<runVars, table, asked, main, shut, waiting, queued, pushing, socket, report>>

OpenStream(i) ==
    \/ AddStream(i) \/ Called(i) \/ CallFails(i)
    \/ ReadChunk(i) \/ ReadEnds(i) \/ SendChunk(i) \/ Leave(i)

Input(i) == TakeInput(i) \/ GiveBack(i) \/ WriteInput(i) \/ InputEnds(i)

AgentNext ==
    \/ Connect \/ DialFails \/ EndPump \/ PumpReturns \/ Redial \/ Stop \/ Queue
    \/ \E i \in Ids :
        \/ ReadOpen(i) \/ ReadClose(i) \/ \E n \in Sizes : Reserve(i, n)
        \/ OpenStream(i) \/ Input(i) \/ SocketEnds(i) \/ HangUp(i)

AgentSpec == AgentInit /\ [][AgentNext]_agentVars

\* Goroutines run.  The API server owes nothing: neither an answer to a call, nor
\* a chunk, nor an end, nor room for input while its socket is up.
FairAgentSpec ==
    /\ AgentSpec
    /\ WF_agentVars(PumpReturns)
    /\ WF_agentVars(Queue)
    /\ \A i \in Ids :
         /\ WF_agentVars(AddStream(i) \/ SendChunk(i) \/ Leave(i))
         /\ WF_agentVars(Cancelled(i) /\ CallFails(i))
         /\ WF_agentVars(HangUp(i))
         /\ WF_agentVars(ReadEnds(i))

-----------------------------------------------------------------------------
(* Properties. *)

\* Types; the backoff keeps to its bounds (Run).
AgentTypeOK ==
    /\ run \in {"dialling", "serving", "closing", "pausing", "stopped"}
    /\ backoff \in MinBackoff..MaxBackoff
    /\ stopping \in BOOLEAN
    /\ table \subseteq Ids
    /\ asked \in [Ids -> {"nothing", "open", "close"}]
    /\ main \in [Ids -> {"none", "spawned", "calling", "reading", "sending", "leaving",
                         "gone"}]
    /\ shut \in [Ids -> {"open", "asked", "backlog"}]
    /\ waiting \in [Ids -> Seq(Sizes)]
    /\ queued \in [Ids -> Nat]
    /\ pushing \in {NoPush} \cup [about : Ids, size : Sizes]
    /\ stdin \in [Ids -> [at : {"none", "taking", "holding", "writing", "done"},
                          size : Sizes \cup {0}]]
    /\ socket \in [Ids -> {"none", "up", "ended", "broken", "closed"}]
    /\ report \in [Ids -> {"none", "clean", "failed", "backlog", "stopping"}]

\* A new tunnel, whose server counts its ids from the start again, never finds a
\* stream of the last one in the client's table (Run, pump's deferred calls).
NoStreamOutlivesTunnel ==
    run \notin {"serving", "closing"} => table = {} /\ \A i \in Ids : ~AtWork(i)

\* Between the read loop that queues and the goroutine that takes, the budget
\* counts each byte that waits once, and neither bound is passed (push, take).
InputBudgetExact ==
    \A i \in Ids :
        LET reserved == IF pushing # NoPush /\ pushing.about = i THEN pushing.size ELSE 0
            held == IF stdin[i].at = "holding" THEN stdin[i].size ELSE 0
        IN  /\ queued[i] = Total(waiting[i]) + held + reserved
            /\ queued[i] <= InputBytes
            /\ Len(waiting[i]) <= InputFrames

\* A body cut short by the cluster is not reported as one that ended: a clean
\* close means that it ended or that the stream was over here (runBodyStream).
CutBodyIsTold ==
    \A i \in Ids \ Upgrades :
        report[i] = "clean" => socket[i] = "ended" \/ Cancelled(i)

\* A tunnel whose socket died lets the agent dial again: pump waits for every
\* goroutine, and each gets out, whatever it was blocked on (pump's defers).
PumpGetsOut == run = "closing" ~> run # "closing"

\* A stream that is closed, by a hang-up or by its own backlog, ends, also on a
\* cluster that sends nothing (runUpgradeStream's second goroutine).
ShutStreamsLeave == \A i \in Ids : shut[i] # "open" ~> main[i] \in {"none", "gone"}

\* "A stream that closed itself explains itself" (agent/internal/tunnel/stream.go:268):
\* what the operator is told of a session closed for its backlog is that.
BacklogIsExplained ==
    [][\A i \in Ids : report'[i] \notin {report[i], "none"} /\ shut[i] = "backlog"
          => report'[i] = "backlog"]_agentVars

\* The agent's types and the input budget of each session.
InputExact == AgentTypeOK /\ InputBudgetExact

\* Whatever a goroutine of the agent waits for, it gets out.
GoroutinesEnd == PumpGetsOut /\ ShutStreamsLeave
=============================================================================
