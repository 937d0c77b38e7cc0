----------------------------- MODULE AuditTrail -----------------------------
(* The way of an audit record to the table and to the collectors
   (backend/pkg/bastion/storeaudit.go, backend/pkg/auditforward/forward.go and
   syslog.go, backend/pkg/auditpolicy/policy.go).

   MultiAuditor hands each record to two sinks that share nothing, and a behaviour
   is of one of them: "table" writes to the store, "wire" to each collector in
   turn over a stream.  Both have a bounded queue that a recorder never waits for,
   and a goroutine that fills a batch and flushes it.                          *)
EXTENDS Integers, Functions, SeqSums

CONSTANTS
    Records,
    Ordinary,     \* those a verb policy may keep out of the table
    Collectors,   \* the destinations
    QueueSize,    \* auditQueueSize, queueSize
    BatchSize

ASSUME TrailBounds ==
    QueueSize \in Nat \ {0} /\ BatchSize \in Nat \ {0} /\ Ordinary \subseteq Records

VARIABLES
    sink,
    made,       \* the records whose calls have been recorded
    queue,
    batch,      \* what the goroutine holds
    run,        \* where it is
    cancelled,  \* its context
    table,      \* what the store holds
    lost,       \* what a failed write of a batch dropped
    dests,      \* the collectors loaded, of which a flush serves
    todo,       \* these still
    tries,      \* after so many attempts at the one at hand
    sendPos,    \* with so much of the batch written
    conn,       \* each collector's connection
    written,    \* what has been written to it; the network may lose it yet
    order,      \* the records as they were queued
    tail        \* those queued before the cancellation

queueVars == <<sink, made, queue, cancelled, order, tail>>
tableVars == <<table, lost>>
sendVars == <<todo, tries, sendPos>>
trailVars == <<queueVars, batch, run, tableVars, dests, sendVars, conn, written>>

TrailInit ==
    /\ sink \in {"table", "wire"}
    /\ made = {} /\ cancelled = FALSE /\ order = <<>> /\ tail = {}
    /\ queue = <<>> /\ batch = <<>> /\ run = "select"
    /\ table = <<>> /\ lost = {}
    /\ dests \in SUBSET (IF sink = "wire" THEN Collectors ELSE {})
    /\ todo = {} /\ tries = 0 /\ sendPos = 0
    /\ conn = [c \in Collectors |-> "none"]
    /\ written = [c \in Collectors |-> <<>>]

-----------------------------------------------------------------------------
(* Record, of either sink: a full queue drops the record. *)

RecordRest == <<sink, cancelled, tail, batch, run, tableVars, dests, sendVars,
                conn, written>>

Drop(r) ==
    /\ r \notin made /\ made' = made \cup {r}
    /\ UNCHANGED <<queue, order, RecordRest>>

Enqueue(r) ==
    /\ r \notin made /\ made' = made \cup {r}
    /\ Len(queue) < QueueSize
    /\ queue' = Append(queue, r) /\ order' = Append(order, r)
    /\ UNCHANGED RecordRest

\* StoreAuditor.Record: the policy may keep a record out.
RecordRow(r) ==
    /\ sink = "table"
    /\ Enqueue(r) \/ ((r \in Ordinary \/ Len(queue) = QueueSize) /\ Drop(r))

\* Forwarder.Record: ignored while no collector is loaded.
RecordForward(r) ==
    /\ sink = "wire"
    /\ IF dests # {} /\ Len(queue) < QueueSize THEN Enqueue(r) ELSE Drop(r)

-----------------------------------------------------------------------------
(* Run, of either sink.  Its select has no order: a cancelled sink may go on for
   a while before it sees the cancellation. *)

Cancel ==
    /\ ~cancelled /\ cancelled' = TRUE
    /\ tail' = Range(order)
    /\ UNCHANGED <<sink, made, queue, order, batch, run, tableVars, dests, sendVars,
                   conn, written>>

loopRest == <<sink, made, cancelled, order, tail, tableVars, dests, tries, sendPos,
              conn, written>>

StartFlush(label) ==
    run' = label /\ todo' = IF sink = "wire" THEN dests ELSE {}

\* A record from the queue, which may complete the batch.
TakeRecord ==
    /\ run \in {"select", "drain"} /\ queue # <<>>
    /\ queue' = Tail(queue)
    /\ batch' = Append(batch, Head(queue))
    /\ IF Len(batch') < BatchSize THEN UNCHANGED <<run, todo>>
       ELSE StartFlush(IF run = "select" THEN "flush" ELSE "flushDrain")
    /\ UNCHANGED loopRest

FlushTick ==
    /\ run = "select" /\ batch # <<>>
    /\ StartFlush("flush") /\ UNCHANGED <<loopRest, queue, batch>>

SeesCancel ==
    /\ run = "select" /\ cancelled
    /\ run' = "drain" /\ UNCHANGED <<loopRest, queue, batch, todo>>

\* The drain found the queue empty.
Drained ==
    /\ run = "drain" /\ queue = <<>>
    /\ StartFlush("flushLast") /\ UNCHANGED <<loopRest, queue, batch>>

Flushes == run \in {"flush", "flushDrain", "flushLast"}

\* flush returns, and the batch is empty whatever became of it.
Flushed ==
    /\ run' = CASE run = "flush" -> "select" [] run = "flushDrain" -> "drain"
                  [] OTHER -> "done"
    /\ batch' = <<>>

wireVars == <<dests, sendVars, conn, written>>

\* AppendAuditEvents: one transaction, whole or not at all.
WriteBatch ==
    /\ sink = "table" /\ Flushes /\ table' = table \o batch
    /\ Flushed /\ UNCHANGED <<queueVars, lost, wireVars>>

WriteFails ==
    /\ sink = "table" /\ Flushes /\ batch # <<>>
    /\ lost' = lost \cup Range(batch)
    /\ Flushed /\ UNCHANGED <<queueVars, table, wireVars>>

-----------------------------------------------------------------------------
(* The forwarder: refresh between flushes; flush is each collector in turn, and
   sender.send at most two attempts at the whole batch. *)

\* refresh: what is loaded changes, and what is gone or edited is closed.
Reload(C, edited) ==
    /\ sink = "wire" /\ run = "select" /\ edited \subseteq C
    /\ dests' = C
    /\ conn' = [c \in Collectors |-> IF c \in C \ edited THEN conn[c] ELSE "none"]
    /\ UNCHANGED <<queueVars, tableVars, batch, run, sendVars, written>>

\* Any order of the collectors will do.
AtTurn(c) == sink = "wire" /\ Flushes /\ c \in todo /\ c = CHOOSE d \in todo : TRUE
sendRest == <<queueVars, tableVars, run, dests>>

\* deliver dials if it must.
WriteRecord(c) ==
    /\ AtTurn(c) /\ sendPos < Len(batch)
    /\ conn[c] = "none" => sendPos = 0
    /\ conn' = [conn EXCEPT ![c] = "open"] /\ sendPos' = sendPos + 1
    /\ written' = [written EXCEPT ![c] = Append(@, batch[sendPos + 1])]
    /\ UNCHANGED <<sendRest, batch, todo, tries>>

NextCollector(c) == todo' = todo \ {c} /\ tries' = 0 /\ sendPos' = 0
Hangup(c) == conn' = [conn EXCEPT ![c] = "none"]

Delivered(c) ==
    /\ AtTurn(c) /\ sendPos = Len(batch)
    /\ NextCollector(c)
    /\ UNCHANGED <<sendRest, batch, conn, written>>

\* Mutant: the second attempt goes on where the first one failed, on a new
\* connection.
SendRetriesRest(c) ==
    /\ AtTurn(c) /\ tries = 0 /\ sendPos < Len(batch)
    /\ conn' = [conn EXCEPT ![c] = "open"] /\ tries' = 1
    /\ written' = [written EXCEPT ![c] =
          Append(@, batch[IF sendPos + 2 <= Len(batch) THEN sendPos + 2 ELSE sendPos + 1])]
    /\ sendPos' = Len(batch)
    /\ UNCHANGED <<sendRest, batch, todo>>

\* Dialling or writing fails: the connection is closed, and the batch sent again.
SendRetries(c) ==
    /\ AtTurn(c) /\ tries = 0 /\ sendPos < Len(batch)
    /\ Hangup(c) /\ tries' = 1 /\ sendPos' = 0
    /\ UNCHANGED <<sendRest, batch, todo, written>>

\* Mutant: the batch goes back to the queue, behind what is there.
SendFailsKeeps(c) ==
    /\ AtTurn(c) /\ sendPos < Len(batch) /\ tries = 1
    /\ Hangup(c) /\ NextCollector(c)
    /\ queue' = queue \o batch /\ batch' = <<>>
    /\ UNCHANGED <<sink, made, cancelled, order, tail, tableVars, run, dests, written>>

\* It failed again, or it is the destination that is wrong.
SendFails(c) ==
    /\ AtTurn(c) /\ sendPos < Len(batch)
    /\ tries = 1 \/ conn[c] = "none"
    /\ Hangup(c) /\ NextCollector(c)
    /\ UNCHANGED <<sendRest, batch, written>>

\* Every collector has had its turn; the last flush closes the senders.
WireFlushed ==
    /\ sink = "wire" /\ Flushes /\ todo = {} /\ Flushed
    /\ conn' = IF run = "flushLast" THEN [c \in Collectors |-> "none"] ELSE conn
    /\ UNCHANGED <<queueVars, tableVars, dests, sendVars, written>>

Send(c) == WriteRecord(c) \/ Delivered(c) \/ SendRetries(c) \/ SendFails(c)
Run ==
    \/ TakeRecord \/ FlushTick \/ SeesCancel \/ Drained
    \/ WriteBatch \/ WriteFails
    \/ WireFlushed \/ \E c \in Collectors : Send(c)

TrailNext ==
    \/ \E r \in Records : RecordRow(r) \/ RecordForward(r)
    \/ Cancel
    \/ Run
    \/ \E C, edited \in SUBSET Collectors : Reload(C, edited)

TrailSpec == TrailInit /\ [][TrailNext]_trailVars

\* The goroutine runs, and every write it waits for has a timeout.
FairTrailSpec == TrailSpec /\ WF_trailVars(Run)

-----------------------------------------------------------------------------
(* What is checked. *)

\* Types, and the bounds of queue and batch.
TrailTypeOK ==
    /\ made \subseteq Records /\ cancelled \in BOOLEAN
    /\ queue \in Seq(Records) /\ Len(queue) <= QueueSize
    /\ batch \in Seq(Records) /\ Len(batch) <= BatchSize
    /\ Flushes \/ Len(batch) < BatchSize
    /\ run \in {"select", "flush", "drain", "flushDrain", "flushLast", "done"}
    /\ dests \subseteq Collectors /\ todo \subseteq dests
    /\ tries \in 0..1 /\ sendPos \in 0..Len(batch)
    /\ conn \in [Collectors -> {"none", "open"}]

\* The table, the batch and the queue together are the records in the order they
\* were made in, less only those of batches that failed: no other is missing, none
\* is there twice, and none has overtaken another.
TableInOrder ==
    sink = "table" =>
        KeepOnly(order, Records \ lost) = table \o batch \o queue

\* A collector gets a record behind a later one only as a repeat: what is sent
\* again after a failure is the whole batch, and no batch is sent late.
Before(r, q) ==
    \E i, j \in DOMAIN order : i < j /\ order[i] = r /\ order[j] = q
CollectorInOrder ==
    \A c \in Collectors : \A j \in DOMAIN written[c] : \A i \in 1..(j - 1) :
        Before(written[c][j], written[c][i]) =>
            \E h \in 1..(i - 1) : written[c][h] = written[c][j]

\* A batch is counted as delivered to a collector only once it has been written to
\* it from its first record to its last, with nothing in between.
EndsWith(s, t) == Len(t) <= Len(s) /\ SubSeq(s, Len(s) - Len(t) + 1, Len(s)) = t
WholeOnOneConnection ==
    [][\A c \in Collectors : AtTurn(c) /\ c \notin todo' /\ sendPos = Len(batch) =>
            EndsWith(written[c], batch)]_trailVars

\* No connection is held to a collector that is not loaded, or by a sink that is
\* done: what is sent over one goes where the settings say.
HeldIsLoaded ==
    \A c \in Collectors : conn[c] = "open" => c \in dests /\ run # "done"

\* "Drain whatever is already queued rather than losing the tail of the trail on
\* shutdown" (storeaudit.go:116, forward.go:202): what was queued when the context
\* was cancelled has been flushed when Run returns.
TailIsFlushed ==
    run = "done" => tail \cap (Range(queue) \cup Range(batch)) = {}

\* Nothing stays queued or batched while the sink runs, whatever fails: it is written,
\* or dropped with a batch that failed.  And a cancelled sink ends.
RecordsMoveOn == []<>(run = "done" \/ (queue = <<>> /\ batch = <<>>))
SinkEnds == cancelled ~> run = "done"

\* No record is out of its place in either sink, sent where it should not go, or
\* left behind at the end.
TrailKept == TrailTypeOK /\ TableInOrder /\ CollectorInOrder /\ HeldIsLoaded /\ TailIsFlushed

\* A batch counts as delivered only when it is whole on one connection; whatever fails,
\* a queued record is written or dropped with its batch in the end, and a sink that is
\* told to stop stops.
SinkDelivers == WholeOnOneConnection /\ RecordsMoveOn /\ SinkEnds
=============================================================================
