# kubemg in TLA+

kubemg puts one server between its users and their Kubernetes clusters.  Every
cluster runs an agent that dials the server and keeps one WebSocket open, the
*tunnel*; every proxied call, watch, followed log and terminal session of that
cluster shares it.  Around the tunnels the server, which may run as several
replicas on one database, grants elevations for a time, withdraws credentials,
slows down password guesses, writes an audit trail, watches events and caches
what it reads.  This directory models those parts, checks them with TLC and
proves what matters most of them with TLAPS.

Source paths are relative to `src/`; `PROJECT.json` maps each definition to its
lines, and lists every component, modelled or not.

## Inventory

| Component | State | Operations | What is hard | What makes it correct |
|---|---|---|---|---|
| Correlation table (`backend/pkg/bastion/registry.go`) | `pending`, each entry's `body` and `failure`, `assembled` | `Do` files an entry; `addPart`, `complete` from the read loop; `forget` when the caller leaves | callers leave while frames arrive; two byte bounds | the counter is exact and bounded; a refused body is never revived |
| Calls (`registry.go`, `agent/internal/tunnel/tunnel.go`) | queues both ways, the agent's slots | `Do`, `serveRequest`, `acquire`, `forwardInParts`, `sendBulk`, `serve` | timeouts on both sides, backpressure in a cycle, the tunnel's end | one return per call, a whole body or an error; nobody hangs; slots come back |
| Write lanes (`registry.go`) | `out`, `bulk`, `urgentRun` | `send`, `enqueueOn`, `writeLoop`, `nextFrame` | frames arrive between selects | order per sender, neither lane starves, no sender is held |
| Registry and rotation (`bastion/server.go`, `registry.go`, `api/agent_install.go`) | registry per replica, token and status in the database | `HandleAgent`, `serveTunnel`, `dropTunnel`, `Retire`, `SweepCredentials` | displacement; verify, rotate, register; store failures; a reader that panics | registry and goroutines agree; retired tunnels end, and only they are swept |
| Handshake (`server.go`, agent `readWelcome`) | lanes of the young tunnel | `Add`, `recordState`, welcome | the tunnel is usable before the welcome; `nextFrame`'s last select | both ends settle; the agent is refused only if a frame was queued before the welcome, or picked ahead of it |
| Streams, server (`stream.go`, `streamproxy.go`, `shell.go`, `api/events_watch.go`) | channel, byte budget, `closeOnce` | `OpenStream`, `deliver`, `Consumed`, `Close`, `closeStreams` | three closers, a shared read loop that may not block | exact budget, no chunk lost or reordered, a stream ends with its tunnel |
| Streams and reconnects, agent (`agent/internal/tunnel/stream.go`, `tunnel.go`) | stream table, input queue, backoff | `openStream`, `push`, `pump`, `closeAll`, `Run` | a close read before the open's goroutine ran; ids that come again in the next tunnel; silent clusters and dead sockets | no stream outlives its tunnel; every goroutine ends; a cut body is told |
| Elevation (`backend/pkg/jit`, `db/jit.go`) | requests, the grant row, the trail | create, approve, reject, revoke, `Sweep` | check-then-create, two sweeps, one grant row per user and cluster, a record written after the commit | the grant is what a live request was approved for; one decision per request, and the trail says no other |
| Leases (`db/lease.go`) and alarm watch (`api/alarms_watch.go`) | one row per job; watermark per cluster | `AcquireLease`, pass, `advance` | clocks that differ, slow passes, holders that die, late events | one watcher per term; no replica offers an occurrence twice |
| Audit (`bastion/storeaudit.go`, `auditforward/`) | bounded queue, batch, connection | `Record`, `Run`, `flush`, two attempts of a sender | full queue, failed batch, a break in the middle of a batch, the last drain | order, no loss but the named ones |
| Withdrawn credentials (`credentials/register.go`, `api/kubeconfigs.go`, `api/cli_auth.go`) | rows, and each replica's snapshot | revoke, publish, refresh, mint, prune | two reads and one store; publishers overtake each other; rows are deleted by age | what is withdrawn is refused when its handler answers, and for good in the end, while its row is there |
| Login throttle (`auth/throttle.go`) | three bounded tables | `Begin`, `Fail`, `Succeed`, `Release` | parallel guesses; sweeps with checks in flight; a full table | allowance kept, counts exact, a delay and not a lockout |
| Response cache (`cache/cache.go`, `api/`) | entries by scope | `Get`, `PutFor`, `InvalidateScope`, eviction | a read that began before a write is cached after it | a write is missing only from such a read, and not for long |
| Event buffer (`api/events_watch.go`) | ring, index by UID, feed | list in pages, watch, release | what changes between pages and the watch; lines that cannot be read | nothing else missed, nothing that is gone brought back |
| Cron schedules (`cronsched/cronsched.go`) | none | `Next` | months of different lengths | what it finds fires; nothing is skipped |
| Store, console API, proxy and impersonation, authentication, guardrails, recordings, web shell, cluster reading, rendering, process, CLI, frontend | | | see "Not modelled" | |

How they interact: the API's proxy finds a tunnel in the *registry* and calls
`Do` or `OpenStream`; both file themselves in the tunnel and put a frame in a
*lane*; the writer drains the lanes to the agent; the agent answers on lanes of
its own; the server's one read loop dispatches to the *correlation table* or to
a *stream*.  Whoever closes a tunnel (a failed read, write or ping, a
displacement, a rotation, the sweep) releases both.  Elevations, leases, the
throttle and the register meet the rest only through the database or through one
lookup per request.

## Modules

| Module | What it models |
|---|---|
| `TunnelAssembly` | the correlation table, for frames in any order |
| `TunnelCalls` | EXTENDS it: callers, request queue, agent handlers, response queue, read loop, end of the tunnel |
| `CallContract` | what `Tunnel.Do` promises; `TunnelCalls` instantiates it with a refinement mapping |
| `TunnelLanes` | the two lanes, their senders and the writer |
| `TunnelLifecycle` | the tunnels of one cluster from handshake to clean-up, on all replicas, with rotations, sweeps and a reader that panics |
| `TunnelHandshake` | one connection's first frames, both ends, with the writer between its two looks at the lanes |
| `TunnelStream` | one stream at the server: caller, read loop, closer, agent |
| `AgentStreams` | the agent's streams through several tunnels, and its reconnect loop |
| `Elevation`, `ElevationContract` | requests of one user for one cluster, deciders, sweeps, clock; the records they owe the trail; and what an elevation is, which it is shown to implement |
| `AlarmWatch` | the lease, its holders' clocks and deaths, and the passes of the alarm watch under it, over events that the cluster's clock dates |
| `AuditTrail` | the table's sink and a collector's sink |
| `Revocation` | the register of withdrawn credentials, its publishers and its retention pass |
| `LoginThrottle` | the throttle |
| `ReadCache` | the response cache with its readers and writers |
| `EventRing` | the event buffer |
| `CronSchedule` | the search for the next firing, one jump at a time |
| `SeqSums` | sums and filters of sequences, as functions of their length |
| `TunnelAssemblyProofs`, `TunnelCallsProofs`, `ElevationProofs` | the theorems about the module they are named after |
| `TunnelEndsProofs` | those about `TunnelLifecycle`, `TunnelLanes` and `AgentStreams` |
| `StreamProofs` | those about `TunnelStream` and `EventRing` |
| `RequestsProofs` | those about `TunnelHandshake`, `LoginThrottle` and `Revocation` |
| `BackgroundProofs` | those about `AlarmWatch`, `ReadCache`, `AuditTrail` and `CronSchedule` |
| `SeqSumsProofs` | the lemmas about sequences that the others cite |
| `MC*` | model values and sizes; `MCTunnelParts`, `MCRequests` and `MCBackground` check several components that share no state in one run, each behaviour being of one part with the others at rest |

Each state variable is named after the field it stands for where there is one
(`pending`, `assembled`, `urgentRun`, `queued`, `inFlight`, ...), and each
goroutine has a program counter whose values are the places between which others
may run: a critical section under a lock, or one SQL statement or transaction, is
one action; a `select` whose default falls through to a second one is two.  Some
consequences worth knowing:

* `Do` tests `t.closed`, then files its call, then queues its frame: `Enter`,
  `File`, `Queue` are three actions.  The same for `OpenStream`.
* `Stream.Close` is four (`CloseEnter`, `CloseMark`, `CloseShut`, `CloseTell`),
  because the read loop's `deliver` runs between them.
* An approval reads the request, then decides it in one transaction; a sweep reads
  what has run out, then closes it row by row.
* `publishRevokedCredentials` is two reads and a store, and a revocation may fall
  between any two.
* A transaction of an elevation and the record of it are two steps, and the record
  may be dropped (`Owe`, `Tell`); a sweep goes on to its next statement only when it
  has told what the last one did.
* The lifetime of a CLI token is worked out (`Mint`) before it is signed (`Sign`).
* A pass of the alarm watch takes the lease, finds the cluster, reads its events and
  offers them; time passes, events come and replicas die between those.

A definition whose comment starts with "Mutant:" is a plausible wrong version of
the one that follows it.  No specification uses it: it is what a property is
tried against, to see that it can fail.

Data is abstracted to what the properties tell apart.  A body is a number of
units; a chunk its number and its size; a record, event or credential a model
value with the little that is asked of it; a time is an age or what is left, with
everything past the last threshold taken as one value.  Names, headers, encodings
and logging are left out.

## Runs

`tlc -config <cfg> <module>`; with two workers the longest takes about three and a half minutes.
Several properties are conjunctions of named parts, which are checked together
because they speak of one thing; the parts are defined and commented one by one
above them.

| cfg | Module | Property | What it says |
|---|---|---|---|
| `TunnelParts` | `MCTunnelParts` | `TableExact`, `WithinBounds` | the table's byte counter is that of its entries under any frames in any order, and both bounds hold |
| | | `LanesBounded`, `FramesInTurn` | a bulk frame is overtaken `urgentBurst` times at most; frames of a sender go out in order, neither lane starves, no sender is held |
| | | `RingWhole`, `RingCatchesUp` | a synced ring misses nothing and keeps nothing that is gone, but for the events whose last line could not be read; it reads up to the last change again after failures |
| `TunnelCalls` | `MCTunnelCalls` | `CallsTypeOK`, `HonestAgentAccepted`, `KeepsContract` | slots and queues are bounded, the server's limits refuse no honest agent, `Do` implements `CallContract` |
| `TunnelAnswers` | `MCTunnelCalls` | `WholeBodies`, `AnsweredUnlessLost`, `SlotsComeBack` | with bodies cut by the cluster and no deadline of the caller: every other body is whole, only an answer the agent dropped leaves a call hanging, slots come back |
| `TunnelLifecycle` | `MCTunnelLifecycle` | `RegistryExact`, `ClosedForCause`, `TunnelsEnd` | registry and goroutines agree but for what a panic left, the sweep spares current tunnels and the first cause is kept, retired tunnels end on every replica |
| `TunnelStream` | `TunnelStream` | `BudgetExact`, `NothingLost`, `StreamsEnd` | the byte budget, order and completeness of a stream; it ends with its tunnel, and nobody stays in `Close` |
| `AgentStreams` | `MCAgentStreams` | `InputExact`, `NoStreamOutlivesTunnel`, `CutBodyIsTold`, `GoroutinesEnd` | the agent through tunnels that use the same ids, against a silent cluster and a dead socket |
| `Elevation` | `MCElevation` | `GrantBacked`, `TrailAgrees`, `KeepsElevationContract`, `LivePageSettles` | two requests, racing deciders, two sweeping replicas, a blanket revocation, statements that fail, records that are dropped: the grant is backed, the trail says what happened and no more, the approvals page settles |
| `Requests` | `MCRequests` | `HandshakeSettles` | a tunnel used while it is welcomed: the agent is refused only for a frame queued before the welcome, or for one that the writer's last select put ahead of it; both ends settle |
| | | `CountsExact`, `AllowanceKept`, `GuessesDelay` | the throttle: no leak, parallel guesses gain nothing, no login resets an address, nobody is locked out for good |
| | | `PublicationsWhole`, `RevocationHolds` | while the register remembers a credential only an older publication undoes its revocation, and every replica refuses it for good in the end |
| | | `NextIsFirst` | what the cron search returns fires, and from the 28th or earlier it skips nothing |
| `Background` | `MCBackground` | `OneWatcher`, `WatchTakenUp`, `EachOffersOnce` | one holder per term, taken up after a death; no replica offers an event twice or one from before it watched |
| | | `TrailKept`, `SinkDelivers` | the two sinks: order, what may be lost, what is delivered |
| | | `EntriesSound`, `CacheSettles` | the cache: bounded, by scope, and how long it may be behind |

Three runs end in a counterexample: there the code does other than its own
comments say.  Each checks that one statement.

| cfg | Statement | What TLC finds |
|---|---|---|
| `TunnelStreamPanic` | a stream "loses itself rather than the socket everything else shares" (`stream.go:147`) | the caller closes the stream between `deliver`'s test and its send; the read loop panics |
| `ElevationLost` | "An approval recorded without its grant is access somebody believes they have" (`db/jit.go:18`) | a sweep of what has run out deletes the grant of an elevation approved meanwhile: it goes by user and cluster |
| `CronSkips` | "Next returns the first firing at or after `after`" (`cronsched.go:253`) | a search from the 29th to the 31st steps over the next month with `AddDate`, which normalises past a short one |

The passing runs have these behaviours in them: `Elevation` and `CronSchedule` check
the same specification; `TunnelStream` ends the tunnel when its read loop panics, and
`TunnelLifecycle` has what that leaves behind, `ServePanics`.  Where a behaviour breaks
a property, the property names the exception, and its strong form is stated in the
module beside it, for the reader and in no run (but the last, which `CronSkips` has):

* `WholeBodies` exempts the calls whose body the cluster cut: `forwardInParts` takes
  `io.ErrUnexpectedEOF` for the end (`HalfNeverAsWhole`).
* `CleanEndIsWhole` is of the client's stream proxy; a session may see `Done` before
  its last chunk (`VerdictIsRead`).  `BacklogMeansBehind` is of callers that release
  what they read; the events watch never calls `Consumed` (`WatchEndsOnlyBehind`).
* The status a tunnel records when it goes may come after its successor's
  (`HealthSettles`).
* A registered tunnel has a goroutine that will take it out, unless its reader
  panicked: `dropTunnel` is a plain call after `serve` (`server.go:232`), so the closed
  tunnel stays until the agent's next connection displaces it (`NoDeadEntry`).
* `RefusedOnlyIfOvertaken` allows one frame queued after the welcome to go before it:
  when both lanes have something, the last select of `nextFrame` takes either, though
  its comment has "an urgent frame whenever there is one" (`RefusedOnlyIfEarly`).
* `TrailAgrees` counts a record that the audit queue dropped, or that a sweep or call
  is about to write, as heard: the trail may be silent of what happened, never say
  what did not.
* `OnlyOlderUndoes` allows a replica to accept a withdrawn credential again through
  a publication that read before the revocation, until the next refresh; and it,
  `PublicationComplete`, `AnsweredIsPublished` and `RevocationLands` except what the
  register has forgotten (`Forgotten`), of which more below (`StaysRefused`;
  `kubeconfigs.go:309` has it refused from there on).
* `SkippedHasTwin` allows an event to be passed over for one of the same second; a
  mark is one instant (`EveryFreshIsOffered`).  `NothingTwice` is of each replica: two
  may offer the same occurrence, as `alarms_watch.go:111` says (`OneReplicaOffers`).
* `RingWhole` exempts the events whose last line was passed over, and a ring that is
  listing again keeps `synced` (`SyncedIsWhole`).
* `NothingSkipped` is of starts by the 28th (`NothingSkippedEver`).

More behaviours that the models contain and a reader of the code should know:

* An agent that drops an answer after 10 s and starts another call can find the
  assembly budget taken by the first.  A request may be on the wire before the
  welcome; the agent then hangs up.
* A `stream_close` the agent reads before the open's goroutine has filed the stream
  finds nothing and is lost; the process ends with its tunnel or by itself.
  Nothing cancels `pump`'s read when the agent is told to stop.
* Two requests of one user may both be pending and both be approved: the checks and
  the insert are statements of their own (`jit.go:263`).  `PruneJitRequests` deletes
  pending requests too (`db/jit.go:337`), its comment says decided ones.  A sweep's
  update is unconditional: it may overwrite `revoked` with `expired`, and two
  replicas' sweeps may both record the end.
* What happens between two holders of the alarm lease, or behind the mark, is never
  offered; a cluster's mark is forgotten only if a pass sees it away.
* The mark and the window of a pass are the replica's own time and the events are dated
  by the cluster.  A replica whose clock is ahead loses what happens until the
  cluster's clock has come past its mark; one that is behind offers what happened as
  long before it began to watch.
* The retention pass deletes a kubeconfig's row by when it was created
  (`db/kubeconfigs.go:202`), revoked and unexpired ones too.  Retention may be a day and
  is thirty by default, a kubeconfig may live ninety.  The next publication no longer
  names such a kubeconfig and every replica accepts it again; and one that was still
  good can no longer be withdrawn.  A retention no shorter than the lifetime ceiling
  excludes both.
* `sign` counts a token's lifetime from a later reading of the clock than the one it
  was worked out from (`cli_auth.go:700`, `jwt.go:118`), so a token may outlive its
  session's row, and with it the register's mention, by that gap.
* A line of an event watch that is not JSON, or longer than the assembler holds, is
  passed over and the watch kept (`events_watch.go:571`, `:648`): the ring counts as
  synced and is without that change until the object changes again or a list is read.
* The count of a throttle's overflow entry is never forgotten, so a table that stays
  full slows everyone in it; each replica counts alone.
* A batch the store refuses is dropped.  `main.go` does not cancel the context of the
  audit queue while it serves, so the last drain runs only where it is cancelled;
  `AuditTrail` models the drain as `Run` has it.
* A write that is taken but not answered with success invalidates nothing, and a
  slow read can overwrite a newer entry; both last for one lifetime of the entry.

### Bounds, and why they are enough

* `TunnelParts` (421,789 states): three calls, frames of up to 2 bytes, one body up
  to 3, all together up to 5: two bodies can press a third over the budget, and a
  part can land below, on and above both bounds.  One stream and two callers on
  lanes of two and one, a burst of two; frames are numbered modulo 3, which no two
  frames of one sender in flight share.  A ring of two, pages of one, three objects,
  four changes: an object may change in every gap between list, pages and watch.
* `TunnelCalls`: two calls, one slot, one place for requests, two for responses.
  The budget is the slots times the agent's cap, as in the code.  Bodies run from
  empty over one that ends on a slice to one past the cap.  `TunnelAnswers` keeps a
  body of a full and a short slice, so it can be cut before, in and after a part.
* `TunnelLifecycle` (267,038 states): two connections on two replicas, one rotation.  That longer
  chains of displacements change nothing is proved.
* `TunnelStream`: a buffer of one chunk and three bytes, three chunks of one or two
  bytes: either bound can be the one that is hit.
* `AgentStreams`: one session and one body, room for one chunk and two bytes, the ids
  used again by every tunnel; the backoff doubles once.
* `Elevation` (278,255 states): two requests, two calls, two replicas and a clock of
  three values: one elevation can run out and a second be approved and run out too.  A
  behaviour has two calls and one sweep, or one call and two sweeps that may lose the
  records of the first request.  More of each is proved for the invariants and the refinement.
* `Requests` (200,161 states): two checks, two accounts, two addresses and tables of
  two entries, so the pairs overflow; four frames in a handshake; one replica with
  its refresher and one handler, which can overtake each other, rows that live
  past a token, and a retention shorter than they do; days of two hours of two minutes, and starts in 2027, from which a
  search goes on into a leap year.  The search is proved for every year.
* `Background` (400,740 states): two replicas, one whose clock is behind the cluster's
  and one ahead of it, two apart, a lease of two, events that can be read at their own time, late or too old; three records on
  queue and batches of two; three keys of two clusters in a cache of two, two
  readers and a writer.

Deadlock is not checked: calls end, tunnels close, agents stop and processes die for
good, and what must not stop is stated as liveness.

### Fairness, and why the code justifies it

Each goroutine is weakly fair: a Go goroutine that can run does, and each of its
waits ends by a timer (`queueWait`, `writeTimeout`, `RequestTimeout`,
`stateTimeout`, `handshakeTimeout`, `streamOpenTimeout`) or a ticker (sweeps,
refreshers, alarm passes, batches).  Time is weakly fair where a property waits for
a lock, a lifetime or a term to run out.  What the environment owes nobody is not
fair: a client hanging up, the network breaking, an API server answering, a
caller's own deadline (only `DeadlineSpec`, for the contract: the proxy sets one), a
lane ever getting room in `TunnelStream`.  Strong fairness is used where something
is asked at every tick of a store that does not fail for ever: the credential
sweep's `Look`, the register's two reads, and the three statements of the elevation
sweep, each of which may fail now and then; the steps of that sweep for which no
statement has to succeed are weakly fair (`SweepGoesOn`).

## Proofs

Every theorem is of the specification for every value of its constants, from the
named `ASSUME`s of its module and nothing else.  Each invariant below was first
checked by TLC on the runs' instances.

| Module | Of | Theorems | Argument |
|---|---|---|---|
| `TunnelAssemblyProofs` | `TunnelAssembly` | `AssemblyTypeCorrect`, `AssemblyExact`, `AssemblyBounded` | Exact accounting is not inductive alone, for `failLocked` subtracts what an entry holds.  `AssemblyInv` adds both bounds and that only collecting entries hold bytes; bytes held are the cardinality of a set with one element per byte, so each operation is one library fact about finite sets. |
| `TunnelCallsProofs` | `TunnelCalls` | `CallsUseTable`, `CallsBounded`, `CallsTypeCorrect` | The composed system implements the table's specification, so its theorems hold there.  The table accepts parts up to `MaxChunk`; that an agent never makes a larger one needs `FramesInv`. |
| | | `BodiesWhole`, `CallsKeepContract` | `WholeInv`: while an answer is whole, what the entry has assembled and what the frames of the call still carry add up to what the agent has relayed (`SumInv`), and a final frame in a queue or in the read loop's hand is the last of its call (`FinalInv`).  The contract's step then follows from the value `Do` returns. |
| | | `HonestAccepted` | The calls that have bytes in the table, or in a frame on its way, number no more than the agent's slots, as long as no answer was dropped (`HonestInv`, `BearInv`).  From `LimitsFit`, the relation the code has between its constants: a body limit no lower than the agent's cap, a budget that holds every slot's cap. |
| `TunnelEndsProofs` | `TunnelLanes` | `LanesTypeCorrect`, `LanesBurstBounded`, `SendersKeepOrder` | `LanesInv` ties the history `overtaken` to `urgentRun` in each place the writer can be in.  `InOrder`: a sender's frames in its lane are numbered on from the one the writer holds, up to the next it will send. |
| | `TunnelLifecycle` | `LifeTypeCorrect`, `RegistryAgrees`, `SweepIsSound`, `CauseIsFirst`, `CloseIsForCause` | `LifeInv` adds that no credential is newer than the token, that whatever the sweep or a rotation holds has been verified, and that what the sweep is about to close is on a retired token.  A reader that panics leaves its entry, closed. |
| | `AgentStreams` | `InputIsExact`, `TunnelsApart`, `CutIsTold` | `AgentInv`: the three are inductive once it is known how far a stream's goroutine is when it is in the table, has input, or reports its end (`PhaseInv`). |
| `StreamProofs` | `TunnelStream` | `StreamAccounts`, `BudgetIsExact`, `NothingIsLost` | `StreamInv`: each chunk is on the wire, in `deliver`'s hand, buffered or with the caller, and in one of them (`OnceInv`, `OrderInv`); bytes are what is in the last three (`BytesInv`); what the inbox still holds comes after all of it (`InboxInv`).  For every interleaving of `deliver` with the three closers. |
| | `EventRing` | `RingIsWhole` | `RingInv`: while pages are listed, the ring and the pages to come are what the cluster held at the version they list, less what the bound dropped, and the ring's order is that of its index (`ListInv`); a deleted event does not come back (`ChangesInv`), so replaying a change keeps the ring at the watch's position; a line passed over leaves the ring wrong about that one event, and the next that is read sets it right. |
| `ElevationProofs` | `Elevation` | `TypesCorrect`, `GrantIsBacked`, `TrailIsTrue`, `ElevationRefines` | The invariant ties the grant row to the last approval, and what was recorded, is owed or was lost to each request's status, through every place a decider or a sweep can be in; a record is owed by one, and once (`OwesAtRest`, `OwedOnce`).  The refinement follows from it step by step. |
| `RequestsProofs` | `TunnelHandshake` | `RefusalIsEarned` | Unless a frame was put there early, the welcome is the first frame of its lane and of the wire, or the second behind the one frame that the writer's last select put ahead of it (`WelcomeNear`); and it is put there only after the health was recorded (`Served`). |
| | `LoginThrottle` | `CountsStayExact`, `ParallelGainsNothing`, `SourcesAreHeld` | A failure that is added must take a check out of flight, which it does because the counter is the cardinality of the checks that hold the slot.  An address's failures fall only in a sweep or a lookup of a stale entry. |
| | `Revocation` | `PublicationsAreWhole`, `OnlyOlderPublicationsUndo`, `AnswersArePublished` | The reads leave out rows that have expired, and a token may be minted after them: a publication is complete only because no token outlives its session's row but one signed late (`TokensDieFirst`), and a handler's is enough because it reads after it revoked.  What the retention pass has taken is excepted, and only that (`Forgotten`). |
| `BackgroundProofs` | `AlarmWatch` | `WatchersExclude`, `OffersAreFirst` | A replica that takes the lease meets those that took it before, whoever held it in between.  `LeaseInv` keeps what is left of the row against every pass at work (`TermCovered`, `TermBounded`, `OvertakenIsLate`), `OfferInv` that marks only move forward from where they were established, which by the cluster's clock may be ahead. |
| | `ReadCache` | `EntriesAreSound`, `LeastGoes` | `CacheInv`: an answer a reader has yet to store has seen every write that was answered, unless one was answered since the read had its answer; nothing is newer than the cluster. |
| | `AuditTrail` | `TrailIsKept`, `DeliveredWhole` | `PlacesInv`: batch and queue are consecutive stretches of the order in which records were queued, and the table is of what came before; `ServeInv` says what `Run` has in hand in each of its states, `WrittenInv` that what a sender wrote ends with the batch, up to where it is. |
| | `CronSchedule` | `NextComesFirst` | Between two jumps all the search has passed is no firing (`CronInv`): it leaves a month only from where it started or from a first, and from the 28th or earlier a jump over months passes only days of one month.  The calendar is proved too: each day has one year, month and date. |
| `SeqSumsProofs` | `SeqSums` | | Induction over a length, by the set of lengths a fact holds at, where the library's theorems would take the fact as an operator. |

Two things a reader should not take for more than they are.  `CallsKeepContract`
is of behaviours in which no API server cuts its body (`cut = {}`), because a cut
body is returned as a whole one: the exception of `WholeBodies` below the run
table.  `NextComesFirst` is of starts on any day from the first of year 1 on, in the
Gregorian calendar without time zones, and of days of any length.

Model-checked only: liveness under fairness, for which the prover has no rule here,
that is, `KeepsContract` beyond its steps, `AnsweredUnlessLost`, `SlotsComeBack`,
`TunnelsEnd`, `StreamsEnd`, `GoroutinesEnd`, `LivePageSettles`, `WatchTakenUp`,
`RingCatchesUp`, and what the conjunctions `HandshakeSettles`, `FramesInTurn`,
`GuessesDelay`, `RevocationHolds`, `CacheSettles` and `SinkDelivers` say of what
happens in the end; what they say of a step or a state is proved.

## Not modelled, and why

* Proxy, impersonation and access decisions: functions of one request, with no state
  of their own.  `TunnelCalls` and `TunnelStream` begin where they call the tunnel.
* The console API: some 400 handlers, most of them one store call or one proxied
  read.  Those with state are the components above.  Store: its statements are in
  the actions that run them; `DeleteUser` and `DeleteCluster` against an approval
  are not.
* Authentication: password hashes, second factors, OIDC and device login.  Their
  single-use rows are each claimed by one conditional update.
* Guardrails: a matcher of command lines, whose alphabet is what a property would be
  about.  Recordings: a file format with one writer.  Web shell: its state is the
  cluster's pods.
* Rendering, packaging, process start, CLI, frontend: no shared state.

Of the modelled files: `forward` (one final frame, for old servers), the
displacement's audit record, `Send` and stdin of a server's stream, recorders and
guardrail notices; of the agent's writer, which has the server's selects, what
`TunnelLanes` says; alarm rules and the dispatcher; four more jobs that take leases
as the alarm watch does; datagrams, formats and the health note of the forwarder; the
age bound of the ring; time zones and clock changes in `CronSchedule`; the use
recorder of credentials.  A server that dies takes its tunnels with it; the status it
leaves in the database is not followed.

## Plan

1. `Elevation` with the deletion of accounts and clusters, and the steps of the
   proofs it adds; the dispatcher behind `AlarmWatch`.
2. The other jobs under a lease, where a pass of theirs has state worth it.
3. Proofs of what the strong forms would need: under which order of calls a
   session does read its verdict, and a tunnel's status is its own.
