----------------------------- MODULE AlarmWatch -----------------------------
(* The replicas' lease on the watch over a cluster's events, and the passes its
   holders make (backend/pkg/db/lease.go, backend/pkg/api/alarms_watch.go).

   Times are kept as ages, so nothing has to end the clock: how long a lease has
   to run, and how old an event and a watermark are by the clock of the cluster,
   which dates the events.  A mark that a replica sets by its own clock may be ahead
   of that, and has an age below nought.  An age past everybody's window is Old, and
   an Old event is as good as none.  A rule that watches the cluster exists
   throughout.                                                                    *)
EXTENDS Integers, FiniteSets

CONSTANTS
    Replicas,
    Ahead,      \* how far each replica's clock runs ahead of the slowest
    ClusterAhead,  \* and how far the cluster's does
    Skew,       \* at most
    Former,     \* the holder a dead process leaves in the row
    LeaseTTL,   \* alarmLeaseTTL
    MaxAge,     \* alarmEventMaxAge
    Events,
    Late        \* how late an event may reach the cluster's list

ASSUME AClockEach ==
    Skew \in Nat /\ Ahead \in [Replicas -> 0..Skew] /\ ClusterAhead \in 0..Skew
ASSUME FormerIsGone == Former \notin Replicas
ASSUME WindowBounds == LeaseTTL \in Nat \ {0} /\ MaxAge \in Nat /\ Late \in 0..MaxAge

VARIABLES
    lease,     \* the row: its holder, and what is left of it by the slowest clock
    at,        \* where each replica's alarmTick is
    worked,    \* how long ago it took the lease for this pass
    age,       \* of each event's LastSeen, by the cluster's clock
    items,     \* what a pass has read
    mark,      \* watermarkTable
    base,      \* when the mark was established
    sent,      \* history: of the events that are not Old, those handed to the dispatcher
    skipped    \* history: and the fresh ones of a pass that were not

passVars == <<at, worked, items, mark, base, sent, skipped>>
watchVars == <<lease, age, passVars>>

Old == MaxAge + ClusterAhead + 1
LongAgo == LeaseTTL + Skew + 1
Unknown == -Skew - 1
\* How far a replica's clock is ahead of the cluster's, or if below nought behind it.
Lead(r) == Ahead[r] - ClusterAhead
Working(r) == at[r] \in {"listing", "reading", "read"}
Older(a) == IF a \in (Unknown + 1)..(Old - 1) THEN a + 1 ELSE a
Holds(r) == lease.holder = r

WatchInit ==
    /\ lease = [holder |-> Former, left |-> -1]
    /\ age = [e \in Events |-> Old]
    /\ at \in [Replicas -> {"off", "idle"}] /\ worked = [r \in Replicas |-> 0]
    /\ items = [r \in Replicas |-> {}] /\ mark = [r \in Replicas |-> Unknown]
    /\ base = [r \in Replicas |-> Unknown]
    /\ sent = [r \in Replicas |-> {}] /\ skipped = [r \in Replicas |-> {}]

-----------------------------------------------------------------------------
(* The world: time, the cluster, the processes. *)

Tick ==
    /\ lease' = [lease EXCEPT !.left = IF @ < 0 THEN @ ELSE @ - 1]
    /\ age' = [e \in Events |-> Older(age[e])]
    /\ mark' = [r \in Replicas |-> Older(mark[r])]
    /\ base' = [r \in Replicas |-> Older(base[r])]
    /\ worked' = [r \in Replicas |->
          IF Working(r) /\ worked[r] < LongAgo THEN worked[r] + 1 ELSE worked[r]]
    /\ sent' = [r \in Replicas |-> {e \in sent[r] : age'[e] # Old}]
    /\ skipped' = [r \in Replicas |-> {e \in skipped[r] : age'[e] # Old}]
    /\ UNCHANGED <<at, items>>

\* An event is seen, now or a little before it can be read.  Bound: it is not
\* seen again while it is recent or in a pass's hands.
Emit(e) ==
    /\ age[e] = Old /\ \A r \in Replicas : e \notin items[r]
    /\ \E a \in 0..Late : age' = [age EXCEPT ![e] = a]
    /\ UNCHANGED <<lease, passVars>>

\* Everything but the row is in memory.
Die(r) ==
    /\ at[r] # "off"
    /\ at' = [at EXCEPT ![r] = "off"] /\ worked' = [worked EXCEPT ![r] = 0]
    /\ items' = [items EXCEPT ![r] = {}]
    /\ mark' = [mark EXCEPT ![r] = Unknown] /\ base' = [base EXCEPT ![r] = Unknown]
    /\ sent' = [sent EXCEPT ![r] = {}] /\ skipped' = [skipped EXCEPT ![r] = {}]
    /\ lease' = IF Holds(r) THEN [lease EXCEPT !.holder = Former] ELSE lease
    /\ UNCHANGED age

Start(r) ==
    /\ at[r] = "off"
    /\ at' = [at EXCEPT ![r] = "idle"]
    /\ UNCHANGED <<lease, age, worked, items, mark, base, sent, skipped>>

-----------------------------------------------------------------------------
(* alarmTick. *)

Take(r) ==
    /\ lease' = [holder |-> r, left |-> LeaseTTL + Ahead[r]]
    /\ at' = [at EXCEPT ![r] = "listing"] /\ worked' = [worked EXCEPT ![r] = 0]
    /\ UNCHANGED <<age, items, mark, base, sent, skipped>>

\* Mutant: a store that cannot answer counts as a free lease.
AcquireLeaseOnError(r) == at[r] = "idle" /\ Take(r)

\* Mutant: "or" for "and".
AcquireLeaseOwnOnly(r) ==
    /\ at[r] = "idle"
    /\ lease.left < Ahead[r] /\ Holds(r)
    /\ Take(r)

\* AcquireLease, with the clock of its caller.  Refused, or failed, the pass is
\* skipped and nothing changes.
AcquireLease(r) ==
    /\ at[r] = "idle"
    /\ lease.left < Ahead[r] \/ Holds(r)
    /\ Take(r)

Idle(r) ==
    /\ at' = [at EXCEPT ![r] = "idle"] /\ worked' = [worked EXCEPT ![r] = 0]
    /\ items' = [items EXCEPT ![r] = {}]
    /\ UNCHANGED <<lease, age>>

\* The cluster has no tunnel.
Forget(r) ==
    /\ at[r] = "listing"
    /\ mark' = [mark EXCEPT ![r] = Unknown] /\ base' = [base EXCEPT ![r] = Unknown]
    /\ sent' = [sent EXCEPT ![r] = {}] /\ skipped' = [skipped EXCEPT ![r] = {}]
    /\ Idle(r)

\* It has one.
Look(r) ==
    /\ at[r] = "listing"
    /\ at' = [at EXCEPT ![r] = "reading"]
    /\ UNCHANGED <<lease, age, worked, items, mark, base, sent, skipped>>

\* The ring's snapshot, which may be in the middle of a list (EventRing), or one
\* page of the list down the tunnel: any of the events.
Read(r) ==
    /\ at[r] = "reading"
    /\ at' = [at EXCEPT ![r] = "read"]
    /\ \E E \in SUBSET {e \in Events : age[e] # Old} : items' = [items EXCEPT ![r] = E]
    /\ UNCHANGED <<lease, age, worked, mark, base, sent, skipped>>

ReadFails(r) ==
    /\ at[r] \in {"listing", "reading"}
    /\ Idle(r) /\ UNCHANGED <<mark, base, sent, skipped>>

\* The mark is the replica's own time.
Establish(r) ==
    /\ at[r] = "read" /\ mark[r] = Unknown
    /\ mark' = [mark EXCEPT ![r] = -Lead(r)] /\ base' = [base EXCEPT ![r] = -Lead(r)]
    /\ Idle(r) /\ UNCHANGED <<sent, skipped>>

\* The events of a pass that are in the replica's window and after its mark.
Fresh(r) == {e \in items[r] : age[e] + Lead(r) <= MaxAge /\ age[e] < mark[r]}

\* Where advance leaves the mark after a pass with something new.
Latest(r) ==
    CHOOSE a \in 0..Old :
        /\ \E e \in Fresh(r) : age[e] = a
        /\ \A e \in Fresh(r) : a <= age[e]

\* What offering `out` leaves: the mark is at the latest event.
Offered(r, out) ==
    /\ sent' = [sent EXCEPT ![r] = @ \cup out]
    /\ skipped' = [skipped EXCEPT ![r] = @ \cup (Fresh(r) \ out)]
    /\ mark' = [mark EXCEPT ![r] = IF Fresh(r) = {} THEN @ ELSE Latest(r)]
    /\ Idle(r) /\ UNCHANGED base

\* Mutant: in the order of the list, where one event can be before all others.
OfferUnsorted(r) ==
    /\ at[r] = "read" /\ mark[r] # Unknown
    /\ \E out \in SUBSET Fresh(r) :
          /\ \A e \in Fresh(r) : (\A f \in Fresh(r) : age[e] <= age[f]) => \E f \in out : age[f] = age[e]
          /\ Offered(r, out)

\* Oldest first, each against the mark the one before it left: of the events
\* seen at the same time only the first in the list is after it.
Offer(r) ==
    /\ at[r] = "read" /\ mark[r] # Unknown
    /\ \E out \in SUBSET Fresh(r) :
          /\ \A e \in Fresh(r) : Cardinality({f \in out : age[f] = age[e]}) = 1
          /\ Offered(r, out)

Pass(r) ==
    \/ AcquireLease(r) \/ Forget(r) \/ Look(r) \/ Read(r) \/ ReadFails(r)
    \/ Establish(r) \/ Offer(r)

WatchNext ==
    \/ Tick
    \/ \E e \in Events : Emit(e)
    \/ \E r \in Replicas : Pass(r) \/ Die(r) \/ Start(r)

WatchSpec == WatchInit /\ [][WatchNext]_watchVars

\* A replica that runs keeps ticking, its steps return, and time passes.
FairWatchSpec ==
    /\ WatchSpec /\ WF_watchVars(Tick)
    /\ \A r \in Replicas : WF_watchVars(Pass(r))

-----------------------------------------------------------------------------
(* What is checked. *)

Ages == Unknown..Old

\* Types; a mark is known exactly when its date is.
WatchTypeOK ==
    /\ lease \in [holder : Replicas \cup {Former}, left : Int]
    /\ lease.left >= -1
    /\ at \in [Replicas -> {"off", "idle", "listing", "reading", "read"}]
    /\ worked \in [Replicas -> 0..LongAgo]
    /\ age \in [Events -> 0..Old]
    /\ items \in [Replicas -> SUBSET Events]
    /\ mark \in [Replicas -> Ages] /\ base \in [Replicas -> Ages]
    /\ \A r \in Replicas : (mark[r] = Unknown <=> base[r] = Unknown)
    /\ sent \in [Replicas -> SUBSET Events] /\ skipped \in [Replicas -> SUBSET Events]

\* Two replicas watch at once only if one of them was overtaken in its pass: it
\* took its lease a full term ago, less what the other's clock is ahead of its
\* own (db/lease.go: "two replicas that ... both proceed is exactly the
\* duplication the lease exists to prevent").
OneWatcher ==
    \A r, q \in Replicas : r # q /\ Working(r) /\ Working(q) =>
        \/ worked[r] + Ahead[q] > LeaseTTL + Ahead[r]
        \/ worked[q] + Ahead[r] > LeaseTTL + Ahead[q]

\* No replica offers what happened before it began to watch the cluster, by its own
\* clock, whatever the cluster's says: not after a restart, a takeover, or a time the
\* cluster was away.  A clock that is behind lets in what happened so long before.
NothingReplayed ==
    \A r \in Replicas : \A e \in sent[r] : age[e] < base[r]

\* What a replica has offered is behind its mark, so that it never offers the
\* same occurrence twice, however slow its passes and however late the event.
NothingTwice ==
    \A r \in Replicas : \A e \in sent[r] : age[e] >= mark[r]

\* A fresh event is passed over only for one seen at the very same time.
SkippedHasTwin ==
    \A r \in Replicas : \A e \in skipped[r] : \E o \in sent[r] : age[o] = age[e]

\* The strong form: the sorting "makes every event in the window pass the mark it
\* is actually being compared against" (api/alarms_watch.go, offerEvents).
EveryFreshIsOffered == \A r \in Replicas : skipped[r] = {}

\* A watch whose holder died is taken up again as long as any replica runs on.
Watched == \E r \in Replicas : Working(r)
WatchTakenUp == \A r \in Replicas : <>[](at[r] # "off") => []<>Watched

\* The strong form: only one replica offers an occurrence.  One that lost the lease and
\* has it again "can re-offer events the previous holder already sent"
\* (api/alarms_watch.go:113).
OneReplicaOffers ==
    \A r, q \in Replicas : r # q => sent[r] \cap sent[q] = {}

\* A replica offers each occurrence at most once, if it was watching when it happened
\* by its own clock, and passes over a fresh one only for its twin.
EachOffersOnce == WatchTypeOK /\ NothingReplayed /\ NothingTwice /\ SkippedHasTwin
=============================================================================
