------------------------------ MODULE Elevation ------------------------------
(* Just-in-time elevation (backend/pkg/jit/jit.go, backend/pkg/db/jit.go): one
   user asks for temporary access to one cluster, administrators decide, and
   every replica's sweep closes what has run out.

   Request rows and the grant row are in the database the replicas share.  The
   elevated grant is one row per user and cluster, not per request, so all the
   requests of one user for one cluster are modelled; no step touches two such
   pairs but the sweep, which treats each by itself.  A transaction is one
   action, except the sweep's, whose SELECT takes no lock: other transactions
   commit between it and the updates.  The audit record of a transaction is a
   call of its own after it, to a queue that may drop it (AuditTrail).       *)
EXTENDS Integers, FiniteSets

CONSTANTS
    Requests,   \* requests of the user for the cluster
    Users,      \* accounts
    Admins,     \* those that may decide
    Requester,  \* the one who asks
    Calls,      \* API calls in progress
    Replicas,   \* server processes, each with a sweep
    Lasts,      \* the duration each request asks for
    MaxTime,    \* bound: end of the clock
    Blanket,    \* whether an administrator revokes the user's access outright
    None        \* no request, no user, no grant

ASSUME NoneIsApart == None \notin Requests \cup Users \cup [asked : Requests, until : 0..MaxTime]
ASSUME DurationsNat == Lasts \in [Requests -> Nat \ {0}]
ASSUME AdminsAreUsers == Admins \subseteq Users /\ Requester \in Users
ASSUME TimeNat == MaxTime \in Nat
ASSUME ActorsApart == Calls \cap Replicas = {}

VARIABLES
    now,       \* the clock
    status,    \* jit_requests.status; "none" before it is created, "pruned" after
    expires,   \* jit_requests.expires_at
    approver,  \* jit_requests.approver_id of what was approved
    grant,     \* the row of user_cluster_access whose source is jit
    trail,     \* audit records: how many of each verb name the request
    owes,      \* what each call and sweep has committed and not yet recorded
    lost,      \* history: records that were never to reach the trail
    call,      \* where each API call is
    sweep      \* where each replica's sweep is

rowVars == <<status, expires, approver, grant>>
trailVars == <<trail, owes, lost>>
elevationVars == <<now, rowVars, trailVars, call, sweep>>

Actors == Calls \cup Replicas
Verbs == {"approve", "reject", "revoke", "expire"}
Live == {"active"}
Over == {"rejected", "expired", "revoked", "pruned"}

NoCall == [at |-> "idle", verb |-> "none", about |-> None, actor |-> None]
Resting == [at |-> "idle", left |-> {}]

\* AccessForUser and JitRequest.Live: what has run out does not count.
InForce == grant # None /\ grant.until > now
Lives(r) == status[r] \in Live /\ expires[r] > now

ElevationInit ==
    /\ now = 0
    /\ status = [r \in Requests |-> "none"]
    /\ expires = [r \in Requests |-> 0]
    /\ approver = [r \in Requests |-> None]
    /\ grant = None
    /\ trail = [r \in Requests |-> [v \in Verbs |-> 0]]
    /\ owes = [x \in Actors |-> {}] /\ lost = {}
    /\ call = [c \in Calls |-> NoCall]
    /\ sweep = [p \in Replicas |-> Resting]

\* A transaction has committed, and is to be recorded next.
Owe(x, records) == owes' = [owes EXCEPT ![x] = records] /\ UNCHANGED <<trail, lost>>

\* record, after the transaction: the queue takes it, or drops it; and a process that
\* dies first has lost it too.  Nothing else is begun before.
Tell(x, r, verb) ==
    /\ <<r, verb>> \in owes[x]
    /\ owes' = [owes EXCEPT ![x] = @ \ {<<r, verb>>}]
    /\ \/ trail' = [trail EXCEPT ![r][verb] = @ + 1] /\ UNCHANGED lost
       \/ lost' = lost \cup {<<r, verb>>} /\ UNCHANGED trail
    /\ UNCHANGED <<now, rowVars, call, sweep>>

-----------------------------------------------------------------------------
(* CreateRequest: two checks and a creation, each a statement of its own. *)

\* PendingJitRequestFor finds nothing.
AskPending(c) ==
    /\ call[c].at = "idle" /\ owes[c] = {}
    /\ \A r \in Requests : status[r] # "pending"
    /\ call' = [call EXCEPT ![c].at = "asking"]
    /\ UNCHANGED <<now, rowVars, trailVars, sweep>>

\* LiveFor finds nothing.
AskLive(c) ==
    /\ call[c].at = "asking"
    /\ \A r \in Requests : ~Lives(r)
    /\ call' = [call EXCEPT ![c].at = "filing"]
    /\ UNCHANGED <<now, rowVars, trailVars, sweep>>

File(c, r) ==
    /\ call[c].at = "filing"
    /\ status[r] = "none"
    /\ status' = [status EXCEPT ![r] = "pending"]
    /\ call' = [call EXCEPT ![c] = NoCall]
    /\ UNCHANGED <<now, expires, approver, grant, trailVars, sweep>>

\* A live elevation, standing access that covers it, or the store failing; and
\* for a decision, somebody else having been first.
CallRefused(c) ==
    /\ call[c].at # "idle"
    /\ call' = [call EXCEPT ![c] = NoCall]
    /\ UNCHANGED <<now, rowVars, trailVars, sweep>>

-----------------------------------------------------------------------------
(* ApproveRequest, RejectRequest, RevokeRequest: a row is loaded and judged,
   then a transaction moves it.  Who ends a request is left out.            *)

MayDecide(verb, r, u) ==
    \/ verb = "approve" /\ status[r] = "pending" /\ u \in Admins \ {Requester}
    \/ verb = "reject" /\ status[r] = "pending" /\ u \in Admins \cup {Requester}
    \/ verb = "revoke" /\ status[r] \in Live /\ u \in Admins \cup {Requester}

Load(c, verb, r, u) ==
    /\ call[c].at = "idle" /\ owes[c] = {}
    /\ MayDecide(verb, r, u)
    /\ call' = [call EXCEPT ![c] = [at |-> "deciding", verb |-> verb, about |-> r,
                                    actor |-> IF verb = "approve" THEN u ELSE None]]
    /\ UNCHANGED <<now, rowVars, trailVars, sweep>>

Deciding(c, verb) == call[c].at = "deciding" /\ call[c].verb = verb

\* Mutant: the approval does not ask again whether the request is pending.
ActivateUnchecked(c) ==
    LET r == call[c].about IN
    /\ Deciding(c, "approve")
    /\ now + Lasts[r] <= MaxTime
    /\ status' = [status EXCEPT ![r] = "active"]
    /\ expires' = [expires EXCEPT ![r] = now + Lasts[r]]
    /\ approver' = [approver EXCEPT ![r] = call[c].actor]
    /\ grant' = [asked |-> r, until |-> now + Lasts[r]]
    /\ Owe(c, {<<r, "approve">>})
    /\ call' = [call EXCEPT ![c] = NoCall]
    /\ UNCHANGED <<now, sweep>>

\* ActivateJitRequest: the grant replaces the row an earlier one left.
Activate(c) ==
    LET r == call[c].about IN
    /\ Deciding(c, "approve")
    /\ status[r] = "pending"
    /\ now + Lasts[r] <= MaxTime  \* bound
    /\ status' = [status EXCEPT ![r] = "active"]
    /\ expires' = [expires EXCEPT ![r] = now + Lasts[r]]
    /\ approver' = [approver EXCEPT ![r] = call[c].actor]
    /\ grant' = [asked |-> r, until |-> now + Lasts[r]]
    /\ Owe(c, {<<r, "approve">>})
    /\ call' = [call EXCEPT ![c] = NoCall]
    /\ UNCHANGED <<now, sweep>>

\* Mutant: the request is closed and its grant left.
FinishKeepsGrant(x, r, from, to, verb) ==
    /\ status[r] \in from
    /\ status' = [status EXCEPT ![r] = to]
    /\ Owe(x, {<<r, verb>>})
    /\ UNCHANGED <<grant, now, expires, approver>>

\* FinishJitRequest.  Only a request that was live takes the grant with it.
Finish(x, r, from, to, verb) ==
    /\ status[r] \in from
    /\ status' = [status EXCEPT ![r] = to]
    /\ grant' = IF status[r] \in Live THEN None ELSE grant
    /\ Owe(x, {<<r, verb>>})
    /\ UNCHANGED <<now, expires, approver>>

Reject(c) ==
    /\ Deciding(c, "reject")
    /\ Finish(c, call[c].about, {"pending"}, "rejected", "reject")
    /\ call' = [call EXCEPT ![c] = NoCall]
    /\ UNCHANGED sweep

Revoke(c) ==
    /\ Deciding(c, "revoke")
    /\ Finish(c, call[c].about, Live, "revoked", "revoke")
    /\ call' = [call EXCEPT ![c] = NoCall]
    /\ UNCHANGED sweep

-----------------------------------------------------------------------------
(* Engine.Sweep of one replica. *)

\* ExpireJitRequests: the SELECT.
FindExpired(p) ==
    LET found == {r \in Requests : status[r] \in Live /\ expires[r] <= now} IN
    /\ sweep[p].at = "idle" /\ owes[p] = {}
    /\ sweep' = [sweep EXCEPT ![p] =
         IF found = {} THEN [at |-> "looking", left |-> {}]
                       ELSE [at |-> "closing", left |-> found]]
    /\ UNCHANGED <<now, rowVars, trailVars, call>>

\* The rest of it: the grant goes by user and cluster, the rows by id, whatever
\* either has become.  What was found is then recorded, one by one.
CloseExpired(p) ==
    LET found == sweep[p].left IN
    /\ sweep[p].at = "closing"
    /\ grant' = None
    /\ status' = [r \in Requests |->
         IF r \in found THEN "expired" ELSE status[r]]
    /\ Owe(p, {<<r, "expire">> : r \in found})
    /\ sweep' = [sweep EXCEPT ![p] = [at |-> "looking", left |-> {}]]
    /\ UNCHANGED <<now, expires, approver, call>>

\* Mutant: the missing grant is looked for under every source, and found.
FindOrphansAnySource(p) ==
    /\ sweep[p].at = "looking" /\ owes[p] = {}
    /\ sweep' = [sweep EXCEPT ![p] = Resting]
    /\ UNCHANGED <<now, rowVars, trailVars, call>>

\* OrphanedJitRequests: live requests, while there is no grant.
FindOrphans(p) ==
    LET orphans == IF grant = None THEN {r \in Requests : status[r] \in Live} ELSE {} IN
    /\ sweep[p].at = "looking" /\ owes[p] = {}
    /\ sweep' = [sweep EXCEPT ![p] =
         IF orphans = {} THEN Resting ELSE [at |-> "reconciling", left |-> orphans]]
    /\ UNCHANGED <<now, rowVars, trailVars, call>>

\* The sweep has done with an orphan.
Past(p, r) ==
    LET rest == sweep[p].left \ {r} IN
    /\ sweep[p].at = "reconciling" /\ owes[p] = {}
    /\ r \in sweep[p].left
    /\ sweep' = [sweep EXCEPT ![p] =
         IF rest = {} THEN Resting ELSE [at |-> "reconciling", left |-> rest]]
    /\ UNCHANGED call

\* One orphan is closed.
Reconcile(p, r) == Past(p, r) /\ Finish(p, r, Live, "revoked", "revoke")

\* It has ended meanwhile, or the store fails: logged, and on to the next.
ReconcileSkips(p, r) == Past(p, r) /\ UNCHANGED <<now, rowVars, trailVars>>

\* The store fails: left to the next pass.
SweepFails(p) ==
    /\ sweep[p].at \in {"closing", "looking"} /\ owes[p] = {}
    /\ sweep' = [sweep EXCEPT ![p] = Resting]
    /\ UNCHANGED <<now, rowVars, trailVars, call>>

-----------------------------------------------------------------------------
(* The rest of the server. *)

\* RevokeUserAccess deletes the grants of every source.
BlanketRevoke ==
    /\ Blanket
    /\ grant' = None
    /\ UNCHANGED <<now, status, expires, approver, trailVars, call, sweep>>

\* PruneJitRequests: old requests that are not live, undecided ones included.  A
\* row that is over is read by nothing but listings, and stays in the model.
Prune(r) ==
    /\ status[r] = "pending"
    /\ status' = [status EXCEPT ![r] = "pruned"]
    /\ UNCHANGED <<now, expires, approver, grant, trailVars, call, sweep>>

Tick ==
    /\ now < MaxTime  \* bound
    /\ now' = now + 1
    /\ UNCHANGED <<rowVars, trailVars, call, sweep>>

Handler(c) ==
    \/ AskPending(c)
    \/ AskLive(c)
    \/ \E r \in Requests : File(c, r)
    \/ CallRefused(c)
    \/ \E verb \in Verbs, r \in Requests, u \in Users : Load(c, verb, r, u)
    \/ Activate(c)
    \/ Reject(c)
    \/ Revoke(c)

Sweeper(p) ==
    \/ FindExpired(p)
    \/ CloseExpired(p)
    \/ FindOrphans(p)
    \/ \E r \in Requests : Reconcile(p, r) \/ ReconcileSkips(p, r)
    \/ SweepFails(p)

ElevationNext ==
    \/ \E c \in Calls : Handler(c)
    \/ \E p \in Replicas : Sweeper(p)
    \/ \E x \in Actors, r \in Requests, verb \in Verbs : Tell(x, r, verb)
    \/ BlanketRevoke
    \/ \E r \in Requests : Prune(r)
    \/ Tick

ElevationSpec == ElevationInit /\ [][ElevationNext]_elevationVars

\* What a sweep does next, where no statement has to succeed for it to go on.
SweepGoesOn(p) ==
    \/ FindExpired(p)
    \/ \E r \in Requests : Reconcile(p, r) \/ ReconcileSkips(p, r)
    \/ \E r \in Requests, verb \in Verbs : Tell(p, r, verb)

\* A sweep runs every 30 seconds, on a store that does not fail any of its statements
\* for ever; recording never waits.  Nobody owes a decision, and the clock's end is
\* only a bound.
FairElevationSpec ==
    /\ ElevationSpec
    /\ \A p \in Replicas :
         /\ WF_elevationVars(SweepGoesOn(p))
         /\ SF_elevationVars(CloseExpired(p))
         /\ SF_elevationVars(FindOrphans(p))
         /\ SF_elevationVars(\E r \in Requests : Reconcile(p, r))

-----------------------------------------------------------------------------
(* Properties. *)

CallsAt ==
    {NoCall} \cup [at : {"asking", "filing"}, verb : {"none"}, about : {None}, actor : {None}]
             \cup [at : {"deciding"}, verb : Verbs, about : Requests, actor : Users \cup {None}]

\* Types.
ElevationTypeOK ==
    /\ now \in 0..MaxTime
    /\ status \in [Requests -> {"none", "pending"} \cup Live \cup Over]
    /\ expires \in [Requests -> 0..MaxTime]
    /\ approver \in [Requests -> Users \cup {None}]
    /\ grant \in {None} \cup [asked : Requests, until : 0..MaxTime]
    /\ trail \in [Requests -> [Verbs -> Nat]]
    /\ owes \in [Actors -> SUBSET (Requests \X Verbs)] /\ lost \subseteq Requests \X Verbs
    /\ call \in [Calls -> CallsAt]
    /\ sweep \in [Replicas -> [at : {"idle", "closing", "looking", "reconciling"},
                               left : SUBSET Requests]]

\* However decisions, sweeps of several replicas and a blanket revocation
\* interleave, the elevated grant is never more than what a request that is
\* still live was approved for, by an administrator other than its requester
\* (ActivateJitRequest, FinishJitRequest and ExpireJitRequests all write the one
\* row that all the user's requests for the cluster share).
GrantBacked ==
    grant # None =>
        LET r == grant.asked IN
        /\ status[r] \in Live
        /\ expires[r] = grant.until
        /\ approver[r] \in Admins \ {Requester}

\* What there is to hear of a request: recorded, about to be, or lost on the way.
Owed(r, verb) == \E x \in Actors : <<r, verb>> \in owes[x]
Heard(r) == {v \in Verbs : trail[r][v] > 0 \/ Owed(r, v) \/ <<r, v>> \in lost}

\* What is to be heard of a request in each status.
Stories(s) ==
    CASE s \in {"none", "pending", "pruned"} -> {{}}
      [] s = "active" -> {{"approve"}}
      [] s = "rejected" -> {{"reject"}}
      [] s = "revoked" -> {{"approve", "revoke"}}
      [] s = "expired" -> {{"approve", "expire"}, {"approve", "revoke", "expire"}}

\* However many deciders and sweeps race, what is heard of a request is what became
\* of it: one decision, and an end if it ended.  Nothing is recorded that did not
\* happen, nor twice but the end that two sweeps both find; and what happened is
\* missing only while its record is being written or because the queue dropped it.
TrailAgrees ==
    \A r \in Requests :
        /\ Heard(r) \in Stories(status[r])
        /\ \A v \in Verbs \ {"expire"} : trail[r][v] <= 1

\* The contract the elevations keep.
Contract == INSTANCE ElevationContract WITH
    NoRequest <- None,
    phase <- [r \in Requests |->
                CASE status[r] = "none" -> "none"
                  [] status[r] = "pending" -> "waiting"
                  [] status[r] \in Live -> "open"
                  [] OTHER -> "over"],
    privilege <- IF InForce THEN grant.asked ELSE None

\* Requests, decisions, sweeps and the clock implement ElevationContract: a
\* request opens once, from waiting, and what is over neither opens again nor
\* leaves its privilege behind.
KeepsElevationContract == Contract!ElevationContractSpec

\* The approvals page tells the truth again and again (jit.go:678): whatever statement
\* fails now and then and whatever another replica is closing, the sweeps get to where
\* every request that claims to be live has time left and a grant.
LivePageSettles ==
    []<>(\A r \in Requests : status[r] \in Live => expires[r] > now /\ grant # None)

\* "An approval recorded without its grant is access somebody believes they have"
\* (backend/pkg/db/jit.go:18): unless an administrator takes it away, a live
\* elevation has a grant.
ApprovedHasGrant ==
    ~Blanket => \A r \in Requests : Lives(r) => grant # None
=============================================================================
