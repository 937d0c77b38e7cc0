--------------------------- MODULE ElevationProofs ---------------------------
(* That the one grant row and the many requests agree, for any number of
   requests, calls and replicas.  GrantBacked is not inductive alone: the call
   that approves acts on a requester it judged earlier, and the sweep on rows it
   found earlier, so the invariant says what both still hold: nobody who may not
   decide is deciding, and what was found live and run out can only have ended.
   TrailAgrees needs that nobody else is about to record what is being committed. *)
EXTENDS Elevation, TLAPS

USE DEF rowVars, trailVars

\* An approval in progress was judged to come from somebody who may give it.
LoadedRight ==
    \A c \in Calls : Deciding(c, "approve") => call[c].actor \in Admins \ {Requester}

\* What a sweep is about to expire has been approved.
FoundWereOpened ==
    \A p \in Replicas : sweep[p].at = "closing" =>
        \A r \in sweep[p].left : status[r] \in {"active", "revoked", "expired"}

\* Who is about to commit has recorded what it committed before.
OwesAtRest ==
    /\ \A c \in Calls : call[c].at # "idle" => owes[c] = {}
    /\ \A p \in Replicas : sweep[p].at = "closing" => owes[p] = {}

\* What happens once is owed by one, and not recorded yet.
OwedOnce ==
    \A r \in Requests, v \in Verbs \ {"expire"} :
        /\ Owed(r, v) => trail[r][v] = 0
        /\ \A x, y \in Actors : <<r, v>> \in owes[x] /\ <<r, v>> \in owes[y] => x = y

(* The inductive invariant. *)
ElevationInv ==
    /\ ElevationTypeOK
    /\ GrantBacked
    /\ TrailAgrees
    /\ OwedOnce
    /\ OwesAtRest
    /\ LoadedRight
    /\ FoundWereOpened

-----------------------------------------------------------------------------
\* The invariant holds at first.
LEMMA ElevationInitInv == ElevationInit => ElevationInv
<1> SUFFICES ASSUME ElevationInit
             PROVE  ElevationInv
  OBVIOUS
<1> USE DEF ElevationInit
<1>1. ElevationTypeOK
  BY TimeNat DEF ElevationTypeOK, CallsAt, NoCall, Resting, Verbs, Live, Over
<1>2. GrantBacked /\ TrailAgrees /\ OwedOnce /\ OwesAtRest
  <2>1. \A r \in Requests : Heard(r) = {}
    BY DEF Heard, Owed, Actors
  <2>2. TrailAgrees
    BY <2>1 DEF TrailAgrees, Stories
  <2>3. OwedOnce /\ OwesAtRest
    BY DEF OwedOnce, OwesAtRest, Owed, Actors, NoCall, Resting
  <2> QED
    BY <2>2, <2>3 DEF GrantBacked
<1>3. LoadedRight /\ FoundWereOpened
  BY DEF LoadedRight, FoundWereOpened, Deciding, NoCall, Resting
<1>4. QED
  BY <1>1, <1>2, <1>3 DEF ElevationInv

\* What Finish does to the shared variables, whoever runs it.
LEMMA FinishType ==
    ASSUME ElevationTypeOK, NEW x \in Actors, NEW r \in Requests, NEW from, NEW to \in Over,
           NEW verb \in Verbs, Finish(x, r, from, to, verb)
    PROVE  /\ status' \in [Requests -> {"none", "pending"} \cup Live \cup Over]
           /\ UNCHANGED <<trail, lost>>
           /\ owes' \in [Actors -> SUBSET (Requests \X Verbs)]
           /\ grant' \in {None} \cup [asked : Requests, until : 0..MaxTime]
BY DEF ElevationTypeOK, Finish, Owe

\* What each step of an API call does to every variable's type.
LEMMA HandlerType ==
    ASSUME ElevationTypeOK, NEW c \in Calls, Handler(c)
    PROVE  ElevationTypeOK'
<1> USE DEF ElevationTypeOK
<1>1. CASE AskPending(c) \/ AskLive(c) \/ CallRefused(c)
  <2>1. /\ NoCall \in CallsAt
        /\ AskPending(c) => [call[c] EXCEPT !.at = "asking"] \in CallsAt
        /\ AskLive(c) => [call[c] EXCEPT !.at = "filing"] \in CallsAt
    <3>1. call[c] \in CallsAt
      OBVIOUS
    <3>2. NoCall \in CallsAt
      BY DEF CallsAt, NoCall
    <3>3. ASSUME AskPending(c) PROVE [call[c] EXCEPT !.at = "asking"] \in CallsAt
      <4>1. call[c] = NoCall
        BY <3>1, <3>3 DEF AskPending, CallsAt
      <4>2. [call[c] EXCEPT !.at = "asking"] =
                [at |-> "asking", verb |-> "none", about |-> None, actor |-> None]
        BY <4>1 DEF NoCall
      <4> QED
        BY <4>2 DEF CallsAt
    <3>4. AskLive(c) => [call[c] EXCEPT !.at = "filing"] \in CallsAt
      BY <3>1 DEF AskLive, CallsAt, NoCall
    <3>5. QED
      BY <3>2, <3>3, <3>4
  <2>2. call' \in [Calls -> CallsAt]
    BY <1>1, <2>1 DEF AskPending, AskLive, CallRefused
  <2>3. QED
    BY <1>1, <2>2 DEF AskPending, AskLive, CallRefused
<1>2. ASSUME NEW r \in Requests, File(c, r)
      PROVE  ElevationTypeOK'
  BY <1>2 DEF File, CallsAt, NoCall
<1>3. ASSUME NEW verb \in Verbs, NEW r \in Requests, NEW u \in Users, Load(c, verb, r, u)
      PROVE  ElevationTypeOK'
  BY <1>3 DEF Load, CallsAt
<1>4. CASE Activate(c)
  <2> DEFINE r == call[c].about
  <2>1. r \in Requests /\ call[c].actor \in Users \cup {None}
    BY <1>4 DEF Activate, Deciding, CallsAt, NoCall
  <2>2. now + Lasts[r] \in 0..MaxTime
    <3>1. Lasts[r] \in Nat
      BY <2>1, DurationsNat
    <3>2. now \in Nat
      BY TimeNat
    <3>3. now + Lasts[r] <= MaxTime
      BY <1>4 DEF Activate
    <3>4. QED
      BY <3>1, <3>2, <3>3, TimeNat
  <2>3. /\ owes' \in [Actors -> SUBSET (Requests \X Verbs)]
        /\ UNCHANGED <<trail, lost>>
    <3> HIDE DEF r
    <3>1. PICK T \in SUBSET (Requests \X Verbs) : T = {<<r, "approve">>}
      <4>1. r \in Requests /\ "approve" \in Verbs
        BY <2>1 DEF Verbs
      <4>2. {<<r, "approve">>} \in SUBSET (Requests \X Verbs)
        BY <4>1
      <4> QED
        BY <4>2, Zenon
    <3> USE DEF r
    <3>2. c \in Actors /\ owes' = [owes EXCEPT ![c] = T] /\ UNCHANGED <<trail, lost>>
      BY <1>4, <3>1 DEF Activate, Owe, Actors
    <3>3. QED
      BY <3>1, <3>2
  <2>4. grant' \in [asked : Requests, until : 0..MaxTime]
    BY <1>4, <2>1, <2>2 DEF Activate
  <2>5. call' \in [Calls -> CallsAt]
    BY <1>4 DEF Activate, CallsAt
  <2>6. QED
    BY <1>4, <2>1, <2>2, <2>3, <2>4, <2>5 DEF Activate, Live
<1>5. CASE Reject(c)
  <2>1. call[c].about \in Requests
    BY <1>5 DEF Reject, Deciding, CallsAt, NoCall
  <2>2. QED
    BY <1>5, <2>1, FinishType DEF Reject, Finish, Actors, Over, Verbs, CallsAt, NoCall
<1>6. CASE Revoke(c)
  <2>1. call[c].about \in Requests
    BY <1>6 DEF Revoke, Deciding, CallsAt, NoCall
  <2>2. QED
    BY <1>6, <2>1, FinishType DEF Revoke, Finish, Actors, Over, Verbs, CallsAt, NoCall
<1>7. QED
  BY <1>1, <1>2, <1>3, <1>4, <1>5, <1>6 DEF Handler

\* What each step of a replica's sweep does to them.
LEMMA SweeperType ==
    ASSUME ElevationTypeOK, NEW p \in Replicas, Sweeper(p)
    PROVE  ElevationTypeOK'
<1> USE DEF ElevationTypeOK
<1>1. CASE FindExpired(p)
  BY <1>1 DEF FindExpired
<1>2. CASE FindOrphans(p) \/ SweepFails(p)
  BY <1>2 DEF FindOrphans, SweepFails, Resting
<1>3. CASE CloseExpired(p)
  <2>1. {<<r, "expire">> : r \in sweep[p].left} \in SUBSET (Requests \X Verbs)
    BY DEF Verbs
  <2>2. owes' \in [Actors -> SUBSET (Requests \X Verbs)] /\ UNCHANGED <<trail, lost>>
    BY <1>3, <2>1 DEF CloseExpired, Owe
  <2>3. QED
    BY <1>3, <2>2 DEF CloseExpired, Over
<1>4. ASSUME NEW r \in Requests, Past(p, r)
      PROVE  /\ UNCHANGED call
             /\ sweep' \in [Replicas -> [at : {"idle", "closing", "looking", "reconciling"},
                                         left : SUBSET Requests]]
  BY <1>4 DEF Past, Resting
<1>5. ASSUME NEW r \in Requests, Reconcile(p, r)
      PROVE  ElevationTypeOK'
  <2>1. /\ status' \in [Requests -> {"none", "pending"} \cup Live \cup Over]
        /\ UNCHANGED <<trail, lost>>
        /\ owes' \in [Actors -> SUBSET (Requests \X Verbs)]
        /\ grant' \in {None} \cup [asked : Requests, until : 0..MaxTime]
    BY <1>5, FinishType DEF Reconcile, Actors, Over, Verbs
  <2>2. UNCHANGED <<now, expires, approver>>
    BY <1>5 DEF Reconcile, Finish
  <2>3. QED
    BY <1>4, <1>5, <2>1, <2>2 DEF Reconcile
<1>6. ASSUME NEW r \in Requests, ReconcileSkips(p, r)
      PROVE  ElevationTypeOK'
  BY <1>4, <1>6 DEF ReconcileSkips
<1>7. QED
  BY <1>1, <1>2, <1>3, <1>5, <1>6 DEF Sweeper

\* What a record's being written or lost does to them.
LEMMA TellType ==
    ASSUME ElevationTypeOK, NEW x \in Actors, NEW r \in Requests, NEW verb \in Verbs,
           Tell(x, r, verb)
    PROVE  ElevationTypeOK'
<1>1. UNCHANGED <<now, status, expires, approver, grant, call, sweep>>
  BY DEF Tell
<1>2. owes' \in [Actors -> SUBSET (Requests \X Verbs)]
  BY DEF Tell, ElevationTypeOK
<1>3. trail' \in [Requests -> [Verbs -> Nat]] /\ lost' \subseteq Requests \X Verbs
  <2>1. CASE trail' = [trail EXCEPT ![r][verb] = @ + 1] /\ UNCHANGED lost
    <3>1. [trail[r] EXCEPT ![verb] = @ + 1] \in [Verbs -> Nat]
      BY DEF ElevationTypeOK
    <3> QED
      BY <2>1, <3>1 DEF ElevationTypeOK
  <2>2. CASE lost' = lost \cup {<<r, verb>>} /\ UNCHANGED trail
    BY <2>2 DEF ElevationTypeOK
  <2> QED
    BY <2>1, <2>2 DEF Tell
<1> QED
  BY <1>1, <1>2, <1>3 DEF ElevationTypeOK

\* Every step keeps the types.
LEMMA TypeStep ==
    ASSUME ElevationTypeOK, [ElevationNext]_elevationVars
    PROVE  ElevationTypeOK'
<1>1. CASE BlanketRevoke
  BY <1>1 DEF ElevationTypeOK, BlanketRevoke
<1>2. ASSUME NEW r \in Requests, Prune(r)
      PROVE  ElevationTypeOK'
  BY <1>2 DEF ElevationTypeOK, Prune, Over
<1>3. CASE Tick
  BY <1>3, TimeNat DEF ElevationTypeOK, Tick
<1>4. CASE UNCHANGED elevationVars
  BY <1>4 DEF ElevationTypeOK, elevationVars
<1>5. QED
  BY <1>1, <1>2, <1>3, <1>4, HandlerType, SweeperType, TellType DEF ElevationNext

-----------------------------------------------------------------------------
(* The other conjuncts, action by action. *)

\* Ending a request that was live takes the grant, so none is left unbacked; and
\* one that was not live backs none.
LEMMA FinishBacked ==
    ASSUME ElevationTypeOK, GrantBacked, NEW r \in Requests, NEW from, NEW to \in Over,
           NEW verb \in Verbs, NEW x, Finish(x, r, from, to, verb)
    PROVE  GrantBacked'
<1>1. CASE status[r] \in Live
  BY <1>1 DEF Finish, GrantBacked
<1>2. CASE status[r] \notin Live
  <2>1. ASSUME grant # None
        PROVE  grant.asked \in Requests /\ status'[grant.asked] = status[grant.asked]
    BY <1>2, <2>1 DEF ElevationTypeOK, GrantBacked, Finish
  <2>2. QED
    BY <1>2, <2>1 DEF Finish, GrantBacked
<1>3. QED
  BY <1>1, <1>2

\* Every step keeps the grant backed.
LEMMA BackedStep ==
    ASSUME ElevationInv, [ElevationNext]_elevationVars
    PROVE  GrantBacked'
<1> USE DEF ElevationInv
<1>1. CASE UNCHANGED <<status, expires, approver, grant>>
  BY <1>1 DEF GrantBacked
<1>2. ASSUME NEW c \in Calls, NEW r \in Requests, File(c, r)
      PROVE  GrantBacked'
  <2>1. grant # None => grant.asked # r
    BY <1>2 DEF File, GrantBacked, Live
  <2>2. grant # None => grant.asked \in Requests
    BY DEF ElevationTypeOK
  <2>3. QED
    BY <1>2, <2>1, <2>2 DEF File, GrantBacked, ElevationTypeOK
<1>3. ASSUME NEW c \in Calls, Activate(c)
      PROVE  GrantBacked'
  <2> DEFINE r == call[c].about
  <2>1. r \in Requests
    BY <1>3 DEF ElevationTypeOK, Activate, Deciding, CallsAt, NoCall
  <2>2. call[c].actor \in Admins \ {Requester}
    BY <1>3 DEF LoadedRight, Activate
  <2>3. grant'.asked = r /\ grant'.until = expires'[r] /\ status'[r] = "active"
        /\ approver'[r] = call[c].actor
    BY <1>3, <2>1 DEF Activate, ElevationTypeOK
  <2>4. QED
    BY <2>2, <2>3 DEF GrantBacked, Live
<1>4. ASSUME NEW c \in Calls, Reject(c) \/ Revoke(c)
      PROVE  GrantBacked'
  <2>1. call[c].about \in Requests
    BY <1>4 DEF ElevationTypeOK, Reject, Revoke, Deciding, CallsAt, NoCall
  <2>2. QED
    BY <1>4, <2>1, FinishBacked DEF Reject, Revoke, Over, Verbs
<1>5. ASSUME NEW p \in Replicas, CloseExpired(p)
      PROVE  GrantBacked'
  BY <1>5 DEF CloseExpired, GrantBacked
<1>6. ASSUME NEW p \in Replicas, NEW r \in Requests, Reconcile(p, r)
      PROVE  GrantBacked'
  BY <1>6, FinishBacked DEF Reconcile, Over, Verbs
<1>7. CASE BlanketRevoke
  BY <1>7 DEF BlanketRevoke, GrantBacked
<1>8. ASSUME NEW r \in Requests, Prune(r)
      PROVE  GrantBacked'
  <2>1. grant # None => grant.asked \in Requests /\ grant.asked # r
    BY <1>8 DEF Prune, GrantBacked, Live, ElevationTypeOK
  <2>2. QED
    BY <1>8, <2>1 DEF Prune, GrantBacked, ElevationTypeOK
<1>9. QED
  BY <1>1, <1>2, <1>3, <1>4, <1>5, <1>6, <1>7, <1>8
  DEF ElevationNext, Handler, Sweeper, elevationVars, AskPending, AskLive, CallRefused,
      Load, FindExpired, FindOrphans, ReconcileSkips, SweepFails, Tell, Tick

\* A call judges once, and what it judged does not change under it.
LEMMA LoadedStep ==
    ASSUME ElevationInv, [ElevationNext]_elevationVars
    PROVE  LoadedRight'
<1> USE DEF ElevationInv, LoadedRight, Deciding
<1>1. CASE UNCHANGED call
  BY <1>1
<1>2. ASSUME NEW c \in Calls, call' = [call EXCEPT ![c] = NoCall]
      PROVE  LoadedRight'
  BY <1>2 DEF NoCall, ElevationTypeOK
<1>3. ASSUME NEW c \in Calls, AskPending(c) \/ AskLive(c)
      PROVE  LoadedRight'
  <2>1. call'[c].at # "deciding" /\ \A d \in Calls \ {c} : call'[d] = call[d]
    BY <1>3 DEF AskPending, AskLive, ElevationTypeOK, CallsAt, NoCall
  <2>2. QED
    BY <2>1
<1>4. ASSUME NEW c \in Calls, NEW verb \in Verbs, NEW r \in Requests, NEW u \in Users,
             Load(c, verb, r, u)
      PROVE  LoadedRight'
  <2>1. \A d \in Calls \ {c} : call'[d] = call[d]
    BY <1>4 DEF Load, ElevationTypeOK
  <2>2. verb = "approve" => u \in Admins \ {Requester}
    BY <1>4 DEF Load, MayDecide
  <2>3. call'[c].verb = verb /\ (verb = "approve" => call'[c].actor = u)
    BY <1>4 DEF Load, ElevationTypeOK
  <2>4. QED
    BY <2>1, <2>2, <2>3
<1>5. QED
  BY <1>1, <1>2, <1>3, <1>4
  DEF ElevationNext, Handler, Sweeper, elevationVars, File, CallRefused, Activate, Reject,
      Revoke, FindExpired, CloseExpired, FindOrphans, Reconcile, ReconcileSkips, Past,
      SweepFails, Finish, Tell, BlanketRevoke, Prune, Tick

-----------------------------------------------------------------------------
(* The trail. *)

\* Whoever is at rest commits to records nobody has heard of but by another's expiry:
\* they are heard of from now on, and nobody else is about to record them.
LEMMA OweHears ==
    ASSUME ElevationTypeOK, TrailAgrees, OwedOnce, NEW x \in Actors, owes[x] = {},
           NEW S \in SUBSET (Requests \X Verbs), Owe(x, S),
           \A r \in Requests, v \in Verbs \ {"expire"} : <<r, v>> \in S => v \notin Heard(r)
    PROVE  /\ \A r \in Requests : Heard(r)' = Heard(r) \cup {v \in Verbs : <<r, v>> \in S}
           /\ OwedOnce'
           /\ UNCHANGED trail
<1>1. /\ UNCHANGED <<trail, lost>> /\ owes'[x] = S
      /\ \A y \in Actors \ {x} : owes'[y] = owes[y]
  BY DEF Owe, ElevationTypeOK
<1>2. ASSUME NEW r \in Requests, NEW v \in Verbs
      PROVE  Owed(r, v)' <=> Owed(r, v) \/ <<r, v>> \in S
  BY <1>1 DEF Owed
<1>3. \A r \in Requests : Heard(r)' = Heard(r) \cup {v \in Verbs : <<r, v>> \in S}
  BY <1>1, <1>2 DEF Heard
<1>4. ASSUME NEW r \in Requests, NEW v \in Verbs \ {"expire"}
      PROVE  /\ Owed(r, v)' => trail'[r][v] = 0
             /\ \A y, z \in Actors : <<r, v>> \in owes'[y] /\ <<r, v>> \in owes'[z] => y = z
  <2>1. CASE <<r, v>> \in S
    <3>1. ~Owed(r, v) /\ ~(trail[r][v] > 0) /\ trail[r][v] \in Nat
      BY <2>1 DEF Heard, ElevationTypeOK
    <3>2. \A y \in Actors : <<r, v>> \notin owes[y]
      BY <3>1 DEF Owed
    <3> QED
      BY <1>1, <3>1, <3>2
  <2>2. CASE <<r, v>> \notin S
    BY <1>1, <1>2, <2>2 DEF OwedOnce
  <2> QED
    BY <2>1, <2>2
<1> QED
  BY <1>1, <1>3, <1>4 DEF OwedOnce

\* A transaction that moves one request, from where nothing of the kind was heard.
LEMMA CommitTrail ==
    ASSUME ElevationTypeOK, TrailAgrees, OwedOnce, NEW x \in Actors, owes[x] = {},
           NEW r \in Requests, NEW verb \in Verbs, Owe(x, {<<r, verb>>}),
           NEW to, status' = [status EXCEPT ![r] = to],
           \/ status[r] = "pending" /\ verb = "approve" /\ to = "active"
           \/ status[r] = "pending" /\ verb = "reject" /\ to = "rejected"
           \/ status[r] = "active" /\ verb = "revoke" /\ to = "revoked"
    PROVE  TrailAgrees' /\ OwedOnce'
<1>1. Heard(r) \in Stories(status[r]) /\ verb # "expire"
  BY DEF TrailAgrees
<1>2. verb \notin Heard(r) /\ Heard(r) \cup {verb} \in Stories(to)
  BY <1>1 DEF Stories
<1>3. {<<r, verb>>} \in SUBSET (Requests \X Verbs)
  OBVIOUS
<1>4. \A q \in Requests, v \in Verbs \ {"expire"} : <<q, v>> \in {<<r, verb>>} => v \notin Heard(q)
  BY <1>2
<1>5. /\ \A q \in Requests : Heard(q)' = Heard(q) \cup {v \in Verbs : <<q, v>> \in {<<r, verb>>}}
      /\ OwedOnce' /\ UNCHANGED trail
  BY <1>3, <1>4, OweHears
<1>6. Heard(r)' = Heard(r) \cup {verb} /\ status'[r] = to
  BY <1>5 DEF ElevationTypeOK
<1>7. \A q \in Requests \ {r} : Heard(q)' = Heard(q) /\ status'[q] = status[q]
  BY <1>5 DEF ElevationTypeOK
<1>8. \A q \in Requests : Heard(q)' \in Stories(status'[q])
  BY <1>2, <1>6, <1>7 DEF TrailAgrees
<1> QED
  BY <1>5, <1>8 DEF TrailAgrees, Stories

\* Recording what was owed tells nothing new, and tells it once.
LEMMA TellTrail ==
    ASSUME ElevationTypeOK, TrailAgrees, OwedOnce, NEW x \in Actors, NEW r \in Requests,
           NEW verb \in Verbs, Tell(x, r, verb)
    PROVE  TrailAgrees' /\ OwedOnce'
<1>1. /\ <<r, verb>> \in owes[x] /\ owes'[x] = owes[x] \ {<<r, verb>>}
      /\ \A y \in Actors \ {x} : owes'[y] = owes[y]
      /\ UNCHANGED status
  BY DEF Tell, ElevationTypeOK
<1>2. \/ /\ trail'[r][verb] = trail[r][verb] + 1 /\ lost' = lost
      \/ /\ trail'[r][verb] = trail[r][verb] /\ lost' = lost \cup {<<r, verb>>}
  BY DEF Tell, ElevationTypeOK
<1>3. \A q \in Requests, v \in Verbs : q # r \/ v # verb => trail'[q][v] = trail[q][v]
  BY DEF Tell, ElevationTypeOK
<1>4. trail[r][verb] \in Nat
  BY DEF ElevationTypeOK
<1>5. \A q \in Requests, v \in Verbs : Owed(q, v)' => Owed(q, v)
  BY <1>1 DEF Owed
<1>6. \A q \in Requests, v \in Verbs : (q # r \/ v # verb) /\ Owed(q, v) => Owed(q, v)'
  BY <1>1 DEF Owed
<1>7. \A q \in Requests, v \in Verbs : v \in Heard(q)' <=> v \in Heard(q)
  <2> SUFFICES ASSUME NEW q \in Requests, NEW v \in Verbs PROVE v \in Heard(q)' <=> v \in Heard(q)
    OBVIOUS
  <2>1. CASE q = r /\ v = verb
    <3>1. Owed(r, verb)
      BY <1>1 DEF Owed
    <3>2. trail'[r][verb] > 0 \/ <<r, verb>> \in lost'
      BY <1>2, <1>4
    <3> QED
      BY <2>1, <3>1, <3>2 DEF Heard
  <2>2. CASE q # r \/ v # verb
    <3>1. <<q, v>> \in lost' <=> <<q, v>> \in lost
      BY <1>2, <2>2
    <3> QED
      BY <1>3, <1>5, <1>6, <2>2, <3>1 DEF Heard
  <2> QED
    BY <2>1, <2>2
<1>8. \A q \in Requests : Heard(q)' = Heard(q)
  <2> SUFFICES ASSUME NEW q \in Requests PROVE Heard(q)' = Heard(q)
    OBVIOUS
  <2>1. Heard(q)' \subseteq Verbs /\ Heard(q) \subseteq Verbs
    BY DEF Heard
  <2> QED
    BY <1>7, <2>1
<1>9. ASSUME NEW q \in Requests, NEW v \in Verbs \ {"expire"}
      PROVE  /\ Owed(q, v)' => trail'[q][v] = 0
             /\ \A y, z \in Actors : <<q, v>> \in owes'[y] /\ <<q, v>> \in owes'[z] => y = z
             /\ trail'[q][v] <= 1
  <2>1. CASE q = r /\ v = verb
    <3>1. trail[r][verb] = 0 /\ \A y \in Actors : <<r, verb>> \in owes[y] => y = x
      BY <1>1, <2>1 DEF OwedOnce, Owed
    <3>2. \A y \in Actors : <<r, verb>> \notin owes'[y]
      BY <1>1, <3>1
    <3> QED
      BY <1>2, <2>1, <3>1, <3>2 DEF Owed
  <2>2. CASE q # r \/ v # verb
    <3>1. \A y \in Actors : <<q, v>> \in owes'[y] => <<q, v>> \in owes[y]
      BY <1>1
    <3> QED
      BY <1>3, <1>5, <2>2, <3>1 DEF OwedOnce, TrailAgrees
  <2> QED
    BY <2>1, <2>2
<1>10. TrailAgrees'
  <2>1. \A q \in Requests : Heard(q)' \in Stories(status'[q])
    BY <1>1, <1>8 DEF TrailAgrees
  <2> QED
    BY <1>9, <2>1 DEF TrailAgrees
<1>11. OwedOnce'
  BY <1>9 DEF OwedOnce
<1> QED
  BY <1>10, <1>11

\* Nothing moves that the trail is about.
LEMMA TrailStays ==
    ASSUME TrailAgrees, OwedOnce, UNCHANGED trailVars,
           \A r \in Requests : status'[r] = status[r] \/ Stories(status'[r]) = Stories(status[r])
    PROVE  TrailAgrees' /\ OwedOnce'
BY DEF TrailAgrees, OwedOnce, Owed, Heard

\* Every step keeps the trail true.
LEMMA TrailStep ==
    ASSUME ElevationInv, [ElevationNext]_elevationVars
    PROVE  TrailAgrees' /\ OwedOnce'
<1> USE DEF ElevationInv
<1>1. CASE UNCHANGED <<status, trailVars>>
  BY <1>1, TrailStays
<1>2. ASSUME NEW r \in Requests, (\E c \in Calls : File(c, r)) \/ Prune(r)
      PROVE  TrailAgrees' /\ OwedOnce'
  <2>1. /\ UNCHANGED trailVars
        /\ \A q \in Requests \ {r} : status'[q] = status[q]
        /\ \/ status[r] = "none" /\ status'[r] = "pending"
           \/ status[r] = "pending" /\ status'[r] = "pruned"
    BY <1>2 DEF File, Prune, ElevationTypeOK
  <2>2. Stories(status'[r]) = Stories(status[r])
    BY <2>1 DEF Stories
  <2> QED
    BY <2>1, <2>2, TrailStays
<1>3. ASSUME NEW c \in Calls, Activate(c)
      PROVE  TrailAgrees' /\ OwedOnce'
  <2>1. PICK r \in Requests : r = call[c].about
    BY <1>3 DEF ElevationTypeOK, Activate, Deciding, CallsAt, NoCall
  <2>2. /\ c \in Actors /\ owes[c] = {} /\ "approve" \in Verbs
        /\ status[r] = "pending" /\ status' = [status EXCEPT ![r] = "active"]
        /\ Owe(c, {<<r, "approve">>})
    BY <1>3, <2>1 DEF Activate, Deciding, OwesAtRest, Actors, Verbs
  <2> QED
    BY <2>2, CommitTrail
<1>4. ASSUME NEW x \in Actors, NEW r \in Requests, owes[x] = {},
             \/ Finish(x, r, {"pending"}, "rejected", "reject")
             \/ Finish(x, r, Live, "revoked", "revoke")
      PROVE  TrailAgrees' /\ OwedOnce'
  <2>1. CASE Finish(x, r, {"pending"}, "rejected", "reject")
    <3>1. /\ status[r] = "pending" /\ status' = [status EXCEPT ![r] = "rejected"]
          /\ Owe(x, {<<r, "reject">>}) /\ "reject" \in Verbs
      BY <2>1 DEF Finish, Verbs
    <3> QED
      BY <1>4, <3>1, CommitTrail
  <2>2. CASE Finish(x, r, Live, "revoked", "revoke")
    <3>1. /\ status[r] = "active" /\ status' = [status EXCEPT ![r] = "revoked"]
          /\ Owe(x, {<<r, "revoke">>}) /\ "revoke" \in Verbs
      BY <2>2 DEF Finish, Live, Verbs
    <3> QED
      BY <1>4, <3>1, CommitTrail
  <2> QED
    BY <1>4, <2>1, <2>2
<1>5. ASSUME NEW c \in Calls, Reject(c) \/ Revoke(c)
      PROVE  TrailAgrees' /\ OwedOnce'
  <2>1. PICK r \in Requests : r = call[c].about
    BY <1>5 DEF ElevationTypeOK, Reject, Revoke, Deciding, CallsAt, NoCall
  <2>2. c \in Actors /\ owes[c] = {}
    BY <1>5 DEF Reject, Revoke, Deciding, OwesAtRest, Actors
  <2> QED
    BY <1>4, <1>5, <2>1, <2>2 DEF Reject, Revoke
<1>6. ASSUME NEW p \in Replicas, NEW r \in Requests, Reconcile(p, r)
      PROVE  TrailAgrees' /\ OwedOnce'
  BY <1>4, <1>6 DEF Reconcile, Past, Actors
<1>7. ASSUME NEW p \in Replicas, CloseExpired(p)
      PROVE  TrailAgrees' /\ OwedOnce'
  <2> DEFINE found == sweep[p].left
             S == {<<r, "expire">> : r \in found}
  <2>1. /\ \A r \in found : r \in Requests /\ status[r] \in {"active", "revoked", "expired"}
        /\ p \in Actors /\ owes[p] = {} /\ Owe(p, S) /\ S \in SUBSET (Requests \X Verbs)
    BY <1>7 DEF CloseExpired, FoundWereOpened, ElevationTypeOK, OwesAtRest, Actors, Verbs
  <2>2. \A r \in Requests, v \in Verbs : <<r, v>> \in S <=> r \in found /\ v = "expire"
    OBVIOUS
  <2>3. PICK T \in SUBSET (Requests \X Verbs) : T = S
    BY <2>1
  <2>4. /\ \A r \in Requests : Heard(r)' = Heard(r) \cup {v \in Verbs : <<r, v>> \in T}
        /\ OwedOnce' /\ UNCHANGED trail
    <3>1. \A r \in Requests, v \in Verbs \ {"expire"} : <<r, v>> \notin T
      BY <2>2, <2>3
    <3>2. Owe(p, T) /\ p \in Actors /\ owes[p] = {}
      BY <2>1, <2>3
    <3> QED
      BY <1>4, <3>1, <3>2, OweHears
  <2>5. \A r \in Requests :
          /\ r \in found => Heard(r)' = Heard(r) \cup {"expire"} /\ status'[r] = "expired"
          /\ r \notin found => Heard(r)' = Heard(r) /\ status'[r] = status[r]
    <3>1. "expire" \in Verbs
      BY DEF Verbs
    <3> QED
      BY <1>7, <2>2, <2>3, <2>4, <3>1 DEF CloseExpired
  <2>6. ASSUME NEW r \in Requests
        PROVE  Heard(r)' \in Stories(status'[r])
    <3>1. CASE r \in found
      <4>1. Heard(r) \in Stories(status[r]) /\ status[r] \in {"active", "revoked", "expired"}
        BY <2>1, <3>1 DEF TrailAgrees
      <4>2. Heard(r) \cup {"expire"} \in Stories("expired")
        BY <4>1 DEF Stories
      <4> QED
        BY <2>5, <3>1, <4>2
    <3>2. CASE r \notin found
      BY <2>5, <3>2 DEF TrailAgrees
    <3> QED
      BY <3>1, <3>2
  <2> QED
    BY <2>4, <2>6 DEF TrailAgrees, Stories
<1>8. ASSUME NEW x \in Actors, NEW r \in Requests, NEW verb \in Verbs, Tell(x, r, verb)
      PROVE  TrailAgrees' /\ OwedOnce'
  BY <1>8, TellTrail
<1>9. QED
  BY <1>1, <1>2, <1>3, <1>5, <1>6, <1>7, <1>8
  DEF ElevationNext, Handler, Sweeper, elevationVars, AskPending, AskLive, CallRefused,
      Load, FindExpired, FindOrphans, ReconcileSkips, SweepFails, BlanketRevoke, Tick

\* Who is about to commit has nothing left to record.
LEMMA RestStep ==
    ASSUME ElevationInv, [ElevationNext]_elevationVars
    PROVE  OwesAtRest'
<1> USE ActorsApart DEF ElevationInv, ElevationTypeOK, OwesAtRest, Actors
<1>1. ASSUME NEW c \in Calls, UNCHANGED <<owes, sweep>>, owes[c] = {},
             \A d \in Calls \ {c} : call'[d] = call[d]
      PROVE  OwesAtRest'
  BY <1>1
<1>2. ASSUME NEW c \in Calls, Handler(c)
      PROVE  \A d \in Calls \ {c} : call'[d] = call[d]
  BY <1>2 DEF Handler, AskPending, AskLive, File, CallRefused, Load, Activate, Reject, Revoke
<1>3. ASSUME NEW c \in Calls, AskPending(c) \/ AskLive(c) \/ (\E r \in Requests : File(c, r))
             \/ CallRefused(c) \/ \E verb \in Verbs, r \in Requests, u \in Users : Load(c, verb, r, u)
      PROVE  OwesAtRest'
  <2>1. UNCHANGED <<owes, sweep>> /\ owes[c] = {}
    BY <1>3 DEF AskPending, AskLive, File, CallRefused, Load
  <2> QED
    BY <1>1, <1>2, <1>3, <2>1 DEF Handler
<1>4. ASSUME NEW c \in Calls, Activate(c) \/ Reject(c) \/ Revoke(c)
      PROVE  OwesAtRest'
  <2>1. /\ call'[c].at = "idle" /\ UNCHANGED sweep
        /\ \A y \in Actors \ {c} : owes'[y] = owes[y]
    BY <1>4 DEF Activate, Reject, Revoke, Finish, Owe, NoCall
  <2> QED
    BY <1>2, <1>4, <2>1 DEF Handler
<1>5. ASSUME NEW p \in Replicas, Sweeper(p)
      PROVE  OwesAtRest'
  <2>1. /\ UNCHANGED call
        /\ \A q \in Replicas \ {p} : sweep'[q] = sweep[q]
        /\ \A y \in Actors \ {p} : owes'[y] = owes[y]
        /\ sweep'[p].at = "closing" => owes'[p] = {}
    <3>1. CASE FindExpired(p)
      BY <3>1 DEF FindExpired
    <3>2. CASE CloseExpired(p)
      BY <3>2 DEF CloseExpired, Owe
    <3>3. CASE FindOrphans(p) \/ SweepFails(p)
      BY <3>3 DEF FindOrphans, SweepFails, Resting
    <3>4. ASSUME NEW r \in Requests, Reconcile(p, r) \/ ReconcileSkips(p, r)
          PROVE  /\ UNCHANGED call
                 /\ \A q \in Replicas \ {p} : sweep'[q] = sweep[q]
                 /\ \A y \in Actors \ {p} : owes'[y] = owes[y]
                 /\ sweep'[p].at # "closing"
      BY <3>4 DEF Reconcile, ReconcileSkips, Past, Finish, Owe, Resting
    <3> QED
      BY <1>5, <3>1, <3>2, <3>3, <3>4 DEF Sweeper
  <2> QED
    BY <2>1
<1>6. ASSUME NEW x \in Actors, NEW r \in Requests, NEW verb \in Verbs, Tell(x, r, verb)
      PROVE  OwesAtRest'
  <2>1. /\ UNCHANGED <<call, sweep>>
        /\ \A y \in Actors : owes'[y] \subseteq owes[y]
    BY <1>6 DEF Tell
  <2> QED
    BY <2>1
<1>7. CASE UNCHANGED <<owes, call, sweep>>
  BY <1>7
<1> QED
  BY <1>3, <1>4, <1>5, <1>6, <1>7
  DEF ElevationNext, Handler, elevationVars, BlanketRevoke, Prune, Tick

\* A request a sweep found live can be ended by others, and goes nowhere else.
LEMMA EndedStaysEnded ==
    ASSUME ElevationInv, [ElevationNext]_elevationVars, NEW r \in Requests,
           status[r] \in {"active", "revoked", "expired"}
    PROVE  status'[r] \in {"active", "revoked", "expired"}
<1> USE DEF ElevationInv, ElevationTypeOK
<1>1. ASSUME NEW x, NEW q \in Requests, NEW from, NEW to, NEW verb, Finish(x, q, from, to, verb),
             (from = Live /\ to = "revoked") \/ from = {"pending"}
      PROVE  status'[r] \in {"active", "revoked", "expired"}
  BY <1>1 DEF Finish
<1>2. ASSUME NEW c \in Calls, Reject(c) \/ Revoke(c)
      PROVE  status'[r] \in {"active", "revoked", "expired"}
  <2>1. call[c].about \in Requests
    BY <1>2 DEF Reject, Revoke, Deciding, CallsAt, NoCall
  <2>2. QED
    BY <1>1, <1>2, <2>1 DEF Reject, Revoke
<1>3. ASSUME NEW p \in Replicas, NEW q \in Requests, Reconcile(p, q)
      PROVE  status'[r] \in {"active", "revoked", "expired"}
  BY <1>1, <1>3 DEF Reconcile
<1>4. QED
  BY <1>2, <1>3
  DEF ElevationNext, Handler, Sweeper, elevationVars, AskPending, AskLive, CallRefused,
      Load, File, Activate, FindExpired, CloseExpired, FindOrphans, ReconcileSkips,
      SweepFails, Tell, BlanketRevoke, Prune, Tick

\* Every step keeps FoundWereOpened.
LEMMA FoundStep ==
    ASSUME ElevationInv, [ElevationNext]_elevationVars
    PROVE  FoundWereOpened'
<1>1. CASE UNCHANGED sweep
  BY <1>1, EndedStaysEnded DEF FoundWereOpened, ElevationInv, ElevationTypeOK
<1>2. ASSUME NEW p \in Replicas, Sweeper(p)
      PROVE  FoundWereOpened'
  <2>1. \A q \in Replicas \ {p} : sweep'[q] = sweep[q]
    BY <1>2 DEF Sweeper, FindExpired, CloseExpired, FindOrphans, Reconcile,
                ReconcileSkips, Past, SweepFails, ElevationInv, ElevationTypeOK
  <2>2. sweep'[p].at = "closing" =>
          /\ sweep'[p].left \subseteq Requests
          /\ \A r \in sweep'[p].left : status[r] \in Live
    BY <1>2 DEF Sweeper, FindExpired, CloseExpired, FindOrphans, Reconcile,
                ReconcileSkips, Past, SweepFails, Resting, ElevationInv, ElevationTypeOK
  <2>3. \A q \in Replicas : sweep'[q].at = "closing" =>
          \A r \in sweep'[q].left :
             r \in Requests /\ status[r] \in {"active", "revoked", "expired"}
    BY <2>1, <2>2 DEF FoundWereOpened, ElevationInv, ElevationTypeOK, Live
  <2>4. QED
    BY <2>3, EndedStaysEnded DEF FoundWereOpened
<1>3. QED
  BY <1>1, <1>2
  DEF ElevationNext, Handler, elevationVars, AskPending, AskLive, CallRefused, Load, File,
      Activate, Reject, Revoke, Finish, Tell, BlanketRevoke, Prune, Tick

\* So every step keeps the invariant.
LEMMA InvStep == ElevationInv /\ [ElevationNext]_elevationVars => ElevationInv'
BY TypeStep, BackedStep, TrailStep, RestStep, LoadedStep, FoundStep DEF ElevationInv

-----------------------------------------------------------------------------
(* Types, for every number of requests, calls and replicas. *)
THEOREM TypesCorrect == ElevationSpec => []ElevationTypeOK
<1>1. ElevationInv => ElevationTypeOK
  BY DEF ElevationInv
<1>2. QED
  BY ElevationInitInv, InvStep, <1>1, PTL DEF ElevationSpec

(* However decisions, sweeps and a blanket revocation interleave, the elevated
   grant is backed by a request that is live and was approved for that window
   by an administrator other than its requester.                             *)
THEOREM GrantIsBacked == ElevationSpec => []GrantBacked
<1>1. ElevationInv => GrantBacked
  BY DEF ElevationInv
<1>2. QED
  BY ElevationInitInv, InvStep, <1>1, PTL DEF ElevationSpec

(* What is recorded of a request, about to be, or lost on the way is what became of
   it, and a decision is recorded once.                                      *)
THEOREM TrailIsTrue == ElevationSpec => []TrailAgrees
<1>1. ElevationInv => TrailAgrees
  BY DEF ElevationInv
<1>2. QED
  BY ElevationInitInv, InvStep, <1>1, PTL DEF ElevationSpec

-----------------------------------------------------------------------------
(* The refinement: every step is one of the contract's, or changes nothing it
   sees.                                                                     *)

\* The refinement mapping of Contract, by name.
PhaseBar == [r \in Requests |->
                CASE status[r] = "none" -> "none"
                  [] status[r] = "pending" -> "waiting"
                  [] status[r] \in Live -> "open"
                  [] OTHER -> "over"]
PrivilegeBar == IF InForce THEN grant.asked ELSE None

\* The initial states map to the contract's.
LEMMA InitRefines == ElevationInit => Contract!ElevationContractInit
BY DEF ElevationInit, Contract!ElevationContractInit, InForce, Live

\* One request goes from live to over, and the grant with it.
LEMMA EndRefines ==
    ASSUME ElevationTypeOK, NEW r \in Requests, status[r] \in Live, NEW to \in Over,
           status' = [status EXCEPT ![r] = to], grant' = None
    PROVE  Contract!Close({r})
<1>1. PhaseBar[r] = "open"
  BY DEF PhaseBar, Live
<1>2. PhaseBar' = [q \in Requests |-> IF q \in {r} THEN "over" ELSE PhaseBar[q]]
  BY DEF PhaseBar, ElevationTypeOK, Over, Live
<1>3. PrivilegeBar' = None
  BY DEF PrivilegeBar, InForce
<1>4. QED
  BY <1>1, <1>2, <1>3 DEF Contract!Close, PhaseBar, PrivilegeBar

\* One request goes from waiting to over, and no grant changes.
LEMMA RefuseRefines ==
    ASSUME ElevationTypeOK, NEW r \in Requests, status[r] = "pending", NEW to \in Over,
           status' = [status EXCEPT ![r] = to], UNCHANGED <<now, grant>>
    PROVE  Contract!Refuse(r)
<1>1. PhaseBar[r] = "waiting"
  BY DEF PhaseBar, Live
<1>2. PhaseBar' = [PhaseBar EXCEPT ![r] = "over"]
  BY DEF PhaseBar, ElevationTypeOK, Over, Live
<1>3. UNCHANGED PrivilegeBar
  BY DEF PrivilegeBar, InForce
<1>4. QED
  BY <1>1, <1>2, <1>3 DEF Contract!Refuse, PhaseBar, PrivilegeBar

\* The grant goes and no request with it.
LEMMA LossRefines ==
    ASSUME UNCHANGED status, PrivilegeBar' = None
    PROVE  Contract!Close({})
BY DEF Contract!Close, PhaseBar, PrivilegeBar

\* A request that ends is one of the contract's steps.
LEMMA FinishRefines ==
    ASSUME ElevationTypeOK, NEW x, NEW r \in Requests, NEW from, NEW to \in Over, NEW verb,
           Finish(x, r, from, to, verb), from = {"pending"} \/ from = Live
    PROVE  Contract!ElevationContractNext
<1>1. CASE from = {"pending"}
  <2>1. Contract!Refuse(r)
    BY <1>1, RefuseRefines DEF Finish, Live
  <2>2. QED
    BY <2>1 DEF Contract!ElevationContractNext
<1>2. CASE from = Live
  <2>1. Contract!Close({r})
    BY <1>2, EndRefines DEF Finish
  <2>2. {r} \in SUBSET Requests
    OBVIOUS
  <2>3. QED
    BY <2>1, <2>2 DEF Contract!ElevationContractNext
<1>3. QED
  BY <1>1, <1>2

\* The contract's steps, by what they change.
LEMMA OpenIsStep ==
    ASSUME NEW r \in Requests, Contract!Open(r)
    PROVE  Contract!ElevationContractNext
BY DEF Contract!ElevationContractNext

LEMMA CloseIsStep ==
    ASSUME NEW S \in SUBSET Requests, Contract!Close(S)
    PROVE  Contract!ElevationContractNext
BY DEF Contract!ElevationContractNext

\* Every step is one of the contract's, or is not seen.
LEMMA StepRefines ==
    ASSUME ElevationInv, [ElevationNext]_elevationVars
    PROVE  \/ Contract!ElevationContractNext
           \/ UNCHANGED <<PhaseBar, PrivilegeBar>>
<1> USE DEF ElevationInv
<1>1. CASE UNCHANGED <<now, status, grant>>
  BY <1>1 DEF PhaseBar, PrivilegeBar, InForce
<1>2. ASSUME NEW c \in Calls, NEW r \in Requests, File(c, r)
      PROVE  Contract!ElevationContractNext
  <2>1. PhaseBar[r] = "none" /\ PhaseBar' = [PhaseBar EXCEPT ![r] = "waiting"]
    BY <1>2 DEF File, PhaseBar, ElevationTypeOK, Live
  <2>2. UNCHANGED PrivilegeBar
    BY <1>2 DEF File, PrivilegeBar, InForce
  <2>3. QED
    BY <2>1, <2>2 DEF Contract!Submit, Contract!ElevationContractNext, PhaseBar, PrivilegeBar
<1>3. ASSUME NEW c \in Calls, Activate(c)
      PROVE  Contract!ElevationContractNext
  <2>1. PICK r \in Requests : r = call[c].about
    BY <1>3 DEF ElevationTypeOK, Activate, Deciding, CallsAt, NoCall
  <2>2. PhaseBar[r] = "waiting" /\ PhaseBar' = [PhaseBar EXCEPT ![r] = "open"]
    BY <1>3, <2>1 DEF Activate, PhaseBar, ElevationTypeOK, Live
  <2>3. Lasts[r] \in Nat \ {0} /\ now \in Nat
    BY <2>1, DurationsNat, TimeNat DEF ElevationTypeOK
  <2>4. grant'.asked = r /\ grant'.until = now' + Lasts[r] /\ now' = now /\ grant' # None
    <3>1. grant' = [asked |-> r, until |-> now + Lasts[r]] /\ now' = now
      BY <1>3, <2>1 DEF Activate
    <3>2. now + Lasts[r] \in 0..MaxTime
      BY <1>3, <2>1, <2>3, TimeNat DEF Activate
    <3>3. grant' \in [asked : Requests, until : 0..MaxTime]
      BY <3>1, <3>2
    <3>4. QED
      BY <3>1, <3>3, NoneIsApart
  <2>5. PrivilegeBar' = r
    BY <2>3, <2>4 DEF PrivilegeBar, InForce
  <2>6. Contract!Open(r)
    BY <2>2, <2>5 DEF Contract!Open, PhaseBar, PrivilegeBar
  <2>7. QED
    BY <2>6, OpenIsStep
<1>4. ASSUME NEW c \in Calls, Reject(c) \/ Revoke(c)
      PROVE  Contract!ElevationContractNext
  <2>1. call[c].about \in Requests
    BY <1>4 DEF ElevationTypeOK, Reject, Revoke, Deciding, CallsAt, NoCall
  <2>2. \/ Finish(c, call[c].about, {"pending"}, "rejected", "reject")
        \/ Finish(c, call[c].about, Live, "revoked", "revoke")
    BY <1>4 DEF Reject, Revoke
  <2>3. "rejected" \in Over /\ "revoked" \in Over
    BY DEF Over
  <2>4. QED
    BY <2>1, <2>2, <2>3, FinishRefines
<1>5. ASSUME NEW p \in Replicas, CloseExpired(p)
      PROVE  Contract!ElevationContractNext
  <2>0. PICK ended \in SUBSET Requests : ended = {r \in sweep[p].left : status[r] \in Live}
    BY DEF ElevationTypeOK
  <2>1. \A r \in ended : PhaseBar[r] = "open"
    BY <1>5, <2>0 DEF CloseExpired, PhaseBar, ElevationTypeOK, Live
  <2>2. PhaseBar' = [r \in Requests |-> IF r \in ended THEN "over" ELSE PhaseBar[r]]
    BY <1>5, <2>0 DEF CloseExpired, PhaseBar, ElevationTypeOK, FoundWereOpened, Live
  <2>3. PrivilegeBar' = None
    BY <1>5 DEF CloseExpired, PrivilegeBar, InForce
  <2>4. Contract!Close(ended)
    BY <2>1, <2>2, <2>3 DEF Contract!Close, PhaseBar, PrivilegeBar
  <2>5. QED
    BY <2>4, CloseIsStep
<1>6. ASSUME NEW p \in Replicas, NEW r \in Requests, Reconcile(p, r)
      PROVE  Contract!ElevationContractNext
  BY <1>6, FinishRefines DEF Reconcile, Over
<1>7. CASE BlanketRevoke
  <2>1. PrivilegeBar' = None /\ UNCHANGED status
    BY <1>7 DEF BlanketRevoke, PrivilegeBar, InForce
  <2>2. QED
    BY <2>1, LossRefines DEF Contract!ElevationContractNext
<1>8. ASSUME NEW r \in Requests, Prune(r)
      PROVE  Contract!ElevationContractNext
  BY <1>8, RefuseRefines DEF Prune, Over, Contract!ElevationContractNext
<1>9. CASE Tick
  <2>1. UNCHANGED <<status, grant>> /\ (InForce' => InForce)
    BY <1>9, TimeNat DEF Tick, InForce, ElevationTypeOK
  <2>2. CASE UNCHANGED InForce
    BY <2>1, <2>2 DEF PhaseBar, PrivilegeBar
  <2>3. CASE ~InForce'
    BY <2>1, <2>3, LossRefines DEF PrivilegeBar, Contract!ElevationContractNext
  <2>4. QED
    BY <2>1, <2>2, <2>3
<1>10. QED
  BY <1>1, <1>2, <1>3, <1>4, <1>5, <1>6, <1>7, <1>8, <1>9
  DEF ElevationNext, Handler, Sweeper, elevationVars, AskPending, AskLive, CallRefused,
      Load, FindExpired, FindOrphans, ReconcileSkips, SweepFails, Tell

(* Requests, decisions, sweeps and the clock implement ElevationContract. *)
THEOREM ElevationRefines == ElevationSpec => KeepsElevationContract
<1>1. ElevationInv /\ [ElevationNext]_elevationVars =>
        [Contract!ElevationContractNext]_Contract!elevationContractVars
  BY StepRefines DEF Contract!elevationContractVars, PhaseBar, PrivilegeBar
<1>2. QED
  BY ElevationInitInv, InvStep, InitRefines, <1>1, PTL
  DEF ElevationSpec, KeepsElevationContract, Contract!ElevationContractSpec
=============================================================================
