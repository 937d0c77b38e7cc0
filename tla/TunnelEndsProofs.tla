-------------------------- MODULE TunnelEndsProofs ---------------------------
(* The two ends of the tunnels: which of them the server holds and why it closes
   them, the lanes it writes to, and what the agent runs on its side, for any
   number of connections, replicas, senders and streams.                       *)
EXTENDS TunnelLifecycle, TunnelLanes, AgentStreams, SeqSumsProofs

-----------------------------------------------------------------------------
(* That registry, goroutines and sweep agree, for any number of connections,
   replicas and rotations.  None of the properties is inductive alone: a tunnel
   that removes itself must be known to be registered on its own replica, and
   the sweep's verdict must outlive the steps between its look and its close,
   which it does because a token that was retired never comes back.           *)

\* What a tunnel is closed with.
Causes == {"open", "displaced", "broken", "retired"}

\* No credential is newer than the token, and whatever the sweep or the rotation
\* holds has been verified.
CredentialsOld ==
    /\ \A t \in Conns : credential[t] <= token
    /\ \A x \in Retirers :
          retirer[x] \in {"looking", "closing"} =>
              target[x] \in Conns /\ where[target[x]] # "new"

\* What the sweep is about to close is on a token that was retired.
SweepSure ==
    \A r \in Replicas : retirer[r] = "closing" => credential[target[r]] < token

(* The inductive invariant. *)
LifeInv ==
    /\ LifeTypeOK
    /\ OpenIsRegistered
    /\ RegisteredIsRunning
    /\ CredentialsOld
    /\ SweepSure

-----------------------------------------------------------------------------
\* The invariant holds at first.
LEMMA LifeInitInv == LifeInit => LifeInv
<1> SUFFICES ASSUME LifeInit
             PROVE  LifeInv
  OBVIOUS
<1>1. LifeTypeOK
  BY RotationsNat DEF LifeInit, LifeTypeOK, Running
<1>2. OpenIsRegistered /\ RegisteredIsRunning
  BY NoneApart DEF LifeInit, OpenIsRegistered, RegisteredIsRunning, Running
<1>3. CredentialsOld /\ SweepSure
  BY DEF LifeInit, CredentialsOld, SweepSure, Retirers
<1>4. QED
  BY <1>1, <1>2, <1>3 DEF LifeInv

\* Closing a tunnel leaves the causes causes, and gives the tunnel one.
LEMMA ShutCauses ==
    ASSUME cause \in [Conns -> Causes], NEW t, NEW why \in Causes \ {"open"}, Shut(t, why)
    PROVE  /\ cause' \in [Conns -> Causes]
           /\ t \in Conns => cause'[t] # "open"
           /\ \A u \in Conns : cause[u] # "open" => cause'[u] = cause[u]
           /\ \A u \in Conns : cause'[u] = "open" => cause[u] = "open"
BY DEF Shut, Causes

\* What each step of a connection's goroutine does to every variable's type.
LEMMA GoroutineType ==
    ASSUME LifeTypeOK, NEW t \in Conns,
           Verify(t) \/ Goroutine(t) \/ Break(t) \/ ServePanics(t)
    PROVE  LifeTypeOK'
<1> USE DEF LifeTypeOK
<1>1. CASE Verify(t)
  BY <1>1 DEF Verify, Goto, retireVars, Running
<1>2. CASE HelloFails(t) \/ Welcome(t) \/ EndServe(t)
  BY <1>2 DEF HelloFails, Welcome, EndServe, Goto, retireVars, Running
<1>3. CASE Add(t)
  BY <1>3 DEF Add, Goto, retireVars, Running
<1>4. CASE Displace(t)
  <2>1. cause' \in [Conns -> Causes]
    BY <1>4, ShutCauses DEF Displace, Causes
  <2>2. QED
    BY <1>4, <2>1 DEF Displace, Goto, retireVars, Running, Causes
<1>5. CASE RecordUp(t) \/ RecordDown(t)
  BY <1>5 DEF RecordUp, RecordDown, Record, Goto, retireVars, Running
<1>6. CASE Break(t) \/ ServePanics(t)
  <2>1. cause' \in [Conns -> Causes]
    BY <1>6, ShutCauses DEF Break, ServePanics, Causes
  <2>2. QED
    BY <1>6, <2>1 DEF Break, ServePanics, Goto, connVars, retireVars, Running, Causes
<1>7. CASE Remove(t)
  <2>1. cause' \in [Conns -> Causes]
    BY <1>7, ShutCauses DEF Remove, Causes
  <2>2. registry' \in [Replicas -> Conns \cup {None}]
    BY <1>7 DEF Remove
  <2>3. QED
    BY <1>7, <2>1, <2>2 DEF Remove, Goto, retireVars, Running, Causes
<1>8. QED
  BY <1>1, <1>2, <1>3, <1>4, <1>5, <1>6, <1>7 DEF Goroutine

\* What each step of the rotation and the sweeps does to it.
LEMMA RetirerType ==
    ASSUME LifeTypeOK,
           \/ Rotate
           \/ \E r \in Replicas : Retire(r) \/ Sweep(r) \/ Look(r) \/ LookFails(r)
           \/ \E x \in Retirers : CloseRetired(x)
    PROVE  LifeTypeOK'
<1> USE DEF LifeTypeOK
<1>1. CASE Rotate
  BY <1>1, RotationsNat DEF Rotate, Advance, Retirers, connVars
<1>2. ASSUME NEW r \in Replicas, Retire(r) \/ Sweep(r) \/ Look(r) \/ LookFails(r)
      PROVE  LifeTypeOK'
  BY <1>2 DEF Retire, Sweep, Look, LookFails, Advance, Retirers, connVars
<1>3. ASSUME NEW x \in Retirers, CloseRetired(x)
      PROVE  LifeTypeOK'
  <2>1. cause' \in [Conns -> Causes]
    BY <1>3, ShutCauses DEF CloseRetired, Causes
  <2>2. QED
    BY <1>3, <2>1 DEF CloseRetired, Advance, connVars, Causes
<1>4. QED
  BY <1>1, <1>2, <1>3

-----------------------------------------------------------------------------
(* Each conjunct of the invariant, over each action. *)

\* Every step keeps RegisteredIsRunning.
LEMMA RegisteredStep ==
    ASSUME LifeInv, [LifeNext]_lifeVars
    PROVE  RegisteredIsRunning'
<1> USE NoneApart DEF LifeInv, LifeTypeOK, RegisteredIsRunning, Running, Open
<1> /\ cause \in [Conns -> Causes]
    /\ {"displaced", "broken", "retired"} \subseteq Causes \ {"open"}
  BY DEF Causes
<1>1. ASSUME NEW t \in Conns, Verify(t)
      PROVE  RegisteredIsRunning'
  BY <1>1 DEF Verify, Goto
<1>2. ASSUME NEW t \in Conns, HelloFails(t) \/ RecordUp(t) \/ Welcome(t) \/ EndServe(t)
                              \/ RecordDown(t)
      PROVE  RegisteredIsRunning'
  BY <1>2 DEF HelloFails, RecordUp, Welcome, EndServe, RecordDown, Goto
<1>3. ASSUME NEW t \in Conns, Add(t)
      PROVE  RegisteredIsRunning'
  BY <1>3 DEF Add, Goto
<1>4. ASSUME NEW t \in Conns, Break(t) \/ Displace(t)
      PROVE  RegisteredIsRunning'
  <2>1. \A s \in Conns : cause'[s] = "open" => cause[s] = "open"
    BY <1>4, ShutCauses DEF Break, Displace
  <2>2. QED
    BY <1>4, <2>1 DEF Break, Displace, Goto, connVars
<1>5. ASSUME NEW t \in Conns, Remove(t)
      PROVE  RegisteredIsRunning'
  <2>1. \A s \in Conns : cause'[s] = "open" => cause[s] = "open"
    BY <1>5, ShutCauses DEF Remove
  <2>2. QED
    BY <1>5, <2>1 DEF Remove, Goto, Attached
<1>6. ASSUME NEW t \in Conns, ServePanics(t)
      PROVE  RegisteredIsRunning'
  <2>1. cause'[t] # "open" /\ \A s \in Conns : cause'[s] = "open" => cause[s] = "open"
    BY <1>6, ShutCauses DEF ServePanics
  <2>2. QED
    BY <1>6, <2>1 DEF ServePanics, Goto
<1>7. ASSUME NEW x \in Retirers, CloseRetired(x)
      PROVE  RegisteredIsRunning'
  <2>1. \A s \in Conns : cause'[s] = "open" => cause[s] = "open"
    BY <1>7, ShutCauses DEF CloseRetired
  <2>2. QED
    BY <1>7, <2>1 DEF CloseRetired, connVars
<1>8. CASE UNCHANGED <<connVars, cause, registry>>
  BY <1>8 DEF connVars
<1>9. QED
  BY <1>1, <1>2, <1>3, <1>4, <1>5, <1>6, <1>7, <1>8
  DEF LifeNext, Goroutine, lifeVars, Retire, Sweep, Look, LookFails, Rotate

\* The tunnel is open, running, and about to be closed by the one that displaced it.
Leaving(t) == \E u \in Conns : where[u] = "displacing" /\ displaced[u] = t

\* Every step keeps OpenIsRegistered.
LEMMA OpenStep ==
    ASSUME LifeInv, [LifeNext]_lifeVars
    PROVE  OpenIsRegistered'
<1> USE NoneApart DEF LifeInv, LifeTypeOK, RegisteredIsRunning, OpenIsRegistered, Open, Running
<1> /\ cause \in [Conns -> Causes]
    /\ {"displaced", "broken", "retired"} \subseteq Causes \ {"open"}
  BY DEF Causes
<1>1. ASSUME NEW t \in Conns, Verify(t) \/ HelloFails(t) \/ RecordUp(t) \/ Welcome(t)
                              \/ EndServe(t) \/ RecordDown(t)
      PROVE  OpenIsRegistered'
  BY <1>1 DEF Verify, HelloFails, RecordUp, Welcome, EndServe, RecordDown, Goto
<1>2. ASSUME NEW t \in Conns, Add(t)
      PROVE  OpenIsRegistered'
  <2> SUFFICES ASSUME NEW s \in Conns, where'[s] \in Running, cause[s] = "open"
               PROVE  registry'[replica[s]] = s \/ Leaving(s)'
    BY <1>2 DEF Add, Leaving
  <2>1. CASE s = t
    BY <1>2, <2>1 DEF Add
  <2>2. CASE s # t /\ registry[replica[s]] = s /\ replica[s] = replica[t]
    <3>1. where'[t] = "displacing" /\ displaced'[t] = s
      BY <1>2, <2>2 DEF Add, Goto
    <3>2. QED
      BY <3>1 DEF Leaving
  <2>3. CASE s # t /\ registry[replica[s]] = s /\ replica[s] # replica[t]
    BY <1>2, <2>3 DEF Add
  <2>4. CASE s # t /\ registry[replica[s]] # s
    <3>1. PICK u \in Conns : where[u] = "displacing" /\ displaced[u] = s
      BY <1>2, <2>4 DEF Add, Goto
    <3>2. where'[u] = "displacing" /\ displaced'[u] = s
      BY <1>2, <3>1 DEF Add, Goto
    <3>3. QED
      BY <3>2 DEF Leaving
  <2>5. QED
    BY <2>1, <2>2, <2>3, <2>4
<1>3. ASSUME NEW t \in Conns, Displace(t)
      PROVE  OpenIsRegistered'
  <2> SUFFICES ASSUME NEW s \in Conns, where'[s] \in Running, cause'[s] = "open",
                      registry[replica[s]] # s
               PROVE  Leaving(s)'
    BY <1>3 DEF Displace, Leaving
  <2>1. cause[s] = "open" /\ displaced[t] # s
    BY <1>3, ShutCauses DEF Displace
  <2>2. PICK u \in Conns : where[u] = "displacing" /\ displaced[u] = s
    BY <1>3, <2>1 DEF Displace, Goto
  <2>3. where'[u] = "displacing" /\ displaced'[u] = s
    BY <1>3, <2>1, <2>2 DEF Displace, Goto
  <2>4. QED
    BY <2>3 DEF Leaving
<1>4. ASSUME NEW t \in Conns, Break(t) \/ ServePanics(t)
      PROVE  OpenIsRegistered'
  <2>1. \A s \in Conns : cause'[s] = "open" => cause[s] = "open"
    BY <1>4, ShutCauses DEF Break, ServePanics
  <2>2. QED
    BY <1>4, <2>1 DEF Break, ServePanics, Goto, connVars
<1>5. ASSUME NEW t \in Conns, Remove(t)
      PROVE  OpenIsRegistered'
  <2>1. \A s \in Conns : cause'[s] = "open" => cause[s] = "open" /\ s # t
    BY <1>5, ShutCauses DEF Remove
  <2>2. \A s \in Conns : s # t /\ registry[replica[s]] = s => registry'[replica[s]] = s
    BY <1>5 DEF Remove, Attached
  <2>3. QED
    BY <1>5, <2>1, <2>2 DEF Remove, Goto
<1>6. ASSUME NEW x \in Retirers, CloseRetired(x)
      PROVE  OpenIsRegistered'
  <2>1. \A s \in Conns : cause'[s] = "open" => cause[s] = "open"
    BY <1>6, ShutCauses DEF CloseRetired
  <2>2. QED
    BY <1>6, <2>1 DEF CloseRetired, connVars
<1>7. CASE UNCHANGED <<connVars, cause, registry>>
  BY <1>7 DEF connVars
<1>8. QED
  BY <1>1, <1>2, <1>3, <1>4, <1>5, <1>6, <1>7
  DEF LifeNext, Goroutine, lifeVars, Retire, Sweep, Look, LookFails, Rotate

\* No goroutine's step changes a token, the credential of a verified tunnel, or a
\* place back to "new".
LEMMA VerifiedStays ==
    ASSUME LifeTypeOK, NEW t \in Conns,
           Verify(t) \/ Goroutine(t) \/ Break(t) \/ ServePanics(t)
    PROVE  /\ UNCHANGED retireVars
           /\ \A s \in Conns : where[s] # "new" =>
                 where'[s] # "new" /\ credential'[s] = credential[s]
           /\ \A s \in Conns : credential'[s] \in {credential[s], token}
BY DEF LifeTypeOK, Goroutine, Verify, HelloFails, Add, Displace, RecordUp, Welcome, EndServe,
       Remove, RecordDown, Break, ServePanics, Goto, connVars, retireVars, Running

\* Every step keeps CredentialsOld and SweepSure.
LEMMA CredentialsStep ==
    ASSUME LifeInv, [LifeNext]_lifeVars
    PROVE  CredentialsOld' /\ SweepSure'
<1> USE DEF LifeInv, LifeTypeOK, CredentialsOld, SweepSure, Retirers
<1>1. ASSUME NEW t \in Conns,
             Verify(t) \/ Goroutine(t) \/ Break(t) \/ ServePanics(t)
      PROVE  CredentialsOld' /\ SweepSure'
  BY <1>1, VerifiedStays, RotationsNat DEF retireVars
<1>2. CASE Rotate
  BY <1>2, RotationsNat, ApiApart DEF Rotate, Advance, connVars
<1>3. ASSUME NEW r \in Replicas, Retire(r) \/ Sweep(r)
      PROVE  CredentialsOld' /\ SweepSure'
  <2>1. registry[r] # None => registry[r] \in Conns /\ where[registry[r]] # "new"
    BY NoneApart DEF RegisteredIsRunning, Running
  <2>2. QED
    BY <1>3, <2>1, ApiApart DEF Retire, Sweep, Advance, connVars
<1>4. ASSUME NEW r \in Replicas, Look(r) \/ LookFails(r)
      PROVE  CredentialsOld' /\ SweepSure'
  BY <1>4, ApiApart, RotationsNat DEF Look, LookFails, Advance, connVars
<1>5. ASSUME NEW x \in Retirers, CloseRetired(x)
      PROVE  CredentialsOld' /\ SweepSure'
  BY <1>5 DEF CloseRetired, Advance, connVars
<1>6. CASE UNCHANGED lifeVars
  BY <1>6 DEF lifeVars, connVars, retireVars
<1>7. QED
  BY <1>1, <1>2, <1>3, <1>4, <1>5, <1>6 DEF LifeNext

\* So every step keeps the invariant.
LEMMA LifeStepInv == LifeInv /\ [LifeNext]_lifeVars => LifeInv'
<1> SUFFICES ASSUME LifeInv, [LifeNext]_lifeVars
             PROVE  LifeInv'
  OBVIOUS
<1>1. LifeTypeOK'
  <2>1. CASE UNCHANGED lifeVars
    BY <2>1 DEF LifeInv, LifeTypeOK, lifeVars, connVars, retireVars
  <2>2. CASE LifeNext
    BY <2>2, GoroutineType, RetirerType DEF LifeInv, LifeNext
  <2>3. QED
    BY <2>1, <2>2
<1>2. QED
  BY <1>1, RegisteredStep, OpenStep, CredentialsStep DEF LifeInv

\* And it always holds.
LEMMA LifeInvariant == LifeSpec => []LifeInv
BY LifeInitInv, LifeStepInv, PTL DEF LifeSpec

-----------------------------------------------------------------------------
\* Types, for any connections, replicas and rotations; whoever is to close a
\* tunnel has one (server.go).
THEOREM LifeTypeCorrect == LifeSpec => []LifeTypeOK
<1>1. LifeInv => LifeTypeOK
  BY DEF LifeInv
<1>2. QED
  BY <1>1, LifeInvariant, PTL

\* An open tunnel is registered or about to be closed by the one that displaced
\* it, and a registered one has a goroutine that will deregister it, or is closed
\* and its reader has panicked (Add, Displace, Remove, serve): however many
\* connections displace one another.
THEOREM RegistryAgrees == LifeSpec => []RegistryExact
<1>1. LifeInv => RegistryExact
  BY DEF LifeInv, RegistryExact
<1>2. QED
  BY <1>1, LifeInvariant, PTL

\* What the sweep closes is on a retired token, however long ago it looked
\* (SweepCredentials).
THEOREM SweepIsSound == LifeSpec => SweepSparesCurrent
<1>1. ASSUME LifeInv, [LifeNext]_lifeVars
      PROVE  [\A t \in Conns, r \in Replicas :
                CloseRetired(r) /\ target[r] = t /\ Open(t) => credential[t] # token]_lifeVars
  BY <1>1 DEF LifeInv, LifeTypeOK, SweepSure, CloseRetired, Advance
<1>2. QED
  BY <1>1, LifeInvariant, PTL DEF LifeSpec, SweepSparesCurrent

\* Whatever closes a tunnel a second time leaves the cause as it was (closeWith).
THEOREM CauseIsFirst == LifeSpec => FirstCauseKept
<1>1. ASSUME LifeInv, [LifeNext]_lifeVars
      PROVE  [\A t \in Conns : cause[t] # "open" => cause'[t] = cause[t]]_lifeVars
  <2> SUFFICES ASSUME NEW t \in Conns, cause[t] # "open"
               PROVE  cause'[t] = cause[t]
    OBVIOUS
  <2>1. cause \in [Conns -> Causes] /\ {"displaced", "broken", "retired"} \subseteq Causes \ {"open"}
    BY <1>1 DEF LifeInv, LifeTypeOK, Causes
  <2>2. CASE \E s \in Conns : Displace(s) \/ Break(s) \/ Remove(s) \/ ServePanics(s)
    BY <2>1, <2>2, ShutCauses DEF Displace, Break, Remove, ServePanics
  <2>3. CASE \E x \in Retirers : CloseRetired(x)
    BY <2>1, <2>3, ShutCauses DEF CloseRetired
  <2>4. CASE UNCHANGED cause
    BY <2>4
  <2>5. QED
    BY <1>1, <2>2, <2>3, <2>4
    DEF LifeNext, Goroutine, lifeVars, Verify, HelloFails, Add, RecordUp, Welcome, EndServe,
        RecordDown, Retire, Sweep, Look, LookFails, Rotate
<1>2. QED
  BY <1>1, LifeInvariant, PTL DEF LifeSpec, FirstCauseKept

\* Both together: the sweep closes for a reason that holds, and the reason stays.
THEOREM CloseIsForCause == LifeSpec => ClosedForCause
BY SweepIsSound, CauseIsFirst, PTL DEF ClosedForCause

-----------------------------------------------------------------------------
(* That no bulk frame is overtaken by more than urgentBurst urgent ones, for
   any number of senders, any queue sizes and any burst.  OvertakenBounded is
   not inductive: what bounds it is that every overtaking also counts in
   urgentRun, except one that nextFrame lets through after finding bulk empty at
   a full run, and then the frame it overtakes has only just arrived.        *)

\* What a sender makes is a frame.
LEMMA FramesMade ==
    ASSUME LanesTypeOK, NEW s \in Senders
    PROVE  [from |-> s, number |-> accepted[s]] \in Frames
BY DEF LanesTypeOK, Frames

\* Numbers are followed by numbers.
LEMMA NextNumber ==
    ASSUME NEW k \in 0..Numbers-1
    PROVE  (k + 1) % Numbers \in 0..Numbers-1
BY LaneBounds

\* Room for one more in a bounded queue, and one frame fewer in a shorter one.
LEMMA AppendInBounds ==
    ASSUME NEW S, NEW q \in Seq(S), NEW e \in S, NEW n \in Nat, Len(q) < n
    PROVE  Append(q, e) \in Seq(S) /\ Len(Append(q, e)) <= n
OBVIOUS

\* Queues with a frame more and a frame less.
LEMMA AppendNotEmpty ==
    ASSUME NEW S, NEW q \in Seq(S), NEW e \in S
    PROVE  Append(q, e) # <<>>
<1>1. Len(Append(q, e)) = Len(q) + 1 /\ Len(q) \in Nat
  OBVIOUS
<1>2. Len(<<>>) = 0
  OBVIOUS
<1>3. QED
  BY <1>1, <1>2

LEMMA TailInBounds ==
    ASSUME NEW S, NEW q \in Seq(S), NEW n \in Nat, Len(q) <= n, q # <<>>
    PROVE  Tail(q) \in Seq(S) /\ Len(Tail(q)) <= n /\ Head(q) \in S
OBVIOUS

-----------------------------------------------------------------------------
\* The types hold at first, and each kind of step keeps them.
LEMMA LanesInitType == LanesInit => LanesTypeOK
<1> SUFFICES ASSUME LanesInit
             PROVE  LanesTypeOK
  OBVIOUS
<1>1. <<>> \in Seq(Frames) /\ Len(<<>>) = 0
  OBVIOUS
<1>2. 0 \in 0..Numbers-1 /\ 0 \in 0..UrgentBurst
  BY LaneBounds
<1>3. /\ urgent \in Seq(Frames) /\ Len(urgent) <= UrgentQueue
      /\ bulk \in Seq(Frames) /\ Len(bulk) <= BulkQueue
  BY <1>1, LaneBounds DEF LanesInit
<1>4. /\ accepted \in [Senders -> 0..Numbers-1]
      /\ written \in [Senders -> 0..Numbers-1]
      /\ sender \in [Senders -> {"ready", "blocked", "gone"}]
  BY <1>2 DEF LanesInit
<1>5. QED
  BY <1>2, <1>3, <1>4 DEF LanesInit, LanesTypeOK

LEMMA PutType ==
    ASSUME LanesTypeOK, NEW s \in Senders, Put(s)
    PROVE  LanesTypeOK'
<1> DEFINE f == [from |-> s, number |-> accepted[s]]
<1>1. f \in Frames
  BY FramesMade
<1>2. /\ sender' \in [Senders -> {"ready", "blocked", "gone"}]
      /\ accepted' \in [Senders -> 0..Numbers-1]
  BY NextNumber DEF Put, LanesTypeOK
<1>3. /\ urgent' \in Seq(Frames) /\ Len(urgent') <= UrgentQueue
      /\ bulk' \in Seq(Frames) /\ Len(bulk') <= BulkQueue
  <2>1. CASE LaneOf(s) = "bulk"
    <3>1. bulk' = Append(bulk, f) /\ urgent' = urgent /\ Len(bulk) < BulkQueue
      BY <2>1 DEF Put, HasRoom
    <3>2. QED
      BY <1>1, <3>1, LaneBounds, AppendInBounds DEF LanesTypeOK
  <2>2. CASE LaneOf(s) = "urgent"
    <3>1. urgent' = Append(urgent, f) /\ bulk' = bulk /\ Len(urgent) < UrgentQueue
      BY <2>2 DEF Put, HasRoom
    <3>2. QED
      BY <1>1, <3>1, LaneBounds, AppendInBounds DEF LanesTypeOK
  <2>3. QED
    BY <2>1, <2>2 DEF LaneOf
<1>4. QED
  BY <1>2, <1>3 DEF Put, LanesTypeOK, writerVars

LEMMA SenderType ==
    ASSUME LanesTypeOK, NEW s \in Senders, Offer(s) \/ Unblock(s)
    PROVE  LanesTypeOK'
<1>1. CASE Put(s)
  BY <1>1, PutType
<1>2. CASE /\ \E to \in {"ready", "blocked", "gone"} : sender' = [sender EXCEPT ![s] = to]
           /\ UNCHANGED <<accepted, laneVars, writerVars, closed>>
  BY <1>2 DEF LanesTypeOK, laneVars, writerVars
<1>3. QED
  BY <1>1, <1>2 DEF Offer, Unblock

LEMMA SelectType ==
    ASSUME LanesTypeOK, Select
    PROVE  LanesTypeOK'
<1>0. UNCHANGED <<sender, accepted, written, closed>>
  BY DEF Select, senderVars
<1>1. CASE TakeUrgent
  <2>1. Tail(urgent) \in Seq(Frames) /\ Len(Tail(urgent)) <= UrgentQueue
        /\ Head(urgent) \in Frames
    BY <1>1, LaneBounds, TailInBounds DEF TakeUrgent, LanesTypeOK
  <2>2. QED
    BY <1>0, <1>1, <2>1, LaneBounds DEF TakeUrgent, LanesTypeOK
<1>2. CASE TakeBulk
  <2>1. Tail(bulk) \in Seq(Frames) /\ Len(Tail(bulk)) <= BulkQueue
        /\ Head(bulk) \in Frames
    BY <1>2, LaneBounds, TailInBounds DEF TakeBulk, LanesTypeOK
  <2>2. QED
    BY <1>0, <1>2, <2>1, LaneBounds DEF TakeBulk, LanesTypeOK
<1>3. ASSUME NEW to \in {"urgent", "any", "stopped"}, Proceed(to)
      PROVE  LanesTypeOK'
  BY <1>0, <1>3 DEF Proceed, LanesTypeOK, laneVars
<1>4. QED
  BY <1>1, <1>2, <1>3 DEF Select, SelectBurst, SelectUrgent, SelectAny

LEMMA WriteType ==
    ASSUME LanesTypeOK, writer = "writing" => frame \in Frames, Write
    PROVE  LanesTypeOK'
<1>1. frame.from \in Senders
  BY DEF Write, Frames
<1>2. written' \in [Senders -> 0..Numbers-1]
  BY <1>1, NextNumber DEF Write, LanesTypeOK
<1>3. QED
  BY <1>2 DEF Write, LanesTypeOK, senderVars, laneVars

-----------------------------------------------------------------------------
(* The inductive invariant. *)
LanesInv ==
    /\ LanesTypeOK
    /\ writer = "writing" => frame \in Frames
    /\ overtaken <= urgentRun
    /\ bulk = <<>> => overtaken = 0
    /\ writer \in {"urgent", "any"} /\ urgentRun = UrgentBurst => overtaken = 0

\* LanesInv holds at first, and each kind of step keeps it.
LEMMA LanesInitInv == LanesInit => LanesInv
BY LanesInitType, LaneBounds DEF LanesInit, LanesInv

LEMMA SenderInv ==
    ASSUME LanesInv, NEW s \in Senders, Offer(s) \/ Unblock(s)
    PROVE  LanesInv'
<1>1. LanesTypeOK'
  BY SenderType DEF LanesInv
<1>2. UNCHANGED <<writer, frame, urgentRun, overtaken>>
  BY DEF Offer, Unblock, Put, writerVars
<1>3. bulk' = <<>> => bulk = <<>>
  <2>1. CASE Put(s)
    <3>1. bulk' = bulk \/ \E f \in Frames : bulk' = Append(bulk, f)
      BY <2>1, FramesMade DEF Put, LanesInv
    <3>2. bulk \in Seq(Frames)
      BY DEF LanesInv, LanesTypeOK
    <3>3. \A f \in Frames : Append(bulk, f) # <<>>
      BY <3>2, AppendNotEmpty
    <3>4. QED
      BY <3>1, <3>3
  <2>2. CASE UNCHANGED laneVars
    BY <2>2 DEF laneVars
  <2>3. QED
    BY <2>1, <2>2 DEF Offer, Unblock
<1>4. QED
  BY <1>1, <1>2, <1>3 DEF LanesInv

LEMMA SelectInv ==
    ASSUME LanesInv, Select
    PROVE  LanesInv'
<1> USE DEF LanesInv
<1>1. LanesTypeOK'
  BY SelectType
<1>2. /\ urgentRun \in 0..UrgentBurst /\ overtaken \in Nat
      /\ urgent \in Seq(Frames) /\ bulk \in Seq(Frames)
  BY DEF LanesTypeOK
<1>3. CASE TakeUrgent /\ writer \in {"urgent", "any"}
  <2>1. frame' \in Frames /\ writer' = "writing" /\ bulk' = bulk
    BY <1>2, <1>3 DEF TakeUrgent
  <2>2. overtaken' <= urgentRun'
    BY <1>2, <1>3, LaneBounds DEF TakeUrgent
  <2>3. bulk' = <<>> => overtaken' = 0
    BY <1>3 DEF TakeUrgent
  <2>4. QED
    BY <1>1, <2>1, <2>2, <2>3
<1>4. CASE TakeBulk
  BY <1>1, <1>2, <1>4 DEF TakeBulk
<1>5. CASE SelectBurst /\ Proceed("urgent")
  BY <1>1, <1>2, <1>5, LaneBounds DEF SelectBurst, TakeBulk, Proceed, laneVars
<1>6. CASE writer = "urgent" /\ Proceed("any")
  BY <1>1, <1>6 DEF Proceed, laneVars
<1>7. CASE Proceed("stopped")
  BY <1>1, <1>7 DEF Proceed, laneVars
<1>8. QED
  BY <1>3, <1>4, <1>5, <1>6, <1>7
     DEF Select, SelectBurst, SelectUrgent, SelectAny

LEMMA LanesStepInv ==
    ASSUME LanesInv, [LanesNext]_lanesVars
    PROVE  LanesInv'
<1>1. ASSUME NEW s \in Senders, Offer(s) \/ Unblock(s)
      PROVE  LanesInv'
  BY <1>1, SenderInv
<1>2. CASE Select
  BY <1>2, SelectInv
<1>3. CASE Write
  <2>1. LanesTypeOK'
    BY <1>3, WriteType DEF LanesInv
  <2>2. QED
    BY <1>3, <2>1 DEF LanesInv, Write, laneVars
<1>4. CASE WriteFails
  BY <1>4 DEF LanesInv, LanesTypeOK, WriteFails, senderVars, laneVars
<1>5. CASE Close
  BY <1>5 DEF LanesInv, LanesTypeOK, Close, senderVars, laneVars, writerVars
<1>6. CASE UNCHANGED lanesVars
  BY <1>6 DEF LanesInv, LanesTypeOK, lanesVars, senderVars, laneVars, writerVars
<1>7. QED
  BY <1>1, <1>2, <1>3, <1>4, <1>5, <1>6 DEF LanesNext

\* So it always holds.
LEMMA LanesInvariant == LanesSpec => []LanesInv
BY LanesInitInv, LanesStepInv, PTL DEF LanesSpec

\* The type invariant of the write side, with the room of both lanes.
THEOREM LanesTypeCorrect == LanesSpec => []LanesTypeOK
<1>1. LanesInv => LanesTypeOK
  BY DEF LanesInv
<1>2. QED
  BY <1>1, LanesInvariant, PTL

\* No bulk frame is overtaken by more than urgentBurst urgent ones, whatever
\* arrives between two selects of nextFrame.
THEOREM LanesBurstBounded == LanesSpec => []LanesBounded
<1>1. LanesInv => OvertakenBounded
  BY LaneBounds DEF LanesInv, LanesTypeOK, OvertakenBounded
<1>2. LanesInv => LanesBounded
  BY <1>1 DEF LanesInv, LanesBounded
<1>3. QED
  BY <1>2, LanesInvariant, PTL

-----------------------------------------------------------------------------
(* That a sender's frames are written in the order it sent them, for any senders
   and lanes.  What makes that inductive is where each of its frames is: those in
   its lane are numbered from the one after the frame in the writer's hand up to
   the one before the next it will queue.  A lane holds frames of its own senders
   only, so none of them can be anywhere else.                                *)

\* The number after k.
Following(k) == (k + 1) % Numbers

\* The i-th frame of q is the first of s, and the last.
FirstOf(q, s, i) == q[i].from = s /\ \A k \in 1..(i - 1) : q[k].from # s
\* Place i has the last frame of s in q.
LastOf(q, s, i) == q[i].from = s /\ \A k \in (i + 1)..Len(q) : q[k].from # s

\* The frames of s in q are numbered one by one from n, and m comes after them.
Numbered(q, s, n, m) ==
    /\ \A i \in 1..Len(q) : FirstOf(q, s, i) => q[i].number = n
    /\ \A i \in 1..Len(q) : \A j \in (i + 1)..Len(q) :
          /\ q[i].from = s /\ q[j].from = s
          /\ \A k \in (i + 1)..(j - 1) : q[k].from # s
          => q[j].number = Following(q[i].number)
    /\ \A i \in 1..Len(q) : LastOf(q, s, i) => m = Following(q[i].number)
    /\ (\A i \in 1..Len(q) : q[i].from # s) => m = n

\* The lane of s.
LaneFrames(s) == IF LaneOf(s) = "bulk" THEN bulk ELSE urgent

\* The frame of s that the writer holds, and the number of the one after it.
Held(s) == writer = "writing" /\ frame.from = s
NextInLane(s) == IF Held(s) THEN Following(written[s]) ELSE written[s]

(* The inductive invariant: a stopped writer writes nothing any more. *)
InOrder ==
    writer # "stopped" =>
        /\ \A i \in 1..Len(bulk) : LaneOf(bulk[i].from) = "bulk"
        /\ \A i \in 1..Len(urgent) : LaneOf(urgent[i].from) = "urgent"
        /\ \A s \in Senders :
              /\ Held(s) => frame.number = written[s]
              /\ Numbered(LaneFrames(s), s, NextInLane(s), accepted[s])

\* The lemmas about Numbered: an empty lane, a frame more, a frame less.
LEMMA EmptyNumbered ==
    ASSUME NEW s, NEW n
    PROVE  Numbered(<<>>, s, n, n)
BY DEF Numbered

\* A frame more at the end.
LEMMA AppendNumbered ==
    ASSUME NEW q \in Seq(Frames), NEW s, NEW n, NEW m, NEW f \in Frames,
           Numbered(q, s, n, m), f.from = s => f.number = m
    PROVE  Numbered(Append(q, f), s, n, IF f.from = s THEN Following(m) ELSE m)
<1> DEFINE r == Append(q, f)
<1>1. /\ r \in Seq(Frames) /\ Len(q) \in Nat /\ Len(r) = Len(q) + 1 /\ r[Len(q) + 1] = f
      /\ \A i \in 1..Len(q) : r[i] = q[i]
  OBVIOUS
<1> HIDE DEF r
<1>2. ASSUME NEW i \in 1..Len(r), FirstOf(r, s, i)
      PROVE  r[i].number = n
  <2>1. CASE i = Len(q) + 1
    <3>1. \A k \in 1..Len(q) : q[k].from # s
      BY <1>1, <1>2, <2>1 DEF FirstOf
    <3> QED
      BY <1>1, <1>2, <2>1, <3>1 DEF FirstOf, Numbered
  <2>2. CASE i \in 1..Len(q)
    <3>1. FirstOf(q, s, i)
      BY <1>1, <1>2, <2>2 DEF FirstOf
    <3> QED
      BY <1>1, <2>2, <3>1 DEF Numbered
  <2> QED
    BY <1>1, <2>1, <2>2
<1>3. ASSUME NEW i \in 1..Len(r), NEW j \in (i + 1)..Len(r), r[i].from = s, r[j].from = s,
             \A k \in (i + 1)..(j - 1) : r[k].from # s
      PROVE  r[j].number = Following(r[i].number)
  <2>1. i \in 1..Len(q) /\ r[i] = q[i]
    BY <1>1
  <2>2. CASE j = Len(q) + 1
    <3>1. \A k \in (i + 1)..Len(q) : q[k].from # s
      BY <1>1, <1>3, <2>2
    <3>2. LastOf(q, s, i)
      BY <1>3, <2>1, <3>1 DEF LastOf
    <3> QED
      BY <1>1, <1>3, <2>1, <2>2, <3>2 DEF Numbered
  <2>3. CASE j \in (i + 1)..Len(q)
    <3>1. r[j] = q[j]
      BY <1>1, <2>1, <2>3
    <3>2. \A k \in (i + 1)..(j - 1) : k \in 1..Len(q) /\ r[k] = q[k]
      <4>1. \A k \in (i + 1)..(j - 1) : k \in 1..Len(q)
        BY <1>1, <2>1, <2>3
      <4> QED
        BY <1>1, <4>1
    <3>3. \A k \in (i + 1)..(j - 1) : q[k].from # s
      <4> HIDE DEF r
      <4> QED
        BY <1>3, <3>2
    <3> QED
      BY <1>3, <2>1, <2>3, <3>1, <3>3 DEF Numbered
  <2> QED
    BY <1>1, <2>2, <2>3
<1>4. ASSUME NEW i \in 1..Len(r), LastOf(r, s, i)
      PROVE  (IF f.from = s THEN Following(m) ELSE m) = Following(r[i].number)
  <2>1. CASE i = Len(q) + 1
    BY <1>1, <1>4, <2>1 DEF LastOf
  <2>2. CASE i \in 1..Len(q)
    <3>1. f.from # s /\ \A k \in (i + 1)..Len(q) : q[k].from # s
      BY <1>1, <1>4, <2>2 DEF LastOf
    <3>2. LastOf(q, s, i)
      BY <1>1, <1>4, <2>2, <3>1 DEF LastOf
    <3> QED
      BY <1>1, <2>2, <3>1, <3>2 DEF Numbered
  <2> QED
    BY <1>1, <2>1, <2>2
<1>5. ASSUME \A i \in 1..Len(r) : r[i].from # s
      PROVE  (IF f.from = s THEN Following(m) ELSE m) = n
  <2>1. f.from # s /\ \A i \in 1..Len(q) : q[i].from # s
    BY <1>1, <1>5
  <2> QED
    BY <2>1 DEF Numbered
<1>6. Numbered(r, s, n, IF f.from = s THEN Following(m) ELSE m)
  BY <1>2, <1>3, <1>4, <1>5 DEF Numbered
<1> QED
  BY <1>6 DEF r

\* The first frame gone.
LEMMA TailNumbered ==
    ASSUME NEW q \in Seq(Frames), NEW s, NEW n, NEW m, Numbered(q, s, n, m), q # <<>>
    PROVE  /\ Head(q).from = s => Head(q).number = n
           /\ Numbered(Tail(q), s, IF Head(q).from = s THEN Following(n) ELSE n, m)
<1> DEFINE r == Tail(q)
           first == IF q[1].from = s THEN Following(n) ELSE n
<1>1. /\ r \in Seq(Frames) /\ Len(q) \in Nat /\ Len(q) >= 1 /\ Len(r) = Len(q) - 1
      /\ Head(q) = q[1]
      /\ \A i \in 1..Len(r) : r[i] = q[i + 1]
  OBVIOUS
<1> HIDE DEF r
<1>2. q[1].from = s => q[1].number = n
  BY <1>1 DEF Numbered, FirstOf
<1>3. ASSUME NEW i \in 1..Len(r), FirstOf(r, s, i)
      PROVE  r[i].number = first
  <2>1. /\ i + 1 \in 2..Len(q) /\ q[i + 1] = r[i] /\ q[i + 1].from = s
        /\ \A k \in 2..i : q[k].from # s
    <3>1. \A k \in 2..i : k - 1 \in 1..(i - 1) /\ k - 1 \in 1..Len(r) /\ r[k - 1] = q[(k - 1) + 1]
      BY <1>1
    <3>2. \A k \in 2..i : r[k - 1] = q[k]
      BY <3>1
    <3>3. \A k \in 1..(i - 1) : r[k].from # s
      BY <1>3 DEF FirstOf
    <3>4. \A k \in 2..i : q[k].from # s
      BY <3>1, <3>2, <3>3
    <3> QED
      BY <1>1, <1>3, <3>4 DEF FirstOf
  <2>2. CASE q[1].from = s
    <3>1. \A k \in (1 + 1)..((i + 1) - 1) : q[k].from # s
      BY <2>1
    <3>2. 1 \in 1..Len(q) /\ i + 1 \in (1 + 1)..Len(q)
      BY <1>1, <2>1
    <3>3. q[i + 1].number = Following(q[1].number)
      BY <2>1, <2>2, <3>1, <3>2 DEF Numbered
    <3> QED
      BY <1>2, <2>1, <2>2, <3>3
  <2>3. CASE q[1].from # s
    <3>1. i + 1 \in 1..Len(q) /\ FirstOf(q, s, i + 1)
      BY <1>1, <2>1, <2>3 DEF FirstOf
    <3> QED
      BY <2>1, <2>3, <3>1 DEF Numbered
  <2> QED
    BY <2>2, <2>3
<1>4. ASSUME NEW i \in 1..Len(r), NEW j \in (i + 1)..Len(r), r[i].from = s, r[j].from = s,
             \A k \in (i + 1)..(j - 1) : r[k].from # s
      PROVE  r[j].number = Following(r[i].number)
  <2>1. /\ i + 1 \in 1..Len(q) /\ j + 1 \in ((i + 1) + 1)..Len(q)
        /\ r[i] = q[i + 1] /\ r[j] = q[j + 1]
    BY <1>1
  <2>2. \A k \in ((i + 1) + 1)..((j + 1) - 1) : q[k].from # s
    <3>1. \A k \in ((i + 1) + 1)..((j + 1) - 1) :
              k - 1 \in (i + 1)..(j - 1) /\ k - 1 \in 1..Len(r) /\ (k - 1) + 1 = k
      BY <1>1
    <3>2. \A k \in ((i + 1) + 1)..((j + 1) - 1) : r[k - 1] = q[k] /\ r[k - 1].from # s
      BY <1>1, <1>4, <3>1
    <3> QED
      BY <3>2
  <2> QED
    BY <1>4, <2>1, <2>2 DEF Numbered
<1>5. ASSUME NEW i \in 1..Len(r), LastOf(r, s, i)
      PROVE  m = Following(r[i].number)
  <2>1. i + 1 \in 1..Len(q) /\ r[i] = q[i + 1]
    BY <1>1
  <2>2. \A k \in ((i + 1) + 1)..Len(q) : q[k].from # s
    <3>1. \A k \in ((i + 1) + 1)..Len(q) :
              k - 1 \in (i + 1)..Len(r) /\ k - 1 \in 1..Len(r) /\ (k - 1) + 1 = k
      BY <1>1
    <3>2. \A k \in (i + 1)..Len(r) : r[k].from # s
      BY <1>5 DEF LastOf
    <3>3. \A k \in ((i + 1) + 1)..Len(q) : r[k - 1] = q[k] /\ r[k - 1].from # s
      BY <1>1, <3>1, <3>2
    <3> QED
      BY <3>3
  <2> QED
    BY <1>5, <2>1, <2>2 DEF Numbered, LastOf
<1>6. ASSUME \A i \in 1..Len(r) : r[i].from # s
      PROVE  m = first
  <2>1. \A k \in 2..Len(q) : q[k].from # s
    <3>1. \A k \in 2..Len(q) : k - 1 \in 1..Len(r) /\ (k - 1) + 1 = k
      BY <1>1
    <3>2. \A k \in 2..Len(q) : r[k - 1] = q[k]
      BY <1>1, <3>1
    <3> HIDE DEF r
    <3> QED
      BY <1>6, <3>1, <3>2
  <2>2. CASE q[1].from = s
    <3>1. 1 \in 1..Len(q) /\ LastOf(q, s, 1)
      BY <1>1, <2>1, <2>2 DEF LastOf
    <3> QED
      BY <1>2, <2>2, <3>1 DEF Numbered
  <2>3. CASE q[1].from # s
    <3>1. \A k \in 1..Len(q) : q[k].from # s
      BY <1>1, <2>1, <2>3
    <3> QED
      BY <2>3, <3>1 DEF Numbered
  <2> QED
    BY <2>2, <2>3
<1>7. Numbered(r, s, first, m)
  BY <1>3, <1>4, <1>5, <1>6 DEF Numbered
<1> QED
  BY <1>1, <1>2, <1>7 DEF r

-----------------------------------------------------------------------------
\* InOrder holds at first.
LEMMA InOrderStart == LanesInit => InOrder
<1> SUFFICES ASSUME LanesInit PROVE InOrder
  OBVIOUS
<1>1. urgent = <<>> /\ bulk = <<>> /\ writer = "burst"
  BY DEF LanesInit
<1>2. \A s \in Senders : Numbered(LaneFrames(s), s, NextInLane(s), accepted[s])
  BY <1>1, EmptyNumbered DEF LaneFrames, NextInLane, Held, LanesInit
<1> QED
  BY <1>1, <1>2 DEF InOrder, Held

\* A frame queued takes its sender's next number.
LEMMA PutInOrder ==
    ASSUME LanesInv, InOrder, NEW s \in Senders, Put(s)
    PROVE  InOrder'
<1> SUFFICES ASSUME writer # "stopped" PROVE InOrder'
  BY DEF Put, writerVars, InOrder
<1> DEFINE f == [from |-> s, number |-> accepted[s]]
<1>1. f \in Frames /\ f.from = s /\ f.number = accepted[s]
  BY FramesMade DEF LanesInv
<1> HIDE DEF f
<1>2. /\ urgent \in Seq(Frames) /\ bulk \in Seq(Frames)
      /\ accepted \in [Senders -> 0..Numbers-1]
  BY DEF LanesInv, LanesTypeOK
<1>3. /\ UNCHANGED <<writer, frame, written>>
      /\ accepted' = [accepted EXCEPT ![s] = Following(accepted[s])]
      /\ \/ LaneOf(s) = "bulk" /\ bulk' = Append(bulk, f) /\ urgent' = urgent
         \/ LaneOf(s) = "urgent" /\ urgent' = Append(urgent, f) /\ bulk' = bulk
  BY DEF Put, writerVars, Following, f
<1>4. \A q \in Seq(Frames) : \A i \in 1..Len(Append(q, f)) :
          \/ i \in 1..Len(q) /\ Append(q, f)[i] = q[i]
          \/ Append(q, f)[i] = f
  BY <1>1
<1>5. /\ \A i \in 1..Len(bulk') : LaneOf(bulk'[i].from) = "bulk"
      /\ \A i \in 1..Len(urgent') : LaneOf(urgent'[i].from) = "urgent"
  <2>1. CASE LaneOf(s) = "bulk" /\ bulk' = Append(bulk, f) /\ urgent' = urgent
    BY <1>1, <1>2, <1>4, <2>1 DEF InOrder
  <2>2. CASE LaneOf(s) = "urgent" /\ urgent' = Append(urgent, f) /\ bulk' = bulk
    BY <1>1, <1>2, <1>4, <2>2 DEF InOrder
  <2> QED
    BY <1>3, <2>1, <2>2
<1>6. ASSUME NEW u \in Senders
      PROVE  Numbered(LaneFrames(u)', u, NextInLane(u)', accepted'[u])
  <2>1. NextInLane(u)' = NextInLane(u)
    BY <1>3 DEF NextInLane, Held
  <2>2. Numbered(LaneFrames(u), u, NextInLane(u), accepted[u]) /\ LaneFrames(u) \in Seq(Frames)
    BY <1>2 DEF InOrder, LaneFrames
  <2>3. CASE u = s
    <3>1. LaneFrames(s)' = Append(LaneFrames(s), f) /\ accepted'[s] = Following(accepted[s])
      BY <1>2, <1>3 DEF LaneFrames, LaneOf
    <3> QED
      BY <1>1, <2>1, <2>2, <2>3, <3>1, AppendNumbered
  <2>4. CASE u # s
    <3>1. accepted'[u] = accepted[u]
      BY <1>2, <1>3, <2>4
    <3>2. LaneFrames(u)' = LaneFrames(u) \/ LaneFrames(u)' = Append(LaneFrames(u), f)
      BY <1>3 DEF LaneFrames
    <3>3. f.from # u
      BY <1>1, <2>4
    <3>4. Numbered(Append(LaneFrames(u), f), u, NextInLane(u), IF f.from = u THEN Following(accepted[u]) ELSE accepted[u])
      BY <1>1, <2>2, <3>3, AppendNumbered
    <3>5. Numbered(Append(LaneFrames(u), f), u, NextInLane(u), accepted[u])
      BY <3>3, <3>4
    <3> QED
      BY <2>1, <2>2, <3>1, <3>2, <3>5
  <2> QED
    BY <2>3, <2>4
<1> QED
  BY <1>3, <1>5, <1>6 DEF InOrder, Held

\* What the writer takes from a lane is the next of its sender.
LEMMA TakeInOrder ==
    ASSUME LanesInv, InOrder, writer \in {"burst", "urgent", "any"}, TakeUrgent \/ TakeBulk,
           UNCHANGED <<senderVars, written>>
    PROVE  InOrder'
<1>1. /\ urgent \in Seq(Frames) /\ bulk \in Seq(Frames)
      /\ frame' \in Frames /\ frame'.from \in Senders /\ writer' = "writing"
  <2>1. /\ urgent \in Seq(Frames) /\ bulk \in Seq(Frames)
        /\ urgent # <<>> => Head(urgent) \in Frames
        /\ bulk # <<>> => Head(bulk) \in Frames
    BY DEF LanesInv, LanesTypeOK
  <2>2. frame' \in Frames /\ writer' = "writing"
    BY <2>1 DEF TakeUrgent, TakeBulk
  <2> QED
    BY <2>1, <2>2 DEF Frames
<1>2. \A q \in Seq(Frames) : q # <<>> =>
          /\ Len(q) \in Nat /\ 1 \in 1..Len(q) /\ Head(q) = q[1]
          /\ \A i \in 1..Len(Tail(q)) : i + 1 \in 1..Len(q) /\ Tail(q)[i] = q[i + 1]
  OBVIOUS
<1>3. /\ \A i \in 1..Len(bulk) : LaneOf(bulk[i].from) = "bulk"
      /\ \A i \in 1..Len(urgent) : LaneOf(urgent[i].from) = "urgent"
      /\ \A s \in Senders : Numbered(LaneFrames(s), s, written[s], accepted[s])
  BY DEF InOrder, NextInLane, Held
<1>4. /\ \A i \in 1..Len(bulk') : LaneOf(bulk'[i].from) = "bulk"
      /\ \A i \in 1..Len(urgent') : LaneOf(urgent'[i].from) = "urgent"
  <2>1. CASE TakeUrgent
    BY <1>1, <1>2, <1>3, <2>1 DEF TakeUrgent
  <2>2. CASE TakeBulk
    BY <1>1, <1>2, <1>3, <2>2 DEF TakeBulk
  <2> QED
    BY <2>1, <2>2
<1>5. ASSUME NEW s \in Senders
      PROVE  /\ Held(s)' => frame'.number = written'[s]
             /\ Numbered(LaneFrames(s)', s, NextInLane(s)', accepted'[s])
  <2>0. written' = written /\ accepted' = accepted
    BY DEF senderVars
  <2>1. NextInLane(s)' = IF frame'.from = s THEN Following(written[s]) ELSE written[s]
    BY <1>1, <2>0 DEF NextInLane, Held
  <2>2. CASE /\ LaneFrames(s) # <<>> /\ LaneFrames(s) \in Seq(Frames)
             /\ frame' = Head(LaneFrames(s)) /\ LaneFrames(s)' = Tail(LaneFrames(s))
    BY <1>3, <2>0, <2>1, <2>2, TailNumbered DEF Held
  <2>3. CASE frame'.from # s /\ LaneFrames(s)' = LaneFrames(s)
    BY <1>3, <2>0, <2>1, <2>3 DEF Held
  <2>4. CASE TakeUrgent
    <3>1. LaneOf(frame'.from) = "urgent"
      BY <1>1, <1>2, <1>3, <2>4 DEF TakeUrgent
    <3> QED
      BY <1>1, <2>2, <2>3, <2>4, <3>1 DEF TakeUrgent, LaneFrames, LaneOf
  <2>5. CASE TakeBulk
    <3>1. LaneOf(frame'.from) = "bulk"
      BY <1>1, <1>2, <1>3, <2>5 DEF TakeBulk
    <3> QED
      BY <1>1, <2>2, <2>3, <2>5, <3>1 DEF TakeBulk, LaneFrames, LaneOf
  <2> QED
    BY <2>4, <2>5
<1> QED
  BY <1>1, <1>4, <1>5 DEF InOrder

\* A written frame counts for its sender alone.
LEMMA WriteInOrder ==
    ASSUME LanesInv, InOrder, Write
    PROVE  InOrder'
<1>1. /\ frame \in Frames /\ frame.from \in Senders
      /\ written \in [Senders -> 0..Numbers-1]
  BY DEF LanesInv, LanesTypeOK, Write, Frames
<1>2. /\ writer = "writing" /\ writer' = "burst"
      /\ written' = [written EXCEPT ![frame.from] = Following(written[frame.from])]
      /\ UNCHANGED <<urgent, bulk, accepted>>
  BY <1>1 DEF Write, Following, senderVars, laneVars
<1>3. \A s \in Senders : NextInLane(s)' = NextInLane(s)
  BY <1>1, <1>2 DEF NextInLane, Held
<1>4. \A s \in Senders : ~Held(s)' /\ LaneFrames(s)' = LaneFrames(s)
  BY <1>2 DEF Held, LaneFrames
<1> QED
  BY <1>2, <1>3, <1>4 DEF InOrder

\* Every step keeps it.
LEMMA InOrderStep ==
    ASSUME LanesInv, InOrder, [LanesNext]_lanesVars
    PROVE  InOrder'
<1>1. CASE UNCHANGED <<laneVars, writer, frame, written, accepted>>
  BY <1>1 DEF InOrder, Held, NextInLane, LaneFrames, laneVars
<1>2. ASSUME NEW s \in Senders, Offer(s) \/ Unblock(s)
      PROVE  InOrder'
  BY <1>1, <1>2, PutInOrder DEF Offer, Unblock, writerVars
<1>3. CASE Select
  <2>1. CASE TakeUrgent \/ TakeBulk
    BY <1>3, <2>1, TakeInOrder DEF Select, SelectBurst, SelectUrgent, SelectAny, TakeUrgent, TakeBulk,
       Proceed
  <2>2. ASSUME NEW to \in {"urgent", "any", "stopped"}, Proceed(to), writer \in {"burst", "urgent", "any"}
        PROVE  InOrder'
    <3>1. UNCHANGED <<urgent, bulk, frame, written, accepted>>
      BY <1>3, <2>2 DEF Proceed, Select, senderVars, laneVars
    <3> QED
      BY <2>2, <3>1 DEF InOrder, Held, NextInLane, LaneFrames, Proceed
  <2> QED
    BY <1>3, <2>1, <2>2 DEF Select, SelectBurst, SelectUrgent, SelectAny
<1>4. CASE WriteFails
  BY <1>4 DEF WriteFails, InOrder
<1>5. CASE Close
  BY <1>1, <1>5 DEF Close, senderVars, writerVars
<1>6. CASE UNCHANGED lanesVars
  BY <1>1, <1>6 DEF lanesVars, senderVars, writerVars
<1> QED
  BY <1>2, <1>3, <1>4, <1>5, <1>6, WriteInOrder DEF LanesNext

\* For any senders, lane sizes and bursts: what one goroutine sends is written in
\* the order it sent it, without a gap (send, nextFrame).
THEOREM SendersKeepOrder == LanesSpec => WrittenInOrder
<1>1. ASSUME LanesInv, InOrder, [LanesNext]_lanesVars
      PROVE  [\A s \in Senders :
                written'[s] # written[s] => frame = [from |-> s, number |-> written[s]]]_lanesVars
  <2> SUFFICES ASSUME NEW s \in Senders, written'[s] # written[s]
               PROVE  frame = [from |-> s, number |-> written[s]]
    OBVIOUS
  <2>1. Write
    BY <1>1 DEF LanesNext, Offer, Unblock, Put, Select, WriteFails, Close, lanesVars, senderVars,
       writerVars, laneVars
  <2>2. frame \in Frames /\ frame.from = s /\ writer = "writing"
    BY <1>1, <2>1 DEF Write, LanesInv, LanesTypeOK
  <2>3. frame.number = written[s]
    BY <1>1, <2>2 DEF InOrder, Held
  <2> QED
    BY <2>2, <2>3 DEF Frames
<1>2. LanesSpec => [](LanesInv /\ InOrder)
  BY InOrderStart, InOrderStep, LanesInvariant, PTL DEF LanesSpec
<1> QED
  BY <1>1, <1>2, PTL DEF LanesSpec, WrittenInOrder

-----------------------------------------------------------------------------
(* The agent's streams.  The budget of a session counts its input in three places,
   what waits, what the read loop reserved and what the writer holds; and the
   tunnels stay apart because pump waits for every goroutine it started, and each
   is off the table before it ends.                                            *)

\* Where a stream is, and what it can have then.
PhaseInv ==
    \A i \in Ids :
        /\ i \in table => main[i] \in {"calling", "reading", "sending", "leaving"}
        /\ main[i] \in {"none", "spawned", "calling", "gone"} => stdin[i] = NoInput
        /\ report[i] # "none" => main[i] = "leaving"
        /\ asked[i] = "nothing" => main[i] = "none"

\* The inductive invariant.
AgentInv ==
    /\ AgentTypeOK /\ InputBudgetExact /\ NoStreamOutlivesTunnel /\ CutBodyIsTold
    /\ PhaseInv

\* A push in progress is told apart from none.
LEMMA PushApart ==
    \A i \in Ids, n \in Sizes : [about |-> i, size |-> n] # NoPush
<1> SUFFICES ASSUME NEW i \in Ids, NEW n \in Sizes, [about |-> i, size |-> n] = NoPush
             PROVE  FALSE
  OBVIOUS
<1>1. DOMAIN [about |-> i, size |-> n] = {"about", "size"} /\ DOMAIN NoPush = {"about"}
  BY DEF NoPush
<1> QED
  BY <1>1

\* Where the goroutine that feeds a session is.
StdinType == [at : {"none", "taking", "holding", "writing", "done"}, size : Sizes \cup {0}]

\* What it has taken and not yet released.
HeldOf(i) == IF stdin[i].at = "holding" THEN stdin[i].size ELSE 0

\* What the read loop has reserved and not yet queued.
ReservedOf(i) == IF pushing # NoPush /\ pushing.about = i THEN pushing.size ELSE 0

\* The parts of the budget are numbers.
LEMMA BudgetParts ==
    ASSUME AgentTypeOK, NEW i \in Ids
    PROVE  /\ waiting[i] \in Seq(Sizes) /\ waiting[i] \in Seq(Nat) /\ Total(waiting[i]) \in Nat
           /\ stdin[i].at \in {"none", "taking", "holding", "writing", "done"}
           /\ stdin[i].size \in Nat /\ HeldOf(i) \in Nat
           /\ ReservedOf(i) \in Nat /\ queued[i] \in Nat
<1>1. waiting[i] \in Seq(Sizes) /\ queued[i] \in Nat /\ stdin[i] \in StdinType
      /\ pushing \in {NoPush} \cup [about : Ids, size : Sizes]
  BY DEF AgentTypeOK, StdinType
<1>2. waiting[i] \in Seq(Nat)
  <2>1. \A k \in 1..Len(waiting[i]) : waiting[i][k] \in Nat
    BY <1>1, ElementOfSeq, InputBounds
  <2> QED
    BY <1>1, <2>1, SeqOver
<1>3. Total(waiting[i]) \in Nat
  BY <1>2, TotalNat
<1>4. stdin[i].at \in {"none", "taking", "holding", "writing", "done"} /\ stdin[i].size \in Nat
  <2>1. stdin[i].at \in {"none", "taking", "holding", "writing", "done"} /\ stdin[i].size \in Sizes \cup {0}
    BY <1>1 DEF StdinType
  <2>2. Sizes \subseteq Nat
    BY InputBounds
  <2>3. \A n \in Sizes \cup {0} : n \in Nat
    BY <2>2
  <2>4. stdin[i].size \in Nat
    BY <2>1, <2>3
  <2> QED
    BY <2>1, <2>4
<1>5. pushing # NoPush => pushing.size \in Nat
  BY <1>1, InputBounds
<1>6. HeldOf(i) \in Nat /\ ReservedOf(i) \in Nat
  BY <1>4, <1>5 DEF HeldOf, ReservedOf
<1> QED
  BY <1>1, <1>2, <1>3, <1>4, <1>6

\* It holds before the first dial.
LEMMA AgentStart == AgentInit => AgentInv
<1> SUFFICES ASSUME AgentInit PROVE AgentInv
  OBVIOUS
<1> USE DEF AgentInit, Fresh
<1>1. <<>> \in Seq(Sizes) /\ Len(<<>>) = 0 /\ Total(<<>>) = 0
  BY EmptySeq, TotalEmpty
<1>2. AgentTypeOK
  <2>1. backoff \in MinBackoff..MaxBackoff
    BY BackoffBounds
  <2>2. stdin \in [Ids -> StdinType] /\ queued \in [Ids -> Nat] /\ waiting \in [Ids -> Seq(Sizes)]
    BY <1>1 DEF NoInput, StdinType
  <2> QED
    BY <2>1, <2>2 DEF AgentTypeOK, StdinType
<1>3. InputBudgetExact
  BY <1>1, InputBounds DEF InputBudgetExact, NoInput
<1>4. NoStreamOutlivesTunnel /\ CutBodyIsTold /\ PhaseInv
  BY DEF NoStreamOutlivesTunnel, CutBodyIsTold, PhaseInv, AtWork
<1> QED
  BY <1>2, <1>3, <1>4 DEF AgentInv

\* Every step keeps the types.
LEMMA AgentTypes ==
    ASSUME AgentTypeOK, InputBudgetExact, AgentNext
    PROVE  AgentTypeOK'
<1> USE DEF AgentTypeOK
<1>1. CASE Connect
  BY <1>1 DEF Connect, streamVars
<1>2. CASE DialFails
  BY <1>2 DEF DialFails, After, streamVars
<1>3. CASE EndPump
  BY <1>3 DEF EndPump
<1>4. CASE PumpReturns
  BY <1>4, BackoffBounds DEF PumpReturns, After, Fresh
<1>5. CASE Redial
  BY <1>5, BackoffBounds DEF Redial, streamVars
<1>6. CASE Stop
  BY <1>6 DEF Stop, streamVars
<1>7. CASE Queue
  <2>1. PICK i \in Ids :
        /\ pushing # NoPush /\ pushing.about = i
        /\ pushing' = NoPush
        /\ \/ /\ waiting' = [waiting EXCEPT ![i] = Append(@, pushing.size)]
              /\ UNCHANGED <<queued, shut>>
           \/ /\ queued' = [queued EXCEPT ![i] = @ - pushing.size]
              /\ shut' \in {shut, [shut EXCEPT ![i] = "backlog"]}
              /\ UNCHANGED waiting
        /\ UNCHANGED <<runVars, table, asked, main, stdin, socket, report>>
    BY <1>7 DEF Queue
  <2>2. pushing.size \in Sizes
    BY <2>1
  <2>3. waiting' \in [Ids -> Seq(Sizes)]
    <3>1. Append(waiting[i], pushing.size) \in Seq(Sizes)
      BY <2>2, AppendProperties
    <3> QED
      BY <2>1, <3>1
  <2>4. queued' \in [Ids -> Nat]
    <3>1. queued[i] = Total(waiting[i]) + HeldOf(i) + ReservedOf(i) /\ ReservedOf(i) = pushing.size
      BY <2>1 DEF InputBudgetExact, HeldOf, ReservedOf
    <3>2. queued[i] - pushing.size \in Nat
      BY <3>1, BudgetParts
    <3> QED
      BY <2>1, <3>2
  <2>5. shut' \in [Ids -> {"open", "asked", "backlog"}]
    BY <2>1
  <2> QED
    BY <2>1, <2>3, <2>4, <2>5 DEF runVars
<1>8. ASSUME NEW i \in Ids, ReadOpen(i) \/ ReadClose(i) PROVE AgentTypeOK'
  <2>1. CASE ReadOpen(i)
    BY <2>1 DEF ReadOpen, runVars
  <2>2. CASE ReadClose(i)
    BY <2>2 DEF ReadClose, runVars
  <2> QED
    BY <1>8, <2>1, <2>2
<1>9. ASSUME NEW i \in Ids, NEW n \in Sizes, Reserve(i, n) PROVE AgentTypeOK'
  <2>1. n \in Nat /\ queued[i] + n \in Nat
    BY InputBounds
  <2>2. queued' \in [Ids -> Nat] /\ shut' \in [Ids -> {"open", "asked", "backlog"}]
    BY <1>9, <2>1 DEF Reserve
  <2>3. pushing' \in {NoPush} \cup [about : Ids, size : Sizes]
    BY <1>9 DEF Reserve
  <2>4. UNCHANGED <<runVars, table, asked, main, waiting, stdin, socket, report>>
    BY <1>9 DEF Reserve
  <2> QED
    BY <2>2, <2>3, <2>4 DEF runVars
<1>10. ASSUME NEW i \in Ids, AddStream(i) \/ CallFails(i) \/ ReadChunk(i) PROVE AgentTypeOK'
  <2>1. CASE AddStream(i)
    BY <2>1 DEF AddStream, runVars
  <2>2. CASE CallFails(i)
    BY <2>2 DEF CallFails, runVars
  <2>3. CASE ReadChunk(i)
    BY <2>3 DEF ReadChunk, runVars
  <2> QED
    BY <1>10, <2>1, <2>2, <2>3
<1>11. ASSUME NEW i \in Ids, Called(i) PROVE AgentTypeOK'
  <2>1. stdin' \in [Ids -> StdinType]
    <3>1. stdin \in [Ids -> StdinType] /\ \E x \in {"taking", "none"} : stdin' = [stdin EXCEPT ![i].at = x]
      BY <1>11 DEF Called, StdinType
    <3>2. PICK x \in {"none", "taking", "done"} : stdin' = [stdin EXCEPT ![i].at = x]
      BY <3>1
    <3>3. [stdin[i] EXCEPT !.at = x] \in StdinType
      <4>1. stdin[i] \in StdinType
        BY <3>1
      <4>2. PICK a \in {"none", "taking", "holding", "writing", "done"}, b \in Sizes \cup {0} :
                stdin[i] = [at |-> a, size |-> b]
        BY <4>1 DEF StdinType
      <4>3. [stdin[i] EXCEPT !.at = x] = [at |-> x, size |-> b]
        BY <4>2
      <4> QED
        BY <4>3 DEF StdinType
    <3> HIDE DEF StdinType
    <3>4. stdin' = [stdin EXCEPT ![i] = [stdin[i] EXCEPT !.at = x]]
      BY <3>2
    <3> QED
      BY <3>1, <3>3, <3>4
  <2> QED
    BY <1>11, <2>1 DEF Called, runVars, StdinType
<1>12. ASSUME NEW i \in Ids, ReadEnds(i) PROVE AgentTypeOK'
  <2>1. Explained(i) \in {"clean", "failed", "backlog", "stopping"}
    BY DEF Explained
  <2> QED
    BY <1>12, <2>1 DEF ReadEnds, runVars
<1>13. ASSUME NEW i \in Ids, SendChunk(i) PROVE AgentTypeOK'
  BY <1>13 DEF SendChunk, runVars
<1>14. ASSUME NEW i \in Ids, Leave(i) PROVE AgentTypeOK'
  <2>1. <<>> \in Seq(Sizes)
    BY EmptySeq
  <2> QED
    BY <1>14, <2>1 DEF Leave, runVars, NoInput
<1>15. ASSUME NEW i \in Ids, TakeInput(i) PROVE AgentTypeOK'
  <2>1. Head(waiting[i]) \in Sizes /\ Tail(waiting[i]) \in Seq(Sizes)
    BY <1>15, HeadTailProperties DEF TakeInput
  <2> QED
    BY <1>15, <2>1 DEF TakeInput, runVars
<1>16. ASSUME NEW i \in Ids, GiveBack(i) PROVE AgentTypeOK'
  <2>1. queued[i] - stdin[i].size \in Nat
    <3>1. queued[i] = Total(waiting[i]) + HeldOf(i) + ReservedOf(i) /\ HeldOf(i) = stdin[i].size
      BY <1>16 DEF InputBudgetExact, HeldOf, ReservedOf, GiveBack
    <3> QED
      BY <3>1, BudgetParts
  <2> QED
    BY <1>16, <2>1 DEF GiveBack, runVars
<1>17. ASSUME NEW i \in Ids, WriteInput(i) \/ InputEnds(i) PROVE AgentTypeOK'
  <2>1. stdin' \in [Ids -> StdinType]
    <3>1. stdin \in [Ids -> StdinType] /\ \E x \in {"taking", "done"} : stdin' = [stdin EXCEPT ![i].at = x]
      BY <1>17 DEF WriteInput, InputEnds, StdinType
    <3>2. PICK x \in {"none", "taking", "done"} : stdin' = [stdin EXCEPT ![i].at = x]
      BY <3>1
    <3>3. [stdin[i] EXCEPT !.at = x] \in StdinType
      <4>1. stdin[i] \in StdinType
        BY <3>1
      <4>2. PICK a \in {"none", "taking", "holding", "writing", "done"}, b \in Sizes \cup {0} :
                stdin[i] = [at |-> a, size |-> b]
        BY <4>1 DEF StdinType
      <4>3. [stdin[i] EXCEPT !.at = x] = [at |-> x, size |-> b]
        BY <4>2
      <4> QED
        BY <4>3 DEF StdinType
    <3> HIDE DEF StdinType
    <3>4. stdin' = [stdin EXCEPT ![i] = [stdin[i] EXCEPT !.at = x]]
      BY <3>2
    <3> QED
      BY <3>1, <3>3, <3>4
  <2> QED
    BY <1>17, <2>1 DEF WriteInput, InputEnds, runVars, StdinType
<1>18. ASSUME NEW i \in Ids, SocketEnds(i) \/ HangUp(i) PROVE AgentTypeOK'
  <2>1. CASE SocketEnds(i)
    BY <2>1 DEF SocketEnds, runVars
  <2>2. CASE HangUp(i)
    BY <2>2 DEF HangUp, runVars
  <2> QED
    BY <1>18, <2>1, <2>2
<1> QED
  BY <1>1, <1>2, <1>3, <1>4, <1>5, <1>6, <1>7, <1>8, <1>9, <1>10, <1>11, <1>12, <1>13,
     <1>14, <1>15, <1>16, <1>17, <1>18 DEF AgentNext, OpenStream, Input

\* Every step keeps the phases.
LEMMA AgentPhases ==
    ASSUME AgentTypeOK, PhaseInv, AgentNext
    PROVE  PhaseInv'
<1> USE DEF AgentTypeOK, PhaseInv
<1>1. CASE Connect \/ DialFails \/ Redial \/ Stop
  BY <1>1 DEF Connect, DialFails, Redial, Stop, streamVars
<1>3. CASE EndPump
  BY <1>3 DEF EndPump
<1>4. CASE PumpReturns
  BY <1>4 DEF PumpReturns, Fresh, AtWork
<1>7. CASE Queue
  BY <1>7 DEF Queue
<1>8. ASSUME NEW i \in Ids, ReadOpen(i) PROVE PhaseInv'
  <2>1. UNCHANGED <<table, stdin, report>> /\ main' = [main EXCEPT ![i] = "spawned"]
        /\ main[i] = "none"
        /\ asked' = [asked EXCEPT ![i] = "open"]
    BY <1>8 DEF ReadOpen
  <2> QED
    BY <2>1
<1>9. ASSUME NEW i \in Ids, ReadClose(i) \/ (\E n \in Sizes : Reserve(i, n)) PROVE PhaseInv'
  BY <1>9 DEF Reserve, ReadClose
<1>10. ASSUME NEW i \in Ids, AddStream(i) \/ CallFails(i) \/ ReadChunk(i) PROVE PhaseInv'
  BY <1>10 DEF AddStream, CallFails, ReadChunk
<1>11. ASSUME NEW i \in Ids, Called(i) PROVE PhaseInv'
  BY <1>11 DEF Called
<1>12. ASSUME NEW i \in Ids, ReadEnds(i) PROVE PhaseInv'
  BY <1>12 DEF ReadEnds
<1>13. ASSUME NEW i \in Ids, SendChunk(i) PROVE PhaseInv'
  BY <1>13 DEF SendChunk
<1>14. ASSUME NEW i \in Ids, Leave(i) PROVE PhaseInv'
  BY <1>14 DEF Leave
<1>15. ASSUME NEW i \in Ids, Input(i) PROVE PhaseInv'
  <2>1. stdin[i] # NoInput
    BY <1>15 DEF Input, TakeInput, GiveBack, WriteInput, InputEnds, NoInput
  <2>2. UNCHANGED <<table, main, report, asked>> /\ \A j \in Ids \ {i} : stdin'[j] = stdin[j]
    BY <1>15 DEF Input, TakeInput, GiveBack, WriteInput, InputEnds
  <2> QED
    BY <2>1, <2>2
<1>18. ASSUME NEW i \in Ids, SocketEnds(i) \/ HangUp(i) PROVE PhaseInv'
  BY <1>18 DEF SocketEnds, HangUp
<1> QED
  BY <1>1, <1>3, <1>4, <1>7, <1>8, <1>9, <1>10, <1>11, <1>12, <1>13,
     <1>14, <1>15, <1>18 DEF AgentNext, OpenStream

\* Every step keeps the input budget exact (push, take, release).
LEMMA AgentBudget ==
    ASSUME AgentTypeOK, InputBudgetExact, PhaseInv, AgentNext
    PROVE  InputBudgetExact'
<1> DEFINE Exact(i) == /\ queued[i] = Total(waiting[i]) + HeldOf(i) + ReservedOf(i)
                       /\ queued[i] <= InputBytes /\ Len(waiting[i]) <= InputFrames
<1>a. \A i \in Ids : Exact(i)
  BY DEF InputBudgetExact, HeldOf, ReservedOf
<1> SUFFICES ASSUME NEW j \in Ids PROVE Exact(j)'
  BY DEF InputBudgetExact, HeldOf, ReservedOf
<1>u. ASSUME waiting'[j] = waiting[j], queued'[j] = queued[j], HeldOf(j)' = HeldOf(j),
             ReservedOf(j)' = ReservedOf(j)
      PROVE  Exact(j)'
  BY <1>a, <1>u
<1>s. ASSUME UNCHANGED <<waiting, queued, stdin, pushing>> PROVE Exact(j)'
  BY <1>s, <1>u DEF HeldOf, ReservedOf
<1>p. Exact(j) /\ waiting[j] \in Seq(Sizes) /\ waiting[j] \in Seq(Nat) /\ Total(waiting[j]) \in Nat
      /\ HeldOf(j) \in Nat /\ ReservedOf(j) \in Nat /\ queued[j] \in Nat
  BY <1>a, BudgetParts
<1> HIDE DEF Exact
<1>1. CASE Connect \/ DialFails \/ Redial \/ Stop
  BY <1>1, <1>s DEF Connect, DialFails, Redial, Stop, streamVars
<1>3. CASE EndPump \/ PumpReturns
  BY <1>3, <1>s DEF EndPump, PumpReturns
<1>7. CASE Queue
  <2>1. PICK i \in Ids :
        /\ pushing # NoPush /\ pushing.about = i
        /\ pushing' = NoPush
        /\ \/ /\ Len(waiting[i]) < InputFrames
              /\ waiting' = [waiting EXCEPT ![i] = Append(@, pushing.size)]
              /\ UNCHANGED <<queued, shut>>
           \/ /\ queued' = [queued EXCEPT ![i] = @ - pushing.size]
              /\ UNCHANGED waiting
        /\ UNCHANGED stdin
    BY <1>7 DEF Queue
  <2>2. HeldOf(j)' = HeldOf(j) /\ ReservedOf(j)' = 0
    BY <2>1 DEF HeldOf, ReservedOf
  <2>3. CASE j # i
    <3>1. ReservedOf(j) = 0 /\ waiting'[j] = waiting[j] /\ queued'[j] = queued[j]
      BY <2>1, <2>3 DEF ReservedOf, AgentTypeOK
    <3> QED
      BY <1>u, <2>2, <3>1
  <2>4. CASE j = i
    <3> DEFINE n == ReservedOf(j)
    <3>1. pushing.size = n /\ n \in Nat
      BY <1>p, <2>1, <2>4 DEF ReservedOf
    <3>2. CASE waiting' = [waiting EXCEPT ![j] = Append(@, pushing.size)] /\ queued' = queued
               /\ Len(waiting[j]) < InputFrames
      <4>1. waiting'[j] = Append(waiting[j], n) /\ queued'[j] = queued[j]
        BY <3>1, <3>2 DEF AgentTypeOK
      <4>2. Total(waiting'[j]) = Total(waiting[j]) + n
        BY <1>p, <3>1, <4>1, TotalAppend
      <4>3. Len(waiting'[j]) = Len(waiting[j]) + 1 /\ Len(waiting[j]) \in Nat
        BY <1>p, <4>1, AppendProperties, LenProperties
      <4>4. queued'[j] = Total(waiting'[j]) + HeldOf(j)' + ReservedOf(j)'
        BY <1>p, <2>2, <4>1, <4>2 DEF Exact
      <4>5. Len(waiting'[j]) <= InputFrames
        BY <3>2, <4>3, InputBounds
      <4> QED
        BY <1>p, <4>1, <4>4, <4>5 DEF Exact
    <3>3. CASE queued' = [queued EXCEPT ![j] = @ - pushing.size] /\ waiting' = waiting
      <4>1. queued'[j] = queued[j] - n /\ waiting'[j] = waiting[j]
        BY <3>1, <3>3 DEF AgentTypeOK
      <4>2. queued[j] = Total(waiting[j]) + HeldOf(j) + n /\ queued[j] <= InputBytes
        BY <1>p DEF Exact
      <4>3. queued'[j] = Total(waiting'[j]) + HeldOf(j)' + ReservedOf(j)'
        BY <1>p, <2>2, <4>1, <4>2
      <4>4. queued'[j] <= InputBytes
        BY <1>p, <3>1, <4>1, <4>2, InputBounds
      <4> QED
        BY <1>p, <4>1, <4>3, <4>4 DEF Exact
    <3> QED
      BY <2>1, <2>4, <3>2, <3>3
  <2> QED
    BY <2>3, <2>4
<1>8. ASSUME NEW i \in Ids, ReadOpen(i) \/ ReadClose(i) PROVE Exact(j)'
  BY <1>8, <1>s DEF ReadOpen, ReadClose
<1>9. ASSUME NEW i \in Ids, NEW n \in Sizes, Reserve(i, n) PROVE Exact(j)'
  <2>1. pushing = NoPush /\ UNCHANGED <<waiting, stdin>> /\ n \in Nat
    BY <1>9, InputBounds DEF Reserve, Reading
  <2>2. HeldOf(j)' = HeldOf(j) /\ ReservedOf(j) = 0
    BY <2>1 DEF HeldOf, ReservedOf
  <2>3. CASE queued[i] + n > InputBytes
    BY <1>9, <1>s, <2>3, <2>1 DEF Reserve
  <2>4. CASE ~(queued[i] + n > InputBytes)
    <3>1. queued' = [queued EXCEPT ![i] = @ + n] /\ pushing' = [about |-> i, size |-> n]
      BY <1>9, <2>4 DEF Reserve
    <3>2. pushing' # NoPush /\ pushing'.about = i /\ pushing'.size = n
      BY <3>1, PushApart
    <3>3. CASE j = i
      <4>1. queued'[j] = queued[j] + n /\ ReservedOf(j)' = n /\ waiting'[j] = waiting[j]
        BY <2>1, <3>1, <3>2, <3>3 DEF ReservedOf, AgentTypeOK
      <4>2. queued'[j] <= InputBytes
        BY <1>p, <2>1, <2>4, <3>3, <4>1, InputBounds
      <4>3. queued'[j] = Total(waiting'[j]) + HeldOf(j)' + ReservedOf(j)'
        BY <1>p, <2>1, <2>2, <4>1 DEF Exact
      <4> QED
        BY <1>p, <4>1, <4>2, <4>3 DEF Exact
    <3>4. CASE j # i
      <4>1. queued'[j] = queued[j] /\ ReservedOf(j)' = 0 /\ waiting'[j] = waiting[j]
        BY <2>1, <3>1, <3>2, <3>4 DEF ReservedOf, AgentTypeOK
      <4> QED
        BY <1>u, <2>2, <4>1
    <3> QED
      BY <3>3, <3>4
  <2> QED
    BY <2>3, <2>4
<1>10. ASSUME NEW i \in Ids, AddStream(i) \/ CallFails(i) \/ ReadChunk(i) \/ ReadEnds(i) \/ SendChunk(i)
       PROVE  Exact(j)'
  BY <1>10, <1>s DEF AddStream, CallFails, ReadChunk, ReadEnds, SendChunk
<1>11. ASSUME NEW i \in Ids, Called(i) PROVE Exact(j)'
  <2>1. stdin[i] = NoInput /\ UNCHANGED <<waiting, queued, pushing>>
    BY <1>11 DEF Called, PhaseInv
  <2>2. PICK x \in {"taking", "none"} : stdin' = [stdin EXCEPT ![i].at = x]
    BY <1>11 DEF Called
  <2>3. HeldOf(j)' = HeldOf(j)
    <3>1. CASE j = i
      <4>1. stdin[j].at = "none"
        BY <2>1, <3>1 DEF NoInput
      <4>2. stdin'[j].at = x
        BY <2>2, <3>1 DEF AgentTypeOK
      <4> QED
        BY <4>1, <4>2 DEF HeldOf
    <3>2. CASE j # i
      BY <2>2, <3>2 DEF HeldOf, AgentTypeOK
    <3> QED
      BY <3>1, <3>2
  <2> QED
    BY <1>u, <2>1, <2>3 DEF ReservedOf
<1>14. ASSUME NEW i \in Ids, Leave(i) PROVE Exact(j)'
  <2>1. /\ pushing' = IF pushing # NoPush /\ pushing.about = i THEN NoPush ELSE pushing
        /\ waiting' = [waiting EXCEPT ![i] = <<>>] /\ queued' = [queued EXCEPT ![i] = 0]
        /\ stdin' = [stdin EXCEPT ![i] = NoInput]
    BY <1>14 DEF Leave
  <2>2. CASE j = i
    <3>1. waiting'[j] = <<>> /\ queued'[j] = 0 /\ stdin'[j] = NoInput
      BY <2>1, <2>2 DEF AgentTypeOK
    <3>2. HeldOf(j)' = 0
      BY <3>1 DEF HeldOf, NoInput
    <3>3. ReservedOf(j)' = 0
      BY <2>1, <2>2 DEF ReservedOf
    <3>4. Total(<<>>) = 0 /\ Len(<<>>) = 0
      BY TotalEmpty, EmptySeq
    <3> QED
      BY <3>1, <3>2, <3>3, <3>4, InputBounds DEF Exact
  <2>3. CASE j # i
    <3>1. waiting'[j] = waiting[j] /\ queued'[j] = queued[j] /\ stdin'[j] = stdin[j]
      BY <2>1, <2>3 DEF AgentTypeOK
    <3>2. ReservedOf(j)' = ReservedOf(j)
      BY <2>1, <2>3 DEF ReservedOf
    <3> QED
      BY <1>u, <3>1, <3>2 DEF HeldOf
  <2> QED
    BY <2>2, <2>3
<1>15. ASSUME NEW i \in Ids, TakeInput(i) PROVE Exact(j)'
  <2>1. /\ stdin[i].at = "taking" /\ waiting[i] # <<>> /\ UNCHANGED <<queued, pushing>>
        /\ stdin' = [stdin EXCEPT ![i] = [at |-> "holding", size |-> Head(waiting[i])]]
        /\ waiting' = [waiting EXCEPT ![i] = Tail(@)]
    BY <1>15 DEF TakeInput
  <2>2. CASE j = i
    <3>1. waiting'[j] = Tail(waiting[j]) /\ HeldOf(j)' = Head(waiting[j]) /\ HeldOf(j) = 0
          /\ ReservedOf(j)' = ReservedOf(j) /\ queued'[j] = queued[j]
      BY <2>1, <2>2 DEF AgentTypeOK, HeldOf, ReservedOf
    <3>2. Total(waiting[j]) = Head(waiting[j]) + Total(Tail(waiting[j]))
      BY <1>p, <2>1, <2>2, TotalTail
    <3>3. Len(Tail(waiting[j])) = Len(waiting[j]) - 1 /\ Len(waiting[j]) \in Nat
          /\ Head(waiting[j]) \in Nat /\ Tail(waiting[j]) \in Seq(Nat)
      BY <1>p, <2>1, <2>2, HeadTailProperties, LenProperties
    <3>4. Total(Tail(waiting[j])) \in Nat
      BY <3>3, TotalNat
    <3>5. queued'[j] = Total(waiting'[j]) + HeldOf(j)' + ReservedOf(j)'
      BY <1>p, <3>1, <3>2, <3>3, <3>4 DEF Exact
    <3>6. Len(waiting'[j]) <= InputFrames
      BY <1>p, <3>1, <3>3, InputBounds DEF Exact
    <3> QED
      BY <1>p, <3>1, <3>5, <3>6 DEF Exact
  <2>3. CASE j # i
    <3>1. waiting'[j] = waiting[j] /\ stdin'[j] = stdin[j]
      BY <2>1, <2>3 DEF AgentTypeOK
    <3> QED
      BY <1>u, <2>1, <3>1 DEF HeldOf, ReservedOf
  <2> QED
    BY <2>2, <2>3
<1>16. ASSUME NEW i \in Ids, GiveBack(i) PROVE Exact(j)'
  <2>1. /\ stdin[i].at = "holding" /\ UNCHANGED <<waiting, pushing>>
        /\ queued' = [queued EXCEPT ![i] = @ - stdin[i].size]
        /\ stdin' = [stdin EXCEPT ![i] = [at |-> "writing", size |-> 0]]
    BY <1>16 DEF GiveBack
  <2>2. CASE j = i
    <3>1. HeldOf(j) = stdin[j].size /\ HeldOf(j)' = 0 /\ ReservedOf(j)' = ReservedOf(j)
          /\ queued'[j] = queued[j] - HeldOf(j) /\ waiting'[j] = waiting[j]
      BY <2>1, <2>2 DEF HeldOf, ReservedOf, AgentTypeOK
    <3>2. queued'[j] = Total(waiting'[j]) + HeldOf(j)' + ReservedOf(j)'
      BY <1>p, <3>1 DEF Exact
    <3>3. queued'[j] <= InputBytes
      BY <1>p, <3>1, InputBounds DEF Exact
    <3> QED
      BY <1>p, <3>1, <3>2, <3>3 DEF Exact
  <2>3. CASE j # i
    <3>1. queued'[j] = queued[j] /\ stdin'[j] = stdin[j]
      BY <2>1, <2>3 DEF AgentTypeOK
    <3> QED
      BY <1>u, <2>1, <3>1 DEF HeldOf, ReservedOf
  <2> QED
    BY <2>2, <2>3
<1>17. ASSUME NEW i \in Ids, WriteInput(i) \/ InputEnds(i) PROVE Exact(j)'
  <2>1. stdin[i].at \in {"writing", "taking"} /\ UNCHANGED <<waiting, queued, pushing>>
    BY <1>17 DEF WriteInput, InputEnds
  <2>2. PICK x \in {"taking", "done"} : stdin' = [stdin EXCEPT ![i].at = x]
    BY <1>17 DEF WriteInput, InputEnds
  <2>3. HeldOf(j)' = HeldOf(j)
    <3>1. CASE j = i
      <4>1. stdin'[j].at = x
        BY <2>2, <3>1 DEF AgentTypeOK
      <4> QED
        BY <2>1, <3>1, <4>1 DEF HeldOf
    <3>2. CASE j # i
      BY <2>2, <3>2 DEF HeldOf, AgentTypeOK
    <3> QED
      BY <3>1, <3>2
  <2> QED
    BY <1>u, <2>1, <2>3 DEF ReservedOf
<1>18. ASSUME NEW i \in Ids, SocketEnds(i) \/ HangUp(i) PROVE Exact(j)'
  BY <1>18, <1>s DEF SocketEnds, HangUp
<1> QED
  BY <1>1, <1>3, <1>7, <1>8, <1>9, <1>10, <1>11,
     <1>14, <1>15, <1>16, <1>17, <1>18 DEF AgentNext, OpenStream, Input

\* Every step keeps the tunnels apart (pump waits for every goroutine).
LEMMA AgentAlone ==
    ASSUME AgentTypeOK, NoStreamOutlivesTunnel, PhaseInv, AgentNext
    PROVE  NoStreamOutlivesTunnel'
<1> USE DEF NoStreamOutlivesTunnel, AtWork
<1>1. CASE Connect \/ DialFails \/ Redial \/ Stop
  BY <1>1 DEF Connect, DialFails, After, Redial, Stop, streamVars
<1>3. CASE EndPump
  BY <1>3 DEF EndPump
<1>4. CASE PumpReturns
  <2>1. \A i \in Ids : i \notin table
    BY <1>4 DEF PumpReturns, PhaseInv
  <2>2. table' = {}
    BY <1>4, <2>1 DEF PumpReturns, AgentTypeOK
  <2>3. \A i \in Ids : main'[i] = "none"
    BY <1>4 DEF PumpReturns, Fresh
  <2> QED
    BY <2>2, <2>3
<1>7. CASE Queue
  BY <1>7 DEF Queue, runVars
<1>8. ASSUME NEW i \in Ids, ReadOpen(i) \/ ReadClose(i) \/ (\E n \in Sizes : Reserve(i, n))
      PROVE  NoStreamOutlivesTunnel'
  BY <1>8 DEF ReadOpen, ReadClose, Reserve, Reading, runVars
<1>9. ASSUME NEW i \in Ids, AddStream(i) \/ Called(i) \/ CallFails(i) \/ ReadChunk(i) \/ ReadEnds(i)
                            \/ SendChunk(i)
      PROVE  NoStreamOutlivesTunnel'
  BY <1>9 DEF AddStream, Called, CallFails, ReadChunk, ReadEnds, SendChunk, runVars
<1>10. ASSUME NEW i \in Ids, Leave(i) PROVE NoStreamOutlivesTunnel'
  BY <1>10 DEF Leave, runVars
<1>11. ASSUME NEW i \in Ids, Input(i) \/ SocketEnds(i) \/ HangUp(i) PROVE NoStreamOutlivesTunnel'
  BY <1>11 DEF Input, TakeInput, GiveBack, WriteInput, InputEnds, SocketEnds, HangUp, runVars
<1> QED
  BY <1>1, <1>3, <1>4, <1>7, <1>8, <1>9, <1>10, <1>11 DEF AgentNext, OpenStream

\* Every step tells of a cut body (runBodyStream).
LEMMA AgentTells ==
    ASSUME AgentTypeOK, CutBodyIsTold, PhaseInv, NoStreamOutlivesTunnel, AgentNext
    PROVE  CutBodyIsTold'
<1> USE DEF CutBodyIsTold
<1>1. CASE Connect \/ DialFails \/ Redial \/ Stop
  <2>1. run = "serving" => run' = "serving"
    BY <1>1 DEF Connect, DialFails, Redial, Stop
  <2>2. UNCHANGED <<report, socket, shut>> /\ (stopping => stopping')
    BY <1>1 DEF Connect, DialFails, Redial, Stop, streamVars
  <2>3. run \notin {"serving", "closing"} => \A i \in Ids : report[i] = "none"
    BY DEF NoStreamOutlivesTunnel, PhaseInv, AtWork, AgentTypeOK
  <2>4. run = "closing" => run' = "closing"
    BY <1>1 DEF Connect, DialFails, Redial, Stop
  <2> QED
    BY <2>1, <2>2, <2>3, <2>4 DEF Cancelled
<1>3. CASE EndPump
  BY <1>3 DEF EndPump, Cancelled
<1>4. CASE PumpReturns
  <2>1. \A i \in Ids : report'[i] = "none"
    BY <1>4 DEF PumpReturns, PhaseInv, AtWork, AgentTypeOK
  <2> QED
    BY <2>1
<1>7. CASE Queue
  BY <1>7 DEF Queue, runVars, Cancelled, AgentTypeOK
<1>8. ASSUME NEW i \in Ids, ReadOpen(i) \/ ReadClose(i) \/ (\E n \in Sizes : Reserve(i, n))
      PROVE  CutBodyIsTold'
  BY <1>8 DEF ReadOpen, ReadClose, Reserve, runVars, Cancelled, AgentTypeOK
<1>9. ASSUME NEW i \in Ids, AddStream(i) \/ CallFails(i) \/ ReadChunk(i)
      PROVE  CutBodyIsTold'
  BY <1>9 DEF AddStream, CallFails, ReadChunk, runVars, Cancelled
<1>10. ASSUME NEW i \in Ids, Called(i) PROVE CutBodyIsTold'
  <2>1. report[i] = "none"
    BY <1>10 DEF Called, PhaseInv, AgentTypeOK
  <2> QED
    BY <1>10, <2>1 DEF Called, runVars, Cancelled, AgentTypeOK
<1>11. ASSUME NEW i \in Ids, ReadEnds(i) PROVE CutBodyIsTold'
  BY <1>11 DEF ReadEnds, Explained, runVars, Cancelled, AgentTypeOK
<1>12. ASSUME NEW i \in Ids, SendChunk(i) PROVE CutBodyIsTold'
  BY <1>12 DEF SendChunk, runVars, Cancelled, AgentTypeOK
<1>13. ASSUME NEW i \in Ids, Leave(i) PROVE CutBodyIsTold'
  BY <1>13 DEF Leave, runVars, Cancelled, AgentTypeOK
<1>14. ASSUME NEW i \in Ids, Input(i) PROVE CutBodyIsTold'
  BY <1>14 DEF Input, TakeInput, GiveBack, WriteInput, InputEnds, runVars, Cancelled
<1>15. ASSUME NEW i \in Ids, SocketEnds(i) \/ HangUp(i) PROVE CutBodyIsTold'
  BY <1>15 DEF SocketEnds, HangUp, runVars, Cancelled, AgentTypeOK
<1> QED
  BY <1>1, <1>3, <1>4, <1>7, <1>8, <1>9, <1>10, <1>11, <1>12, <1>13, <1>14, <1>15
     DEF AgentNext, OpenStream

\* Every step keeps the invariant.
LEMMA AgentStep == AgentInv /\ [AgentNext]_agentVars => AgentInv'
<1> SUFFICES ASSUME AgentInv, [AgentNext]_agentVars PROVE AgentInv'
  OBVIOUS
<1>1. CASE AgentNext
  BY <1>1, AgentTypes, AgentPhases, AgentBudget, AgentAlone, AgentTells DEF AgentInv
<1>2. CASE UNCHANGED agentVars
  BY <1>2 DEF AgentInv, agentVars, runVars, streamVars, AgentTypeOK, InputBudgetExact,
     NoStreamOutlivesTunnel, CutBodyIsTold, PhaseInv, AtWork, Cancelled
<1> QED
  BY <1>1, <1>2

\* It holds of every reachable state.
LEMMA AgentInvariant == AgentSpec => []AgentInv
BY AgentStart, AgentStep, PTL DEF AgentSpec

\* For any number of streams and any sizes: the input budget of a session counts each
\* byte that waits once, and neither of its bounds is passed (push, take).
THEOREM InputIsExact == AgentSpec => []InputExact
<1>1. AgentInv => InputExact
  BY DEF AgentInv, InputExact
<1> QED
  BY <1>1, AgentInvariant, PTL

\* No stream of one tunnel is at work, or in the table, when the next one is served
\* (Run, pump's deferred calls).
THEOREM TunnelsApart == AgentSpec => []NoStreamOutlivesTunnel
<1>1. AgentInv => NoStreamOutlivesTunnel
  BY DEF AgentInv
<1> QED
  BY <1>1, AgentInvariant, PTL

\* A body that the cluster cut short is never reported as one that ended
\* (runBodyStream).
THEOREM CutIsTold == AgentSpec => []CutBodyIsTold
<1>1. AgentInv => CutBodyIsTold
  BY DEF AgentInv
<1> QED
  BY <1>1, AgentInvariant, PTL
=============================================================================
