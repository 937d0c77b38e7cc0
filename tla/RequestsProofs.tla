--------------------------- MODULE RequestsProofs ----------------------------
(* What a request meets before it is served: the handshake of a tunnel, the login
   throttle, and the register of withdrawn credentials.  They share no state.  *)
EXTENDS TunnelHandshake, LoginThrottle, Revocation, FiniteSetTheorems, TLAPS

-----------------------------------------------------------------------------
(* That the counts of the throttle are exact and its allowance kept, for any
   number of checks, accounts and addresses, any policy and any table size.
   The allowance rests on the counts: a failure that is added must take a check
   out of flight, which it does only because the counter is that of the checks
   that hold the slot and this is one of them.                                 *)

(* The inductive invariant. *)
ThrottleInv == CountsExact /\ AllowanceKept

\* The checks that are counted under a slot.
Held(t) == {x \in Checks : t \in keys[x]}

-----------------------------------------------------------------------------
\* Slots and their sides.
LEMMA SlotSides == \A t \in Slots : t.side \in Sides
BY DEF Slots, Wanted, Overflow, Slot, Sides

LEMMA OverflowIsSlot == \A d \in Sides : Overflow(d) \in Slots /\ Overflow(d).side = d
<1> TAKE d \in Sides
<1>1. Overflow(d) \in Slots
  BY DEF Slots
<1>2. Overflow(d).side = d
  BY DEF Overflow, Slot
<1>3. QED
  BY <1>1, <1>2

LEMMA WantedAreSlots ==
    ASSUME NEW a \in Accounts, NEW s \in Sources
    PROVE  Wanted(a, s) \subseteq Slots
BY DEF Slots

LEMMA CountedAreSlots ==
    ASSUME NEW a \in Accounts, NEW s \in Sources
    PROVE  Counted(a, s) \subseteq Slots
<1> DEFINE roomy(d) == Cardinality(OfSide(d) \ Dropped(a, s)) < Limit
<1>1. Counted(a, s) = {IF t \in tracked \/ roomy(t.side) THEN t ELSE Overflow(t.side) : t \in Wanted(a, s)}
  BY DEF Counted
<1> HIDE DEF roomy
<1>2. QED
  BY <1>1, WantedAreSlots, SlotSides, OverflowIsSlot

\* A check that is counted under a slot is one of finitely many.
LEMMA HeldFinite ==
    ASSUME NEW t
    PROVE  IsFiniteSet(Held(t))
BY ChecksAreFinite, FS_Subset DEF Held

\* What holds a slot is in flight.
LEMMA HeldIsInFlight ==
    ASSUME CountsExact, NEW x \in Checks, NEW t \in keys[x]
    PROVE  t \in Slots /\ inFlight[t] \in Nat \ {0} /\ t \in tracked
<1>1. t \in Slots /\ inFlight[t] \in Nat
  BY DEF CountsExact, ThrottleTypeOK
<1>2. x \in Held(t)
  BY DEF Held
<1>3. Cardinality(Held(t)) # 0
  BY <1>2, HeldFinite, FS_EmptySet
<1>4. inFlight[t] = Cardinality(Held(t))
  BY <1>1 DEF CountsExact, InFlightExact, Held
<1>5. QED
  BY <1>1, <1>3, <1>4 DEF CountsExact, CountsAreTracked

-----------------------------------------------------------------------------
\* The invariant holds at first.
LEMMA ThrottleInitInv == ThrottleInit => ThrottleInv
<1> SUFFICES ASSUME ThrottleInit
             PROVE  ThrottleInv
  OBVIOUS
<1> USE PolicyBounds DEF ThrottleInit
<1>1. ThrottleTypeOK
  BY DEF ThrottleTypeOK
<1>2. InFlightExact
  <2> SUFFICES ASSUME NEW t \in Slots
               PROVE  inFlight[t] = Cardinality({x \in Checks : t \in keys[x]})
    BY DEF InFlightExact
  <2>1. {x \in Checks : t \in keys[x]} = {}
    OBVIOUS
  <2>2. QED
    BY <2>1, FS_EmptySet
<1>3. CountsAreTracked
  BY DEF CountsAreTracked
<1>4. AllowanceKept
  BY DEF AllowanceKept
<1>5. QED
  BY <1>1, <1>2, <1>3, <1>4 DEF ThrottleInv, CountsExact

-----------------------------------------------------------------------------
(* Settling a check. *)

\* What Settled and Less do to the counts, whichever way the check ends.
LEMMA SettleCounts ==
    ASSUME CountsExact, NEW x \in Checks, Settled(x), inFlight' = Less(keys[x])
    PROVE  /\ keys' \in [Checks -> SUBSET Slots]
           /\ inFlight' \in [Slots -> Nat]
           /\ \A t \in Slots : inFlight'[t] = IF t \in keys[x] THEN inFlight[t] - 1 ELSE inFlight[t]
           /\ InFlightExact'
<1> USE DEF Settled
<1>1. keys \in [Checks -> SUBSET Slots] /\ inFlight \in [Slots -> Nat]
  BY DEF CountsExact, ThrottleTypeOK
<1>2. keys' \in [Checks -> SUBSET Slots]
  BY <1>1
<1>3. inFlight' \in [Slots -> Nat]
  BY <1>1 DEF Less
<1>4. \A t \in Slots : inFlight'[t] = IF t \in keys[x] THEN inFlight[t] - 1 ELSE inFlight[t]
  BY <1>1, HeldIsInFlight DEF Less
<1>5. InFlightExact'
  <2> SUFFICES ASSUME NEW t \in Slots
               PROVE  inFlight'[t] = Cardinality(Held(t)')
    BY DEF InFlightExact, Held
  <2>1. Held(t)' = Held(t) \ {x}
    BY <1>1 DEF Held
  <2>2. inFlight[t] = Cardinality(Held(t))
    BY DEF CountsExact, InFlightExact, Held
  <2>3. CASE t \in keys[x]
    <3>1. x \in Held(t)
      BY <2>3 DEF Held
    <3>2. Cardinality(Held(t) \ {x}) = Cardinality(Held(t)) - 1
      BY <3>1, HeldFinite, FS_RemoveElement
    <3>3. QED
      BY <1>4, <2>1, <2>2, <2>3, <3>2
  <2>4. CASE t \notin keys[x]
    <3>1. Held(t) \ {x} = Held(t)
      BY <2>4 DEF Held
    <3>2. QED
      BY <1>4, <2>1, <2>2, <2>4, <3>1
  <2>5. QED
    BY <2>3, <2>4
<1>6. QED
  BY <1>2, <1>3, <1>4, <1>5

\* Releasing and succeeding forget failures, and drop only what is not counted.
LEMMA QuietSettleKeeps ==
    ASSUME ThrottleInv, NEW x \in Checks, Settled(x), inFlight' = Less(keys[x]),
           failures' \in [Slots -> Nat],
           \A t \in Slots : failures'[t] <= failures[t],
           tracked' = tracked \ {t \in keys[x] :
               t # Overflow(t.side) /\ inFlight[t] <= 1 /\ failures'[t] = 0},
           quiet' = quiet, lock' \in [Slots -> 0..MaxLock]
    PROVE  ThrottleInv'
<1>1. CountsExact
  BY DEF ThrottleInv
<1>2. ThrottleTypeOK
  BY <1>1 DEF CountsExact
<1>3. /\ keys' \in [Checks -> SUBSET Slots]
      /\ inFlight' \in [Slots -> Nat]
      /\ \A t \in Slots : inFlight'[t] = IF t \in keys[x] THEN inFlight[t] - 1 ELSE inFlight[t]
      /\ InFlightExact'
  BY <1>1, SettleCounts
<1>4. ThrottleTypeOK'
  BY <1>2, <1>3 DEF ThrottleTypeOK, Settled
<1>5. CountsAreTracked'
  <2> SUFFICES ASSUME NEW t \in Slots, inFlight'[t] > 0 \/ failures'[t] > 0
               PROVE  t \in tracked'
    BY DEF CountsAreTracked
  <2>1. inFlight[t] > 0 \/ failures[t] > 0
    BY <1>2, <1>3 DEF ThrottleTypeOK
  <2>2. t \in tracked
    BY <1>1, <2>1 DEF CountsExact, CountsAreTracked
  <2>3. QED
    BY <1>2, <1>3, <2>2 DEF ThrottleTypeOK
<1>6. AllowanceKept'
  <2> SUFFICES ASSUME NEW t \in Slots, inFlight'[t] > 1
               PROVE  failures'[t] + inFlight'[t] <= Free[t.side] + 1
    BY DEF AllowanceKept
  <2>1. Free[t.side] \in Nat
    BY SlotSides, PolicyBounds
  <2>2. inFlight[t] > 1 => failures[t] + inFlight[t] <= Free[t.side] + 1
    BY DEF ThrottleInv, AllowanceKept
  <2>3. QED
    BY <1>2, <1>3, <2>1, <2>2 DEF ThrottleTypeOK
<1>7. QED
  BY <1>3, <1>4, <1>5, <1>6 DEF ThrottleInv, CountsExact

\* Release keeps the invariant.
LEMMA ReleaseKeeps ==
    ASSUME ThrottleInv, NEW x \in Checks, Release(x)
    PROVE  ThrottleInv'
<1>1. ThrottleTypeOK
  BY DEF ThrottleInv, CountsExact
<1>2. QED
  BY <1>1, QuietSettleKeeps DEF Release, ThrottleTypeOK

\* Succeed does.
LEMMA SucceedKeeps ==
    ASSUME ThrottleInv, NEW x \in Checks, Succeed(x)
    PROVE  ThrottleInv'
<1>1. ThrottleTypeOK
  BY DEF ThrottleInv, CountsExact
<1> DEFINE clear == {t \in keys[x] : t.side # "source" /\ t # Overflow(t.side)}
<1>2. failures' \in [Slots -> Nat] /\ \A t \in Slots : failures'[t] <= failures[t]
  BY <1>1 DEF Succeed, Reset, ThrottleTypeOK
<1>3. lock' \in [Slots -> 0..MaxLock]
  BY <1>1, PolicyBounds DEF Succeed, Reset, ThrottleTypeOK
<1>4. QED
  BY <1>2, <1>3, QuietSettleKeeps DEF Succeed

\* A lock is never longer than the longest.
LEMMA LockBounded == \A n : Lock(n) \in 0..MaxLock
BY PolicyBounds DEF Lock

\* A failure takes the place of the check that made it.
LEMMA FailKeeps ==
    ASSUME ThrottleInv, NEW x \in Checks, Fail(x)
    PROVE  ThrottleInv'
<1>1. CountsExact
  BY DEF ThrottleInv
<1>2. ThrottleTypeOK
  BY <1>1 DEF CountsExact
<1>3. /\ keys' \in [Checks -> SUBSET Slots]
      /\ inFlight' \in [Slots -> Nat]
      /\ \A t \in Slots : inFlight'[t] = IF t \in keys[x] THEN inFlight[t] - 1 ELSE inFlight[t]
      /\ InFlightExact'
  BY <1>1, SettleCounts DEF Fail
<1>4. failures' \in [Slots -> Nat]
  BY <1>2 DEF Fail, ThrottleTypeOK
<1>5. \A t \in Slots : failures'[t] <= IF t \in keys[x] THEN failures[t] + 1 ELSE failures[t]
  BY <1>2 DEF Fail, ThrottleTypeOK
<1>6. quiet' \in [Slots -> 0..Forget]
  BY <1>2, PolicyBounds DEF Fail, Reset, ThrottleTypeOK
<1>7. lock' \in [Slots -> 0..MaxLock]
  BY <1>2, LockBounded DEF Fail, ThrottleTypeOK
<1>8. ThrottleTypeOK'
  BY <1>2, <1>3, <1>4, <1>6, <1>7 DEF ThrottleTypeOK, Fail, Settled
<1>9. CountsAreTracked'
  <2> SUFFICES ASSUME NEW t \in Slots, inFlight'[t] > 0 \/ failures'[t] > 0
               PROVE  t \in tracked
    BY DEF CountsAreTracked, Fail
  <2>1. CASE t \in keys[x]
    BY <1>1, <2>1, HeldIsInFlight
  <2>2. CASE t \notin keys[x]
    <3>1. inFlight[t] > 0 \/ failures[t] > 0
      BY <1>2, <1>3, <1>4, <1>5, <2>2 DEF ThrottleTypeOK
    <3>2. QED
      BY <1>1, <3>1 DEF CountsExact, CountsAreTracked
  <2>3. QED
    BY <2>1, <2>2
<1>10. AllowanceKept'
  <2> SUFFICES ASSUME NEW t \in Slots, inFlight'[t] > 1
               PROVE  failures'[t] + inFlight'[t] <= Free[t.side] + 1
    BY DEF AllowanceKept
  <2>1. Free[t.side] \in Nat
    BY SlotSides, PolicyBounds
  <2>2. inFlight[t] > 1 => failures[t] + inFlight[t] <= Free[t.side] + 1
    BY DEF ThrottleInv, AllowanceKept
  <2>3. inFlight[t] \in Nat /\ failures[t] \in Nat /\ failures'[t] \in Nat
    BY <1>2, <1>4 DEF ThrottleTypeOK
  <2>4. QED
    BY <1>3, <1>5, <2>1, <2>2, <2>3
<1>11. QED
  BY <1>3, <1>8, <1>9, <1>10 DEF ThrottleInv, CountsExact

-----------------------------------------------------------------------------
(* Reserving one. *)

\* What a sweep drops has nothing in flight.
LEMMA DroppedIsIdle ==
    ASSUME NEW a \in Accounts, NEW s \in Sources, NEW t \in Dropped(a, s)
    PROVE  inFlight[t] = 0
BY DEF Dropped, Droppable

\* A slot that does not wait has room for one more check.
LEMMA RoomForOneMore ==
    ASSUME ThrottleTypeOK, NEW f \in [Slots -> Nat], NEW t \in Slots, ~Waits(f, t)
    PROVE  inFlight[t] = 0 \/ f[t] + inFlight[t] <= Free[t.side]
<1>1. Free[t.side] \in Nat /\ inFlight[t] \in Nat /\ f[t] \in Nat
  BY SlotSides, PolicyBounds DEF ThrottleTypeOK
<1>2. inFlight[t] < Allowed(f, t)
  BY <1>1 DEF Waits, Allowed
<1>3. QED
  BY <1>1, <1>2 DEF Allowed

\* Begin does.
LEMMA BeginKeeps ==
    ASSUME ThrottleInv, NEW x \in Checks, NEW a \in Accounts, NEW s \in Sources, Begin(x, a, s)
    PROVE  ThrottleInv'
<1>1. CountsExact /\ ThrottleTypeOK
  BY DEF ThrottleInv, CountsExact
<1> DEFINE gone == Dropped(a, s)
           want == Counted(a, s)
           now == Reset(failures, gone \cup {t \in Wanted(a, s) \cap tracked : Stale(t)})
<1>2. /\ keys[x] = {}
      /\ swept' = swept \cup Sweeps(a, s)
      /\ failures' = now
      /\ quiet' = quiet /\ lock' = lock
      /\ \/ tracked' = tracked \ gone /\ inFlight' = inFlight /\ keys' = keys
         \/ /\ \A t \in want : ~Waits(now, t)
            /\ tracked' = (tracked \ gone) \cup want
            /\ inFlight' = [t \in Slots |-> IF t \in want THEN inFlight[t] + 1 ELSE inFlight[t]]
            /\ keys' = [keys EXCEPT ![x] = want]
  BY Zenon DEF Begin
<1>3. want \subseteq Slots
  BY CountedAreSlots
<1>4. \A t \in gone : inFlight[t] = 0
  BY DroppedIsIdle
<1>5. /\ now \in [Slots -> Nat]
      /\ \A t \in Slots : now[t] <= failures[t]
      /\ \A t \in gone \cap Slots : now[t] = 0
  BY <1>1 DEF Reset, ThrottleTypeOK
<1>6. Sweeps(a, s) \subseteq Sides
  BY DEF Sweeps
<1> HIDE DEF gone, want, now
<1>7. CASE tracked' = tracked \ gone /\ inFlight' = inFlight /\ keys' = keys
  <2>1. ThrottleTypeOK'
    BY <1>1, <1>2, <1>5, <1>6, <1>7 DEF ThrottleTypeOK
  <2>2. InFlightExact'
    BY <1>1, <1>7 DEF CountsExact, InFlightExact
  <2>3. CountsAreTracked'
    BY <1>1, <1>2, <1>4, <1>5, <1>7 DEF CountsExact, CountsAreTracked, ThrottleTypeOK
  <2>4. AllowanceKept'
    <3> SUFFICES ASSUME NEW t \in Slots, inFlight[t] > 1
                 PROVE  now[t] + inFlight[t] <= Free[t.side] + 1
      BY <1>2, <1>7 DEF AllowanceKept
    <3>1. failures[t] + inFlight[t] <= Free[t.side] + 1
      BY DEF ThrottleInv, AllowanceKept
    <3>2. Free[t.side] \in Nat /\ inFlight[t] \in Nat /\ failures[t] \in Nat
      BY <1>1, SlotSides, PolicyBounds DEF ThrottleTypeOK
    <3>3. QED
      BY <1>5, <3>1, <3>2
  <2>5. QED
    BY <2>1, <2>2, <2>3, <2>4 DEF ThrottleInv, CountsExact
<1>8. CASE /\ \A t \in want : ~Waits(now, t)
           /\ tracked' = (tracked \ gone) \cup want
           /\ inFlight' = [t \in Slots |-> IF t \in want THEN inFlight[t] + 1 ELSE inFlight[t]]
           /\ keys' = [keys EXCEPT ![x] = want]
  <2>1. ThrottleTypeOK'
    BY <1>1, <1>2, <1>3, <1>5, <1>6, <1>8 DEF ThrottleTypeOK
  <2>2. InFlightExact'
    <3> SUFFICES ASSUME NEW t \in Slots
                 PROVE  inFlight'[t] = Cardinality(Held(t)')
      BY DEF InFlightExact, Held
    <3>1. inFlight[t] = Cardinality(Held(t)) /\ x \notin Held(t)
      BY <1>1, <1>2 DEF CountsExact, InFlightExact, Held
    <3>2. CASE t \in want
      <4>1. Held(t)' = Held(t) \cup {x}
        BY <1>1, <1>8, <3>2 DEF Held, ThrottleTypeOK
      <4>2. Cardinality(Held(t) \cup {x}) = Cardinality(Held(t)) + 1
        BY <3>1, HeldFinite, FS_AddElement
      <4>3. QED
        BY <1>8, <3>1, <3>2, <4>1, <4>2
    <3>3. CASE t \notin want
      <4>1. Held(t)' = Held(t)
        BY <1>1, <1>2, <1>8, <3>3 DEF Held, ThrottleTypeOK
      <4>2. QED
        BY <1>8, <3>1, <3>3, <4>1
    <3>4. QED
      BY <3>2, <3>3
  <2>3. CountsAreTracked'
    BY <1>1, <1>2, <1>4, <1>5, <1>8 DEF CountsExact, CountsAreTracked, ThrottleTypeOK
  <2>4. AllowanceKept'
    <3> SUFFICES ASSUME NEW t \in Slots, inFlight'[t] > 1
                 PROVE  now[t] + inFlight'[t] <= Free[t.side] + 1
      BY <1>2 DEF AllowanceKept
    <3>1. Free[t.side] \in Nat /\ inFlight[t] \in Nat /\ failures[t] \in Nat /\ now[t] \in Nat
      BY <1>1, <1>5, SlotSides, PolicyBounds DEF ThrottleTypeOK
    <3>2. CASE t \in want
      <4>1. inFlight[t] = 0 \/ now[t] + inFlight[t] <= Free[t.side]
        BY <1>1, <1>5, <1>8, <3>2, RoomForOneMore
      <4>2. QED
        BY <1>8, <3>1, <3>2, <4>1
    <3>3. CASE t \notin want
      <4>1. inFlight[t] > 1
        BY <1>8, <3>3
      <4>2. failures[t] + inFlight[t] <= Free[t.side] + 1
        BY <4>1 DEF ThrottleInv, AllowanceKept
      <4>3. QED
        BY <1>5, <1>8, <3>1, <3>3, <4>2
    <3>4. QED
      BY <3>2, <3>3
  <2>5. QED
    BY <2>1, <2>2, <2>3, <2>4 DEF ThrottleInv, CountsExact
<1>9. QED
  BY <1>2, <1>7, <1>8

-----------------------------------------------------------------------------
\* Time does.
LEMMA TickKeeps ==
    ASSUME ThrottleInv, Tick
    PROVE  ThrottleInv'
<1>1. CountsExact /\ ThrottleTypeOK /\ AllowanceKept
  BY DEF ThrottleInv, CountsExact
<1>2. ThrottleTypeOK'
  BY <1>1, PolicyBounds DEF Tick, ThrottleTypeOK
<1>3. InFlightExact' /\ CountsAreTracked' /\ AllowanceKept'
  BY <1>1 DEF Tick, CountsExact, InFlightExact, CountsAreTracked, AllowanceKept
<1>4. QED
  BY <1>2, <1>3 DEF ThrottleInv, CountsExact

\* So every step does.
LEMMA ThrottleStep == ThrottleInv /\ [ThrottleNext]_throttleVars => ThrottleInv'
<1> SUFFICES ASSUME ThrottleInv, [ThrottleNext]_throttleVars
             PROVE  ThrottleInv'
  OBVIOUS
<1>1. CASE Tick
  BY <1>1, TickKeeps
<1>2. ASSUME NEW x \in Checks, Settle(x)
      PROVE  ThrottleInv'
  BY <1>2, FailKeeps, SucceedKeeps, ReleaseKeeps DEF Settle
<1>3. ASSUME NEW x \in Checks, NEW a \in Accounts, NEW s \in Sources, Begin(x, a, s)
      PROVE  ThrottleInv'
  BY <1>3, BeginKeeps
<1>4. CASE UNCHANGED throttleVars
  BY <1>4 DEF throttleVars, ThrottleInv, CountsExact, ThrottleTypeOK, InFlightExact,
              CountsAreTracked, AllowanceKept
<1>5. QED
  BY <1>1, <1>2, <1>3, <1>4 DEF ThrottleNext

\* And it always holds.
LEMMA ThrottleInvariant == ThrottleSpec => []ThrottleInv
BY ThrottleInitInv, ThrottleStep, PTL DEF ThrottleSpec

(* A slot's count of running checks neither leaks nor is lost, and whoever is
   counted has an entry, whatever sweeps, logins and releases cross (throttle.go,
   Begin and release).                                                         *)
THEOREM CountsStayExact == ThrottleSpec => []CountsExact
<1>1. ThrottleInv => CountsExact
  BY DEF ThrottleInv
<1>2. QED
  BY <1>1, ThrottleInvariant, PTL

(* "A key never has more checks in flight than it has free attempts left": guesses
   sent in parallel gain nothing (throttle.go:47-48).                           *)
THEOREM ParallelGainsNothing == ThrottleSpec => []AllowanceKept
<1>1. ThrottleInv => AllowanceKept
  BY DEF ThrottleInv
<1>2. QED
  BY <1>1, ThrottleInvariant, PTL

\* What an address has failed is forgotten only once it has been quiet and its lock
\* is over: no login that succeeds, no sweep of a full table and no release of a
\* check resets it (Begin, Succeed, makeRoom).
THEOREM SourcesAreHeld == ThrottleSpec => SourceKeepsCount
<1>1. ASSUME ThrottleInv, [ThrottleNext]_throttleVars
      PROVE  [\A t \in Slots : t.side = "source" /\ failures'[t] < failures[t] => Stale(t)]_throttleVars
  <2> SUFFICES ASSUME NEW s \in Slots, s.side = "source", failures'[s] < failures[s]
               PROVE  Stale(s)
    OBVIOUS
  <2>0. failures[s] \in Nat
    BY <1>1 DEF ThrottleInv, CountsExact, ThrottleTypeOK
  <2>1. CASE Tick \/ UNCHANGED throttleVars
    BY <2>0, <2>1 DEF Tick, throttleVars
  <2>2. ASSUME NEW x \in Checks, Settle(x) PROVE Stale(s)
    <3>1. CASE Fail(x)
      BY <2>0, <3>1 DEF Fail
    <3>2. CASE Succeed(x)
      BY <2>0, <3>2 DEF Succeed, Reset
    <3>3. CASE Release(x)
      BY <2>0, <3>3 DEF Release
    <3> QED
      BY <2>2, <3>1, <3>2, <3>3 DEF Settle
  <2>3. ASSUME NEW x \in Checks, NEW a \in Accounts, NEW b \in Sources, Begin(x, a, b)
        PROVE  Stale(s)
    <3>1. failures' = Reset(failures, Dropped(a, b)
                                \cup {u \in Wanted(a, b) \cap tracked : Stale(u)})
      BY <2>3 DEF Begin
    <3>2. s \in Dropped(a, b) \/ Stale(s)
      BY <2>0, <3>1 DEF Reset
    <3> QED
      BY <3>2 DEF Dropped, Droppable
  <2> QED
    BY <1>1, <2>1, <2>2, <2>3 DEF ThrottleNext
<1> QED
  <2>1. ThrottleInv /\ [ThrottleNext]_throttleVars =>
            [\A t \in Slots : t.side = "source" /\ failures'[t] < failures[t] => Stale(t)]_throttleVars
    BY <1>1
  <2> QED
    BY <2>1, ThrottleInvariant, PTL DEF ThrottleSpec, SourceKeepsCount

-----------------------------------------------------------------------------
(* That a publication names whatever was withdrawn before its reads and still
   opens a door, but for what the register has forgotten, and what follows from it,
   for any replicas, handlers, credentials, lifetimes and retention.  The reads leave
   out expired rows, and a token may be minted after they are done: the publication
   is complete only because no token outlives its session's row unless it was signed
   late, which the invariant therefore keeps.                                      *)

\* "Nothing a session minted can outlive it" (db/cli_sessions.go:226), nor what it is
\* about to mint.
TokensDieFirst ==
    \A s \in Sessions \ late : token[s] <= life[s] /\ signing[s] <= life[s]

\* What a publisher has read names every row it set out to find that has neither
\* expired nor been deleted: the kubeconfigs after the first read, everything after the second.
NamesLiving ==
    \A p \in Publishers :
        /\ at[p] = "sessions" =>
              \A c \in began[p] \cap Kubeconfigs : life[c] > 0 => c \in got[p] \cup pruned
        /\ at[p] = "store" =>
              \A c \in began[p] : life[c] > 0 => c \in got[p] \cup pruned

\* A handler's reads begin after its revocation.
ReadsAfterRevoking ==
    \A h \in Handlers : at[h] \in {"sessions", "store"} => target[h] \subseteq began[h]

(* The inductive invariant. *)
RevocationInv ==
    RevocationTypeOK /\ TokensDieFirst /\ NamesLiving /\ ReadsAfterRevoking

-----------------------------------------------------------------------------
\* The invariant holds at first.
LEMMA RevocationInitInv == RevocationInit => RevocationInv
<1> SUFFICES ASSUME RevocationInit
             PROVE  RevocationInv
  OBVIOUS
<1> USE Lifetimes DEF RevocationInit
<1>1. RevocationTypeOK
  BY DEF RevocationTypeOK
<1>2. TokensDieFirst
  BY DEF TokensDieFirst, Credentials
<1>3. NamesLiving
  BY DEF NamesLiving
<1>4. ReadsAfterRevoking
  BY DEF ReadsAfterRevoking
<1>5. QED
  BY <1>1, <1>2, <1>3, <1>4 DEF RevocationInv

\* A publisher works for a replica.
LEMMA PlaceIsReplica == \A p \in Publishers : Place(p) \in Replicas
BY HandlersAreServed DEF Publishers, Place

\* Sets of what is revoked stay such when more is revoked.
LEMMA RevokedGrows ==
    ASSUME NEW D, NEW A, NEW B, A \subseteq B, NEW f \in [D -> SUBSET A]
    PROVE  f \in [D -> SUBSET B]
OBVIOUS

\* Listed rows are revoked.
LEMMA ListedIsRevoked == \A C : Listed(C) \subseteq revoked
BY DEF Listed

-----------------------------------------------------------------------------
(* The actions. *)

\* Time keeps the invariant.
LEMMA AgeKeeps ==
    ASSUME RevocationInv, Age
    PROVE  RevocationInv'
<1> USE DEF RevocationInv, Age, publishing, tokens
<1>1. RevocationTypeOK'
  BY Lifetimes DEF RevocationTypeOK
<1>2. TokensDieFirst'
  BY DEF RevocationTypeOK, TokensDieFirst, Credentials
<1>3. NamesLiving'
  <2> SUFFICES ASSUME NEW p \in Publishers, NEW c \in began[p], life'[c] > 0
               PROVE  life[c] > 0
    BY DEF NamesLiving
  <2>1. c \in Credentials
    BY DEF RevocationTypeOK
  <2>2. QED
    BY <2>1, Lifetimes DEF RevocationTypeOK
<1>4. ReadsAfterRevoking'
  BY DEF ReadsAfterRevoking
<1>5. QED
  BY <1>1, <1>2, <1>3, <1>4

\* A call admitted does.
LEMMA AdmitKeeps ==
    ASSUME RevocationInv, NEW s \in Sessions, Admit(s)
    PROVE  RevocationInv'
BY DEF RevocationInv, Admit, publishing, RevocationTypeOK, TokensDieFirst, NamesLiving,
       ReadsAfterRevoking

\* A token's lifetime is worked out: no more than the session has left.
LEMMA MintKeeps ==
    ASSUME RevocationInv, NEW s \in Sessions, Mint(s)
    PROVE  RevocationInv'
<1> DEFINE ttl == IF AccessTTL < life[s] THEN AccessTTL ELSE life[s]
<1>1. /\ minting' = minting \ {s}
      /\ signing' = [signing EXCEPT ![s] = ttl]
      /\ UNCHANGED <<revoked, pruned, life, token, late, up, snapshot, at, target, got, began>>
  BY DEF Mint, publishing
<1>2. life[s] \in 0..RowLife
  BY DEF RevocationInv, RevocationTypeOK, Credentials
<1>3. ttl \in 0..AccessTTL /\ ttl <= life[s]
  BY <1>2, Lifetimes
<1> HIDE DEF ttl
<1>4. RevocationTypeOK'
  BY <1>1, <1>3 DEF RevocationInv, RevocationTypeOK, tokens
<1>5. TokensDieFirst'
  BY <1>1, <1>2, <1>3 DEF RevocationInv, RevocationTypeOK, TokensDieFirst
<1>6. QED
  BY <1>1, <1>4, <1>5 DEF RevocationInv, NamesLiving, ReadsAfterRevoking

\* It is signed: for that lifetime, or what an earlier one has left.
LEMMA SignKeeps ==
    ASSUME RevocationInv, NEW s \in Sessions, Sign(s)
    PROVE  RevocationInv'
<1>1. /\ signing' = [signing EXCEPT ![s] = 0]
      /\ token' = [token EXCEPT ![s] = IF token[s] < signing[s] THEN signing[s] ELSE token[s]]
      /\ UNCHANGED <<revoked, pruned, life, minting, late, up, snapshot, at, target, got, began>>
  BY DEF Sign, publishing
<1>2. life[s] \in 0..RowLife /\ token[s] \in 0..AccessTTL /\ signing[s] \in 0..AccessTTL
  BY DEF RevocationInv, RevocationTypeOK, Credentials
<1>3. RevocationTypeOK'
  BY <1>1, <1>2, Lifetimes DEF RevocationInv, RevocationTypeOK, tokens
<1>4. TokensDieFirst'
  BY <1>1, <1>2 DEF RevocationInv, RevocationTypeOK, TokensDieFirst
<1>5. QED
  BY <1>1, <1>3, <1>4 DEF RevocationInv, NamesLiving, ReadsAfterRevoking

\* The retention pass leaves fewer rows to be named.
LEMMA PruneKeeps ==
    ASSUME RevocationInv, PruneRegister
    PROVE  RevocationInv'
<1>1. /\ pruned \subseteq pruned' /\ pruned' \subseteq Kubeconfigs
      /\ UNCHANGED <<revoked, life, token, minting, signing, late, up, snapshot, at, target,
                     got, began>>
  BY DEF PruneRegister, publishing, tokens, RevocationInv, RevocationTypeOK
<1> QED
  BY <1>1 DEF RevocationInv, RevocationTypeOK, TokensDieFirst, NamesLiving, ReadsAfterRevoking

\* A revocation: more is revoked, and its handler is not reading.
LEMMA RevokingKeeps ==
    ASSUME RevocationInv, NEW h \in Handlers, at[h] \in {"idle", "revoking"},
           revoked \subseteq revoked', revoked' \subseteq Credentials,
           target' \in [Handlers -> SUBSET revoked'],
           \A g \in Handlers : g # h => target'[g] = target[g],
           at' \in [at EXCEPT ![h] = "kubeconfigs", ![h] = "revoking"] \cup {at'},
           at' = [at EXCEPT ![h] = "kubeconfigs"] \/ at' = [at EXCEPT ![h] = "revoking"],
           UNCHANGED <<pruned, life, tokens, up, snapshot, got, began>>
    PROVE  RevocationInv'
<1>1. RevocationTypeOK'
  <2>1. at' \in [Publishers -> {"idle", "revoking", "kubeconfigs", "sessions", "store"}]
    BY DEF RevocationInv, RevocationTypeOK, tokens
  <2>2. QED
    BY <2>1 DEF RevocationInv, RevocationTypeOK, tokens
<1>2. NamesLiving'
  BY DEF RevocationInv, RevocationTypeOK, NamesLiving, tokens
<1>3. ReadsAfterRevoking'
  BY DEF RevocationInv, RevocationTypeOK, ReadsAfterRevoking, Publishers
<1>4. QED
  BY <1>1, <1>2, <1>3 DEF RevocationInv, TokensDieFirst, tokens

\* A revocation does.
LEMMA RevokeStep ==
    ASSUME RevocationInv, NEW h \in Handlers,
           \/ \E c \in Credentials : RevokeOne(h, c)
           \/ RevokeKubeconfigsForUser(h) \/ Revoking(h)
    PROVE  RevocationInv'
<1>0. RevocationTypeOK /\ h \in Publishers
  BY DEF RevocationInv, Publishers
<1>1. ASSUME NEW c \in Credentials, RevokeOne(h, c)
      PROVE  RevocationInv'
  <2>1. target' \in [Handlers -> SUBSET revoked']
    BY <1>0, <1>1 DEF RevokeOne, RevocationTypeOK
  <2>2. QED
    BY <1>0, <1>1, <2>1, RevokingKeeps DEF RevokeOne, Goto, RevocationTypeOK
<1>2. CASE RevokeKubeconfigsForUser(h)
  <2>1. target' \in [Handlers -> SUBSET revoked']
    BY <1>0, <1>2 DEF RevokeKubeconfigsForUser, RevocationTypeOK
  <2>2. QED
    BY <1>0, <1>2, <2>1, RevokingKeeps
       DEF RevokeKubeconfigsForUser, Goto, RevocationTypeOK, Credentials
<1>3. CASE RevokeCLISessionsForUser(h)
  <2>1. target' \in [Handlers -> SUBSET revoked']
    BY <1>0, <1>3 DEF RevokeCLISessionsForUser, RevocationTypeOK
  <2>2. QED
    BY <1>0, <1>3, <2>1, RevokingKeeps
       DEF RevokeCLISessionsForUser, Goto, RevocationTypeOK, Credentials
<1>4. CASE RevokeFails(h)
  BY <1>0, <1>4, RevokingKeeps DEF RevokeFails, Goto, RevocationTypeOK
<1>5. QED
  BY <1>1, <1>2, <1>3, <1>4 DEF Revoking

\* The start of a refresh does.
LEMMA RefreshKeeps ==
    ASSUME RevocationInv, NEW r \in Replicas, Refresh(r) \/ Boot(r)
    PROVE  RevocationInv'
<1>1. /\ at' = [at EXCEPT ![r] = "kubeconfigs"] /\ up' \subseteq Replicas
      /\ UNCHANGED <<revoked, pruned, life, tokens, snapshot, target, got, began>>
  BY DEF Refresh, Boot, Goto, RevocationInv, RevocationTypeOK
<1>2. r \in Publishers
  BY DEF Publishers
<1>3. RevocationTypeOK'
  BY <1>1, <1>2 DEF RevocationInv, RevocationTypeOK, tokens
<1>4. NamesLiving'
  BY <1>1, <1>2 DEF RevocationInv, RevocationTypeOK, NamesLiving, tokens
<1>5. ReadsAfterRevoking'
  BY <1>1, <1>2, HandlersAreServed
     DEF RevocationInv, RevocationTypeOK, ReadsAfterRevoking, Publishers
<1>6. QED
  BY <1>1, <1>3, <1>4, <1>5 DEF RevocationInv, TokensDieFirst, tokens

\* The first read of a publication does.
LEMMA ReadKubeconfigsKeeps ==
    ASSUME RevocationInv, NEW p \in Publishers, ReadKubeconfigs(p)
    PROVE  RevocationInv'
<1> USE DEF ReadKubeconfigs, Goto
<1>1. RevocationTypeOK'
  BY ListedIsRevoked DEF RevocationInv, RevocationTypeOK, tokens
<1>2. NamesLiving'
  <2> SUFFICES ASSUME NEW q \in Publishers
               PROVE  /\ at'[q] = "sessions" =>
                            \A c \in began'[q] \cap Kubeconfigs : life[c] > 0 => c \in got'[q] \cup pruned
                      /\ at'[q] = "store" =>
                            \A c \in began'[q] : life[c] > 0 => c \in got'[q] \cup pruned
    BY DEF NamesLiving
  <2>1. CASE q = p
    BY <2>1 DEF RevocationInv, RevocationTypeOK, Listed
  <2>2. CASE q # p
    BY <2>2 DEF RevocationInv, RevocationTypeOK, NamesLiving, tokens
  <2>3. QED
    BY <2>1, <2>2
<1>3. ReadsAfterRevoking'
  BY DEF RevocationInv, RevocationTypeOK, ReadsAfterRevoking, Publishers
<1>4. QED
  BY <1>1, <1>2, <1>3 DEF RevocationInv, TokensDieFirst, tokens

\* The second does.
LEMMA ReadSessionsKeeps ==
    ASSUME RevocationInv, NEW p \in Publishers, ReadSessions(p)
    PROVE  RevocationInv'
<1> USE DEF ReadSessions, Goto
<1>1. RevocationTypeOK'
  BY ListedIsRevoked DEF RevocationInv, RevocationTypeOK, tokens
<1>2. NamesLiving'
  <2> SUFFICES ASSUME NEW q \in Publishers
               PROVE  /\ at'[q] = "sessions" =>
                            \A c \in began[q] \cap Kubeconfigs : life[c] > 0 => c \in got'[q] \cup pruned
                      /\ at'[q] = "store" =>
                            \A c \in began[q] : life[c] > 0 => c \in got'[q] \cup pruned
    BY DEF NamesLiving
  <2>1. CASE q = p
    <3>1. at'[q] = "store" /\ got'[q] = got[q] \cup Listed(Sessions)
      BY <2>1 DEF RevocationInv, RevocationTypeOK, tokens
    <3>2. ASSUME NEW c \in began[q], life[c] > 0
          PROVE  c \in got'[q] \cup pruned
      <4>1. c \in revoked /\ c \in Credentials
        BY DEF RevocationInv, RevocationTypeOK, tokens
      <4>2. CASE c \in Sessions
        BY <3>1, <3>2, <4>1, <4>2 DEF Listed
      <4>3. CASE c \in Kubeconfigs
        BY <2>1, <3>1, <3>2, <4>3 DEF RevocationInv, NamesLiving
      <4>4. QED
        BY <4>1, <4>2, <4>3 DEF Credentials
    <3>3. QED
      BY <3>1, <3>2
  <2>2. CASE q # p
    BY <2>2 DEF RevocationInv, RevocationTypeOK, NamesLiving, tokens
  <2>3. QED
    BY <2>1, <2>2
<1>3. ReadsAfterRevoking'
  BY DEF RevocationInv, RevocationTypeOK, ReadsAfterRevoking, Publishers
<1>4. QED
  BY <1>1, <1>2, <1>3 DEF RevocationInv, TokensDieFirst, tokens

\* A publisher that is done leaves no claim behind.
LEMMA DoneKeeps ==
    ASSUME RevocationInv, NEW p \in Publishers, Done(p),
           snapshot' \in [Replicas -> SUBSET revoked],
           UNCHANGED <<revoked, pruned, life, tokens, up>>
    PROVE  RevocationInv'
<1> USE DEF Done, Goto
<1>1. RevocationTypeOK'
  BY DEF RevocationInv, RevocationTypeOK, tokens
<1>2. NamesLiving'
  BY DEF RevocationInv, RevocationTypeOK, NamesLiving, tokens
<1>3. ReadsAfterRevoking'
  BY DEF RevocationInv, RevocationTypeOK, ReadsAfterRevoking, Publishers
<1>4. QED
  BY <1>1, <1>2, <1>3 DEF RevocationInv, TokensDieFirst, tokens

\* So does each step of a publisher.
LEMMA StepKeeps ==
    ASSUME RevocationInv, NEW p \in Publishers, Step(p)
    PROVE  RevocationInv'
<1>1. CASE ReadFails(p)
  BY <1>1, DoneKeeps DEF ReadFails, RevocationInv, RevocationTypeOK
<1>2. CASE Publish(p)
  <2>1. snapshot' \in [Replicas -> SUBSET revoked]
    BY <1>2, PlaceIsReplica DEF Publish, RevocationInv, RevocationTypeOK
  <2>2. QED
    BY <1>2, <2>1, DoneKeeps DEF Publish
<1>3. QED
  BY <1>1, <1>2, ReadKubeconfigsKeeps, ReadSessionsKeeps DEF Step

\* So does a crash.
LEMMA CrashKeeps ==
    ASSUME RevocationInv, NEW r \in Replicas, Crash(r)
    PROVE  RevocationInv'
<1>1. /\ up' \subseteq Replicas
      /\ snapshot' = [snapshot EXCEPT ![r] = {}]
      /\ at' = [p \in Publishers |-> IF Place(p) = r THEN "idle" ELSE at[p]]
      /\ got' = [p \in Publishers |-> IF Place(p) = r THEN {} ELSE got[p]]
      /\ began' = [p \in Publishers |-> IF Place(p) = r THEN {} ELSE began[p]]
      /\ target' = [h \in Handlers |-> IF Place(h) = r THEN {} ELSE target[h]]
      /\ UNCHANGED <<revoked, pruned, life, tokens>>
  BY DEF Crash, RevocationInv, RevocationTypeOK
<1>2. RevocationTypeOK'
  BY <1>1 DEF RevocationInv, RevocationTypeOK, tokens
<1>3. NamesLiving'
  BY <1>1 DEF RevocationInv, NamesLiving
<1>4. ReadsAfterRevoking'
  BY <1>1 DEF RevocationInv, ReadsAfterRevoking, Publishers
<1>5. QED
  BY <1>1, <1>2, <1>3, <1>4 DEF RevocationInv, TokensDieFirst, tokens

-----------------------------------------------------------------------------
\* So does every step.
LEMMA RevocationStep == RevocationInv /\ [RevocationNext]_revocationVars => RevocationInv'
<1> SUFFICES ASSUME RevocationInv, [RevocationNext]_revocationVars
             PROVE  RevocationInv'
  OBVIOUS
<1>1. CASE Age
  BY <1>1, AgeKeeps
<1>2. CASE PruneRegister \/ \E s \in Sessions : Admit(s) \/ Mint(s) \/ Sign(s)
  BY <1>2, AdmitKeeps, MintKeeps, SignKeeps, PruneKeeps
<1>3. CASE \E h \in Handlers :
              \/ \E c \in Credentials : RevokeOne(h, c)
              \/ RevokeKubeconfigsForUser(h) \/ Revoking(h)
  BY <1>3, RevokeStep
<1>4. CASE \E p \in Publishers : Step(p)
  BY <1>4, StepKeeps
<1>5. CASE \E r \in Replicas : Refresh(r) \/ Crash(r) \/ Boot(r)
  BY <1>5, RefreshKeeps, CrashKeeps
<1>6. CASE UNCHANGED revocationVars
  BY <1>6 DEF revocationVars, tokens, publishing, RevocationInv, RevocationTypeOK, TokensDieFirst,
              NamesLiving, ReadsAfterRevoking
<1>7. QED
  BY <1>1, <1>2, <1>3, <1>4, <1>5, <1>6 DEF RevocationNext

\* And it always holds.
LEMMA RevocationInvariant == RevocationSpec => []RevocationInv
BY RevocationInitInv, RevocationStep, PTL DEF RevocationSpec

\* What a publisher is about to store names all it began with that is still good.
LEMMA CompleteFromInv == RevocationInv => PublicationComplete
<1> SUFFICES ASSUME RevocationInv, NEW p \in Publishers, at[p] = "store",
                    NEW c \in began[p] \ Forgotten, Valid(c)
             PROVE  c \in got[p]
  BY DEF PublicationComplete
<1>1. c \in Credentials
  BY DEF RevocationInv, RevocationTypeOK
<1>2. life[c] > 0
  <2>1. CASE c \in Sessions
    <3>1. token[c] \in Nat /\ life[c] \in Nat
      BY <1>1, <2>1 DEF RevocationInv, RevocationTypeOK
    <3>2. token[c] > 0 /\ token[c] <= life[c]
      BY <2>1, <3>1 DEF Valid, Forgotten, RevocationInv, TokensDieFirst
    <3>3. QED
      BY <3>1, <3>2
  <2>2. CASE c \notin Sessions
    BY <2>2 DEF Valid
  <2>3. QED
    BY <2>1, <2>2
<1>3. QED
  BY <1>2 DEF RevocationInv, NamesLiving, Forgotten

(* Whatever publications, mints, crashes, expiries and retention passes cross, what a
   replica is about to publish names every credential withdrawn before its reads that
   a call could still be made with, but for what the register has forgotten
   (credentials/register.go).                                                      *)
THEOREM PublicationsAreWhole == RevocationSpec => []PublicationsWhole
<1>1. RevocationInv => PublicationsWhole
  BY CompleteFromInv DEF RevocationInv, PublicationsWhole
<1>2. QED
  BY <1>1, RevocationInvariant, PTL

-----------------------------------------------------------------------------
\* A register that forgets a credential does so by a store, or with its replica.
LEMMA UndoneByPublish ==
    ASSUME RevocationInv, RevocationNext, NEW r \in Replicas, NEW c \in snapshot[r] \ Forgotten,
           r \in up \cap up', c \notin snapshot'[r], Valid(c)'
    PROVE  \E p \in Publishers : /\ Place(p) = r /\ at[p] = "store"
                                 /\ c \notin began[p] /\ at'[p] = "idle"
<1>1. ~(\E q \in Replicas : Refresh(q) \/ Boot(q))
  BY DEF Refresh, Boot
<1>2. ~(\E q \in Replicas : Crash(q))
  BY DEF Crash, RevocationInv, RevocationTypeOK
<1>3. ~Age /\ ~PruneRegister /\ ~(\E s \in Sessions : Admit(s) \/ Mint(s) \/ Sign(s))
  BY DEF Age, Admit, Mint, Sign, PruneRegister
<1>4. ~(\E h \in Handlers :
          \/ \E d \in Credentials : RevokeOne(h, d)
          \/ RevokeKubeconfigsForUser(h) \/ Revoking(h))
  BY DEF RevokeOne, RevokeKubeconfigsForUser, Revoking, RevokeCLISessionsForUser, RevokeFails
<1>5. PICK p \in Publishers : Step(p)
  BY <1>1, <1>2, <1>3, <1>4 DEF RevocationNext
<1>6. Publish(p)
  BY <1>5 DEF Step, ReadKubeconfigs, ReadSessions, ReadFails
<1>7. Place(p) = r /\ c \notin got[p]
  BY <1>6, PlaceIsReplica DEF Publish, RevocationInv, RevocationTypeOK
<1>8. Valid(c)
  BY <1>6 DEF Publish, Valid, tokens
<1>9. c \notin began[p]
  BY <1>6, <1>7, <1>8, CompleteFromInv DEF Publish, PublicationComplete
<1>10. at[p] = "store" /\ at'[p] = "idle"
  BY <1>6 DEF Publish, Done, Goto, RevocationInv, RevocationTypeOK
<1>11. QED
  BY <1>7, <1>9, <1>10

(* The one way a running replica comes to accept a withdrawn credential again, while
   the register remembers it, is a publication that began to read before the
   revocation (publishRevoked).                                                    *)
THEOREM OnlyOlderPublicationsUndo == RevocationSpec => OnlyOlderUndoes
<1>1. ASSUME RevocationInv, [RevocationNext]_revocationVars
      PROVE  [\A r \in Replicas : \A c \in snapshot[r] \ Forgotten :
                r \in up \cap up' /\ c \notin snapshot'[r] /\ Valid(c)' =>
                    \E p \in Publishers :
                        /\ Place(p) = r /\ at[p] = "store"
                        /\ c \notin began[p] /\ at'[p] = "idle"]_revocationVars
  BY <1>1, UndoneByPublish
<1>2. QED
  BY <1>1, RevocationInvariant, PTL DEF RevocationSpec, OnlyOlderUndoes

\* A handler comes from its store to rest by storing, or with its replica.
LEMMA AnswersByPublish ==
    ASSUME RevocationInv, RevocationNext, NEW h \in Handlers,
           at[h] = "store", at'[h] = "idle", Where[h] \in up'
    PROVE  Publish(h)
<1>1. h \in Publishers /\ h \notin Replicas /\ Place(h) = Where[h]
  BY HandlersAreServed DEF Publishers, Place
<1>2. at \in [Publishers -> {"idle", "revoking", "kubeconfigs", "sessions", "store"}]
  BY DEF RevocationInv, RevocationTypeOK, tokens
<1>3. ~(\E q \in Replicas : Refresh(q) \/ Boot(q))
  BY <1>1, <1>2 DEF Refresh, Boot, Goto
<1>4. ~(\E q \in Replicas : Crash(q))
  BY <1>1, <1>2 DEF Crash
<1>5. ~Age /\ ~PruneRegister /\ ~(\E s \in Sessions : Admit(s) \/ Mint(s) \/ Sign(s))
  BY DEF Age, Admit, Mint, Sign, PruneRegister, publishing
<1>6. ~(\E g \in Handlers :
          \/ \E d \in Credentials : RevokeOne(g, d)
          \/ RevokeKubeconfigsForUser(g) \/ Revoking(g))
  BY <1>1, <1>2 DEF RevokeOne, RevokeKubeconfigsForUser, Revoking,
                    RevokeCLISessionsForUser, RevokeFails, Goto
<1>7. PICK p \in Publishers : Step(p)
  BY <1>3, <1>4, <1>5, <1>6 DEF RevocationNext
<1>8. p = h
  BY <1>1, <1>2, <1>7
     DEF Step, ReadKubeconfigs, ReadSessions, ReadFails, Publish, Done, Goto
<1>9. QED
  BY <1>7, <1>8 DEF Step, ReadKubeconfigs, ReadSessions, ReadFails

(* A revocation whose publication is stored is in force on its replica when the
   handler answers (kubeconfigs.go:309), unless its row was deleted meanwhile.   *)
THEOREM AnswersArePublished == RevocationSpec => AnsweredIsPublished
<1>1. ASSUME RevocationInv, RevocationNext, NEW h \in Handlers,
             at[h] = "store", at'[h] = "idle", Where[h] \in up',
             NEW c \in target[h] \ Forgotten, Valid(c)'
      PROVE  c \in snapshot'[Where[h]]
  <2>1. Publish(h)
    BY <1>1, AnswersByPublish
  <2>2. Place(h) = Where[h] /\ Where[h] \in Replicas /\ h \in Publishers
    BY HandlersAreServed DEF Publishers, Place
  <2>3. Valid(c)
    BY <1>1, <2>1 DEF Publish, Valid, tokens
  <2>4. c \in began[h]
    BY <1>1 DEF RevocationInv, ReadsAfterRevoking
  <2>5. c \in got[h]
    BY <1>1, <2>2, <2>3, <2>4, CompleteFromInv DEF PublicationComplete
  <2>6. QED
    BY <1>1, <2>1, <2>2, <2>5 DEF Publish, RevocationInv, RevocationTypeOK
<1>2. ASSUME RevocationInv, [RevocationNext]_revocationVars
      PROVE  [\A h \in Handlers : at[h] = "store" /\ at'[h] = "idle" /\ Where[h] \in up' =>
                \A c \in target[h] \ Forgotten : Valid(c)' => c \in snapshot'[Where[h]]]_revocationVars
  BY <1>1, <1>2
<1>3. QED
  BY <1>2, RevocationInvariant, PTL DEF RevocationSpec, AnsweredIsPublished

-----------------------------------------------------------------------------
(* That an agent is turned away only if its tunnel was used too early or the writer
   was between its two looks, for any number of frames.  What it reads first is the
   first frame of the socket, and behind that of the lanes: unless a caller was early
   the welcome is there, or one frame behind.                                      *)

\* The server before it has put the welcome.
Preparing == {"adding", "recording", "welcoming"}

\* While nobody was early: before the welcome nothing is on its way, and until the
\* agent reads a frame the welcome is the first or, if it raced, the second.
WelcomeNear ==
    ~early /\ open /\ agent = "waiting" =>
        /\ server \in Preparing => wire = <<>> /\ urgent = <<>> /\ bulk = <<>>
        /\ server \notin Preparing =>
              \/ wire # <<>> /\ Head(wire) = "welcome"
              \/ /\ urgent # <<>> /\ Head(urgent) = "welcome"
                 /\ \/ wire = <<>> /\ (writer = "any" => raced)
                    \/ Len(wire) = 1 /\ writer = "urgent" /\ raced
              \/ Len(wire) > 1 /\ wire[2] = "welcome" /\ raced

\* How far serveTunnel is says what it has done, it leaves only a dead socket, and a
\* refusal leaves one too.
Served ==
    /\ server = "adding" => ~registered
    /\ server \in {"dropping", "gone"} => ~open
    /\ server \in {"adding", "recording"} =>
          {wire, urgent, bulk} \subseteq Seq(FrameTypes \ {"welcome"})
    /\ server \notin {"adding", "recording"} => recorded
    /\ agent = "refused" => ~open /\ (early \/ server \notin Preparing)

(* The inductive invariant. *)
HandshakeInv == HandshakeTypeOK /\ RefusedOnlyIfOvertaken /\ WelcomeNear /\ Served

\* What a queue is after a frame more and a frame less.
LEMMA OneMore ==
    ASSUME NEW S, NEW q \in Seq(S), NEW f \in S
    PROVE  /\ Append(q, f) \in Seq(S) /\ Append(q, f) # <<>>
           /\ Head(Append(q, f)) = (IF q = <<>> THEN f ELSE Head(q))
<1>1. Append(q, f) \in Seq(S) /\ Len(Append(q, f)) = Len(q) + 1 /\ Len(q) \in Nat
  OBVIOUS
<1>2. Append(q, f) # <<>>
  BY <1>1
<1>3. Head(Append(q, f)) = Append(q, f)[1]
  BY <1>1, <1>2
<1>4. CASE q = <<>>
  BY <1>2, <1>3, <1>4
<1>5. CASE q # <<>>
  BY <1>2, <1>3, <1>5
<1> QED
  BY <1>1, <1>2, <1>4, <1>5

\* A queue that is not empty has a head and a rest.
LEMMA OneLess ==
    ASSUME NEW S, NEW q \in Seq(S), q # <<>>
    PROVE  Head(q) \in S /\ Tail(q) \in Seq(S)
OBVIOUS

\* Before anything happened.
LEMMA HandshakeStart == HandshakeInit => HandshakeInv
<1> SUFFICES ASSUME HandshakeInit PROVE HandshakeInv
  OBVIOUS
<1>1. <<>> \in Seq(FrameTypes) /\ <<>> \in Seq(FrameTypes \ {"welcome"})
  OBVIOUS
<1>2. 0 \in 0..MaxFrames
  BY FramesNat
<1> QED
  BY <1>1, <1>2 DEF HandshakeInit, HandshakeInv, HandshakeTypeOK, RefusedOnlyIfOvertaken, WelcomeNear,
     Served, Preparing

\* The server's own steps.
LEMMA ServeKeeps ==
    ASSUME HandshakeInv, Serve
    PROVE  HandshakeInv'
<1>1. CASE Add \/ RecordHealthy \/ EndServe \/ Drop
  <2>1. UNCHANGED <<laneVars, wire, agent, open>>
    BY <1>1 DEF Add, RecordHealthy, EndServe, Drop
  <2>2. HandshakeTypeOK'
    BY <1>1, <2>1 DEF Add, RecordHealthy, EndServe, Drop, laneVars, HandshakeInv, HandshakeTypeOK
  <2>3. WelcomeNear'
    BY <1>1, <2>1 DEF Add, RecordHealthy, EndServe, Drop, laneVars, HandshakeInv, WelcomeNear,
       Preparing, Served
  <2>4. Served'
    BY <1>1, <2>1 DEF Add, RecordHealthy, EndServe, Drop, laneVars, HandshakeInv, Served, Preparing
  <2> QED
    BY <2>1, <2>2, <2>3, <2>4 DEF laneVars, HandshakeInv, RefusedOnlyIfOvertaken
<1>2. CASE SendWelcome
  <2>1. "welcome" \in FrameTypes /\ urgent \in Seq(FrameTypes)
    BY DEF FrameTypes, HandshakeInv, HandshakeTypeOK
  <2>2. /\ urgent' \in Seq(FrameTypes) /\ urgent' # <<>>
        /\ urgent = <<>> => Head(urgent') = "welcome"
    BY <1>2, <2>1, OneMore DEF SendWelcome
  <2>3. HandshakeTypeOK'
    BY <1>2, <2>2 DEF SendWelcome, HandshakeInv, HandshakeTypeOK
  <2>4. WelcomeNear'
    BY <1>2, <2>2 DEF SendWelcome, HandshakeInv, WelcomeNear, Preparing
  <2>5. Served'
    BY <1>2 DEF SendWelcome, HandshakeInv, Served, Preparing
  <2>6. RefusedOnlyIfOvertaken'
    BY <1>2 DEF SendWelcome, HandshakeInv, RefusedOnlyIfOvertaken, Served, Preparing
  <2> QED
    BY <2>3, <2>4, <2>5, <2>6 DEF HandshakeInv
<1> QED
  BY <1>1, <1>2 DEF Serve

\* A caller's frame, before the welcome or behind it.
LEMMA UseKeeps ==
    ASSUME HandshakeInv, NEW type \in {"request", "stream_open"}, Use(type)
    PROVE  HandshakeInv'
<1> USE DEF HandshakeInv
<1>1. type \in FrameTypes /\ type \in FrameTypes \ {"welcome"}
  BY DEF FrameTypes
<1>2. urgent \in Seq(FrameTypes) /\ bulk \in Seq(FrameTypes) /\ sent \in 0..MaxFrames
  BY DEF HandshakeTypeOK
<1>3. \/ bulk' = Append(bulk, type) /\ urgent' = urgent
      \/ urgent' = Append(urgent, type) /\ bulk' = bulk
  BY DEF Use
<1>4. urgent' \in Seq(FrameTypes) /\ bulk' \in Seq(FrameTypes)
  <2>1. Append(urgent, type) \in Seq(FrameTypes) /\ Append(bulk, type) \in Seq(FrameTypes)
    BY <1>1, <1>2, OneMore
  <2> QED
    BY <1>2, <1>3, <2>1
<1>5. urgent # <<>> => urgent' # <<>> /\ Head(urgent') = Head(urgent)
  BY <1>1, <1>2, <1>3, OneMore
<1>6. sent' \in 0..MaxFrames
  BY <1>2, FramesNat DEF Use
<1>7. HandshakeTypeOK'
  BY <1>4, <1>6 DEF Use, HandshakeTypeOK, serverVars
<1>8. WelcomeNear'
  BY <1>5 DEF Use, WelcomeNear, Served, Preparing, serverVars, HandshakeTypeOK
<1>9. Served'
  <2>1. ASSUME NEW S, urgent \in Seq(S), bulk \in Seq(S), type \in S
        PROVE  urgent' \in Seq(S) /\ bulk' \in Seq(S)
    BY <1>3, <2>1, OneMore
  <2>2. server \in {"adding", "recording"} =>
            {wire', urgent', bulk'} \subseteq Seq(FrameTypes \ {"welcome"})
    BY <1>1, <2>1 DEF Use, Served
  <2> QED
    BY <2>2 DEF Use, Served, serverVars
<1>10. RefusedOnlyIfOvertaken'
  BY DEF Use, RefusedOnlyIfOvertaken, Served
<1> QED
  BY <1>7, <1>8, <1>9, <1>10

\* The writer looks again, or moves the first frame of a lane behind those of the socket.
LEMMA WriteKeeps ==
    ASSUME HandshakeInv, Write
    PROVE  HandshakeInv'
<1> USE DEF HandshakeInv
<1>1. wire \in Seq(FrameTypes) /\ urgent \in Seq(FrameTypes) /\ bulk \in Seq(FrameTypes)
  BY DEF HandshakeTypeOK
<1>2. UNCHANGED <<serverVars, early, raced, sent, agent, open>> /\ open
  BY DEF Write
<1>3. \/ UNCHANGED <<urgent, bulk, wire>> /\ urgent = <<>> /\ writer' = "any"
      \/ WriteUrgent /\ writer' = "urgent"
      \/ WriteBulk /\ writer = "any" /\ writer' = "urgent"
  BY DEF Write, WriteUrgent, WriteBulk
<1>4. ASSUME NEW S, wire \in Seq(S), urgent \in Seq(S), bulk \in Seq(S)
      PROVE  wire' \in Seq(S) /\ urgent' \in Seq(S) /\ bulk' \in Seq(S)
  <2>1. CASE WriteUrgent
    <3>1. Head(urgent) \in S /\ Tail(urgent) \in Seq(S)
      BY <1>4, <2>1, OneLess DEF WriteUrgent
    <3> QED
      BY <1>4, <2>1, <3>1, OneMore DEF WriteUrgent
  <2>2. CASE WriteBulk
    <3>1. Head(bulk) \in S /\ Tail(bulk) \in Seq(S)
      BY <1>4, <2>2, OneLess DEF WriteBulk
    <3> QED
      BY <1>4, <2>2, <3>1, OneMore DEF WriteBulk
  <2> QED
    BY <1>3, <1>4, <2>1, <2>2
<1>5. HandshakeTypeOK'
  BY <1>1, <1>2, <1>3, <1>4 DEF HandshakeTypeOK, serverVars
<1>6. WelcomeNear'
  <2>1. CASE urgent' = urgent /\ bulk' = bulk /\ wire' = wire
    BY <1>2, <1>3, <2>1 DEF WelcomeNear, serverVars, WriteUrgent, WriteBulk
  <2>2. CASE WriteUrgent \/ WriteBulk
    <3>1. PICK f \in FrameTypes :
            /\ wire' = Append(wire, f)
            /\ WriteUrgent => f = Head(urgent)
      BY <1>1, <2>2, OneLess DEF WriteUrgent, WriteBulk
    <3>6. /\ Len(wire') = Len(wire) + 1 /\ Len(wire) \in Nat
          /\ \A i \in 1..Len(wire) : wire'[i] = wire[i]
          /\ wire'[Len(wire) + 1] = f
      BY <1>1, <3>1
    <3>7. wire' # <<>> /\ Head(wire') = (IF wire = <<>> THEN f ELSE Head(wire))
      BY <1>1, <3>1, OneMore
    <3>8. /\ Len(wire) = 0 => wire = <<>>
          /\ wire # <<>> => Len(wire) > 0
      BY <1>1
    <3>2. /\ Len(wire') = Len(wire) + 1 /\ Len(wire) \in Nat
          /\ Len(wire) > 0 => Head(wire') = Head(wire)
          /\ Len(wire) > 1 => wire'[2] = wire[2]
          /\ Len(wire) = 0 => wire = <<>> /\ Head(wire') = f
          /\ Len(wire) = 1 => wire'[2] = f
          /\ wire # <<>> => Len(wire) > 0
          /\ wire' # <<>>
      <4>1. Len(wire) > 0 => wire # <<>>
        OBVIOUS
      <4> QED
        BY <3>6, <3>7, <3>8, <4>1
    <3>3. writer' = "urgent" /\ (WriteUrgent \/ writer = "any")
      BY <1>3, <2>2 DEF WriteUrgent, WriteBulk
    <3>4. urgent # <<>> /\ ~WriteUrgent => urgent' = urgent
      BY <2>2 DEF WriteBulk
    <3>5. ~early /\ agent = "waiting" => server \notin Preparing
      BY <1>2, <2>2 DEF WelcomeNear, WriteUrgent, WriteBulk
    <3> QED
      BY <1>2, <3>1, <3>2, <3>3, <3>4, <3>5 DEF WelcomeNear, serverVars
  <2> QED
    BY <1>3, <2>1, <2>2
<1>7. Served'
  BY <1>2, <1>4 DEF Served, serverVars
<1> QED
  BY <1>2, <1>5, <1>6, <1>7 DEF RefusedOnlyIfOvertaken, Served

\* The agent reads the first frame: it is welcome, or somebody was early, or the
\* welcome is next.
LEMMA ReadKeeps ==
    ASSUME HandshakeInv, Read
    PROVE  HandshakeInv'
<1> USE DEF HandshakeInv
<1>1. wire \in Seq(FrameTypes) /\ wire # <<>> /\ wire' = Tail(wire)
  BY DEF HandshakeTypeOK, Read
<1>2. ASSUME NEW S, wire \in Seq(S)
      PROVE  Head(wire) \in S /\ wire' \in Seq(S)
  BY <1>1, <1>2, OneLess
<1>3. Head(wire) = "welcome" => recorded
  BY <1>2 DEF Served
<1>4. wire' \in Seq(FrameTypes)
  BY <1>1, <1>2
<1>5. HandshakeTypeOK'
  BY <1>3, <1>4 DEF Read, HandshakeTypeOK, serverVars, laneVars
<1>6. agent = "waiting" /\ Head(wire) # "welcome" /\ ~early =>
        /\ raced /\ server \notin Preparing
        /\ IF wire' = <<>> THEN urgent # <<>> /\ Head(urgent) = "welcome"
                           ELSE Head(wire') = "welcome"
  <2>1. /\ Len(wire) = 1 => wire' = <<>>
        /\ Len(wire) > 1 => wire' # <<>> /\ Head(wire') = wire[2]
    <3>1. /\ Len(wire) \in Nat /\ Len(wire') = Len(wire) - 1
          /\ \A i \in 1..Len(wire') : wire'[i] = wire[i + 1]
      BY <1>1
    <3>2. Len(wire) = 1 => wire' = <<>>
      BY <1>4, <3>1
    <3>3. Len(wire) > 1 => Len(wire') > 0 /\ wire' # <<>> /\ Head(wire') = wire'[1] /\ wire'[1] = wire[2]
      BY <1>4, <3>1
    <3> QED
      BY <3>2, <3>3
  <2> QED
    BY <1>1, <2>1 DEF Read, WelcomeNear, HandshakeTypeOK
<1>7. RefusedOnlyIfOvertaken'
  BY <1>6 DEF Read, RefusedOnlyIfOvertaken, laneVars, Served
<1>8. Served'
  BY <1>2, <1>6 DEF Read, Served, serverVars, laneVars
<1> QED
  BY <1>5, <1>7, <1>8 DEF Read, WelcomeNear

\* Every step keeps the invariant.
LEMMA HandshakeStepInv ==
    ASSUME HandshakeInv, [HandshakeNext]_handshakeVars
    PROVE  HandshakeInv'
<1>1. CASE Break \/ UNCHANGED handshakeVars
  <2>1. UNCHANGED <<serverVars, laneVars, wire>> /\ (open' => open)
    BY <1>1 DEF Break, handshakeVars, HandshakeInv, HandshakeTypeOK
  <2>2. /\ agent' \in {agent, "failed"}
        /\ open' = FALSE \/ UNCHANGED <<agent, open>>
    BY <1>1 DEF Break, handshakeVars
  <2>3. HandshakeTypeOK'
    <3>1. /\ UNCHANGED <<server, registered, recorded, early, raced, writer>>
          /\ UNCHANGED <<sent, urgent, bulk, wire>>
      BY <2>1 DEF serverVars, laneVars
    <3>2. open' \in BOOLEAN
      BY <2>2 DEF HandshakeInv, HandshakeTypeOK
    <3>3. agent' \in {"waiting", "connected", "refused", "failed"} /\ (agent' = "connected" => agent = "connected")
      BY <2>2 DEF HandshakeInv, HandshakeTypeOK
    <3> QED
      BY <3>1, <3>2, <3>3 DEF HandshakeInv, HandshakeTypeOK
  <2>4. RefusedOnlyIfOvertaken'
    BY <2>1, <2>2 DEF HandshakeInv, RefusedOnlyIfOvertaken, laneVars
  <2>5. WelcomeNear'
    BY <2>1, <2>2 DEF HandshakeInv, WelcomeNear, serverVars, laneVars
  <2>6. Served'
    BY <2>1, <2>2 DEF HandshakeInv, Served, serverVars, laneVars
  <2> QED
    BY <2>3, <2>4, <2>5, <2>6 DEF HandshakeInv
<1> QED
  BY <1>1, ServeKeeps, UseKeeps, WriteKeeps, ReadKeeps DEF HandshakeNext

\* For any number of frames that callers put on a young tunnel: an agent is told it
\* is welcome only after the cluster's health was recorded, and it turns the server
\* away only if one of them came before the welcome, or one slipped past it between
\* the writer's two looks, with the welcome right behind (serveTunnel, nextFrame).
THEOREM RefusalIsEarned == HandshakeSpec => [](HandshakeTypeOK /\ RefusedOnlyIfOvertaken)
<1>1. HandshakeInv => HandshakeTypeOK /\ RefusedOnlyIfOvertaken
  BY DEF HandshakeInv
<1> QED
  BY <1>1, HandshakeStart, HandshakeStepInv, PTL DEF HandshakeSpec
=============================================================================
