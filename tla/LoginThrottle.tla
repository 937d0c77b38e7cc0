--------------------------- MODULE LoginThrottle ---------------------------
(* The counts that slow down password guessing
   (backend/pkg/auth/throttle.go): one table of pairs of account and address,
   one of accounts, one of addresses.  A check is reserved with Begin and
   settled once, by Fail, Succeed or Release.

   A slot is a key of a table; an entry's times are kept as how long it has been
   quiet and how long it is still locked.  A slot without an entry has its
   counts at zero.                                                            *)
EXTENDS Integers, FiniteSets

CONSTANTS
    Checks,    \* the requests that check a password
    Accounts,
    Sources,
    Free,      \* ThrottlePolicy.Free of each side
    Base,
    MaxLock,   \* ThrottlePolicy.Max
    Forget,
    Limit      \* MaxThrottleKeys

Sides == {"pair", "account", "source"}

ASSUME PolicyBounds ==
    /\ Free \in [Sides -> Nat]
    /\ Base \in Nat \ {0} /\ MaxLock \in Nat /\ Base <= MaxLock
    /\ Forget \in Nat \ {0} /\ Limit \in Nat
ASSUME ChecksAreFinite == IsFiniteSet(Checks)

VARIABLES
    tracked,   \* the slots that have an entry
    failures,
    inFlight,
    quiet,     \* since lastFailure
    lock,      \* until lockedUntil
    swept,     \* the sides swept within sweepEvery
    keys       \* of each check, the slots it was counted under

throttleVars == <<tracked, failures, inFlight, quiet, lock, swept, keys>>

Slot(d, k) == [side |-> d, key |-> k]
Overflow(d) == Slot(d, <<"overflow">>)
Pair(a, s) == <<a, s>>
Wanted(a, s) == {Slot("pair", Pair(a, s)), Slot("account", a), Slot("source", s)}
Slots ==
    (UNION {Wanted(a, s) : a \in Accounts, s \in Sources}) \cup {Overflow(d) : d \in Sides}

\* Bound: further failures lock for as long.
Ceiling(d) == Free[d] + MaxLock + 1
\* ThrottlePolicy.lock for the nth failure past the free ones: Base, doubled each
\* time, up to the ceiling.
Lock(n) == LET d == Base * 2 ^ (n - 1) IN IF d \in 0..MaxLock THEN d ELSE MaxLock

ThrottleInit ==
    /\ tracked = {} /\ swept = {}
    /\ failures = [t \in Slots |-> 0] /\ inFlight = [t \in Slots |-> 0]
    /\ quiet = [t \in Slots |-> Forget] /\ lock = [t \in Slots |-> 0]
    /\ keys = [x \in Checks |-> {}]

-----------------------------------------------------------------------------
OfSide(d) == {t \in tracked : t.side = d}
\* lookup, for a key that has an entry: one gone quiet starts again.
Stale(t) == quiet[t] = Forget /\ lock[t] = 0
Reset(f, T) == [t \in Slots |-> IF t \in T THEN 0 ELSE f[t]]

\* What makeRoom drops from a side that is full.
Droppable(d) == {t \in OfSide(d) : t # Overflow(d) /\ inFlight[t] = 0 /\ Stale(t)}
Full(d) == Cardinality(OfSide(d)) >= Limit

\* The sides that Begin sweeps, and the slots its check is counted under.
Sweeps(a, s) == {d \in Sides : Full(d) /\ d \notin swept /\ \E t \in Wanted(a, s) : t.side = d /\ t \notin tracked}
Dropped(a, s) == UNION {Droppable(d) : d \in Sweeps(a, s)}
Counted(a, s) ==
    LET roomy(d) == Cardinality(OfSide(d) \ Dropped(a, s)) < Limit
    IN  {IF t \in tracked \/ roomy(t.side) THEN t ELSE Overflow(t.side) : t \in Wanted(a, s)}

\* Mutant: only finished failures are counted.
WaitsForLock(f, t) == lock[t] > 0

\* throttleTable.wait, for the failures f.
Allowed(f, t) == IF f[t] <= Free[t.side] THEN Free[t.side] + 1 - f[t] ELSE 1
Waits(f, t) == lock[t] > 0 \/ inFlight[t] >= Allowed(f, t)

\* Begin.  Refused, it has still swept and looked up.
Begin(x, a, s) ==
    LET gone == Dropped(a, s)
        want == Counted(a, s)
        now == Reset(failures, gone \cup {t \in Wanted(a, s) \cap tracked : Stale(t)})
    IN  /\ keys[x] = {}
        /\ swept' = swept \cup Sweeps(a, s)
        /\ failures' = now
        /\ UNCHANGED <<quiet, lock>>
        /\ IF \E t \in want : Waits(now, t)
           THEN /\ tracked' = tracked \ gone
                /\ UNCHANGED <<inFlight, keys>>
           ELSE /\ tracked' = (tracked \ gone) \cup want
                /\ inFlight' = [t \in Slots |-> IF t \in want THEN inFlight[t] + 1 ELSE inFlight[t]]
                /\ keys' = [keys EXCEPT ![x] = want]

Settled(x) ==
    /\ keys[x] # {}
    /\ keys' = [keys EXCEPT ![x] = {}]
    /\ UNCHANGED swept

\* One check of T less in flight.
Less(T) == [t \in Slots |-> IF t \in T /\ inFlight[t] > 0 THEN inFlight[t] - 1 ELSE inFlight[t]]

\* Mutant: a wrong password is counted, but its check stays in flight.
FailStaysInFlight(x) ==
    /\ Settled(x)
    /\ failures' = [t \in Slots |->
          IF t \in keys[x] /\ failures[t] < Ceiling(t.side) THEN failures[t] + 1 ELSE failures[t]]
    /\ UNCHANGED <<inFlight, quiet, lock, tracked>>

Fail(x) ==
    /\ Settled(x)
    /\ inFlight' = Less(keys[x])
    /\ failures' = [t \in Slots |->
          IF t \in keys[x] /\ failures[t] < Ceiling(t.side) THEN failures[t] + 1 ELSE failures[t]]
    /\ quiet' = Reset(quiet, keys[x])
    /\ lock' = [t \in Slots |->
          IF t \in keys[x] /\ failures[t] >= Free[t.side]
          THEN Lock(failures[t] + 1 - Free[t.side]) ELSE lock[t]]
    /\ UNCHANGED tracked

\* Mutant: an entry goes with its failures, whoever else holds it.
ReleaseDropsEntry(x) ==
    /\ Settled(x)
    /\ inFlight' = Less(keys[x])
    /\ tracked' = tracked \ {t \in keys[x] : t # Overflow(t.side) /\ failures[t] = 0}
    /\ UNCHANGED <<failures, quiet, lock>>

\* release: a key with nothing to count holds no entry.
Release(x) ==
    /\ Settled(x)
    /\ inFlight' = Less(keys[x])
    /\ tracked' = tracked \ {t \in keys[x] :
          t # Overflow(t.side) /\ inFlight[t] <= 1 /\ failures[t] = 0}
    /\ UNCHANGED <<failures, quiet, lock>>

Succeed(x) ==
    LET clear == {t \in keys[x] : t.side # "source" /\ t # Overflow(t.side)}
        f == Reset(failures, clear)
    IN  /\ Settled(x)
        /\ failures' = f /\ lock' = Reset(lock, clear)
        /\ inFlight' = Less(keys[x])
        /\ tracked' = tracked \ {t \in keys[x] :
              t # Overflow(t.side) /\ inFlight[t] <= 1 /\ f[t] = 0}
        /\ UNCHANGED quiet

\* Time: locks run out, keys go quiet, a table may be swept again.
Tick ==
    /\ quiet' = [t \in Slots |-> IF quiet[t] < Forget THEN quiet[t] + 1 ELSE quiet[t]]
    /\ lock' = [t \in Slots |-> IF lock[t] > 0 THEN lock[t] - 1 ELSE 0]
    /\ swept' = {}
    /\ UNCHANGED <<tracked, failures, inFlight, keys>>

Settle(x) == Fail(x) \/ Succeed(x) \/ Release(x)

ThrottleNext ==
    \/ Tick
    \/ \E x \in Checks :
          \/ Settle(x)
          \/ \E a \in Accounts, s \in Sources : Begin(x, a, s)

ThrottleSpec == ThrottleInit /\ [][ThrottleNext]_throttleVars

\* Every handler settles what it reserved (a deferred Release), and time passes.
FairThrottleSpec ==
    /\ ThrottleSpec /\ WF_throttleVars(Tick)
    /\ \A x \in Checks : WF_throttleVars(Settle(x))

-----------------------------------------------------------------------------
(* What is checked. *)

\* Types.
ThrottleTypeOK ==
    /\ tracked \subseteq Slots /\ swept \subseteq Sides
    /\ keys \in [Checks -> SUBSET Slots]
    /\ failures \in [Slots -> Nat] /\ inFlight \in [Slots -> Nat]
    /\ quiet \in [Slots -> 0..Forget] /\ lock \in [Slots -> 0..MaxLock]

\* A slot's count of running checks is that of the checks that hold it: it
\* neither leaks, which would refuse its owner for ever, nor is lost.
InFlightExact ==
    \A t \in Slots : inFlight[t] = Cardinality({x \in Checks : t \in keys[x]})

\* "A key never has more checks in flight than it has free attempts left, and
\* once those are spent its attempts run one at a time" (throttle.go:47-48), so
\* that sending guesses in parallel gains nothing.
AllowanceKept ==
    \A t \in Slots : inFlight[t] > 1 => failures[t] + inFlight[t] <= Free[t.side] + 1

\* Whoever is counted has an entry, whatever was swept or released meanwhile.
CountsAreTracked ==
    \A t \in Slots : inFlight[t] > 0 \/ failures[t] > 0 => t \in tracked

\* An address's count is forgotten only when it has been quiet and is unlocked:
\* no login that succeeds, no sweep and no full table resets it.
SourceKeepsCount ==
    [][\A t \in Slots : t.side = "source" /\ failures'[t] < failures[t] => Stale(t)]_throttleVars

\* "It is a delay, not a lockout" (throttle.go:40): whatever the guesses, every
\* key is again and again free to try.
LookedUp == Reset(failures, {t \in tracked : Stale(t) /\ t # Overflow(t.side)})
DelayNotLockout == \A t \in Slots : []<>(~Waits(LookedUp, t))

\* Each count is that of the checks that are running, and is kept with its key.
CountsExact == ThrottleTypeOK /\ InFlightExact /\ CountsAreTracked

\* Guesses from an address are neither forgotten nor held against it for ever.
GuessesDelay == SourceKeepsCount /\ DelayNotLockout
=============================================================================
