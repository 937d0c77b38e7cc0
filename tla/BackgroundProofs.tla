-------------------------- MODULE BackgroundProofs ---------------------------
(* What the server does behind its requests: the alarm watch under its lease, the
   response cache, the audit trail and the cron search.  They share no state.  *)
EXTENDS AlarmWatch, ReadCache, AuditTrail, CronSchedule, SeqSumsProofs, FiniteSetTheorems

-----------------------------------------------------------------------------
(* That two replicas overlap only as long as clocks and slow passes allow, and
   that each offers an occurrence at most once, for any number of replicas and
   events, any clocks, the cluster's among them, and any terms.  OneWatcher is not inductive: a replica that
   takes the lease meets those that took it before, whoever held it in between,
   so the invariant keeps what is left of the row against every pass at work. *)

\* What is left of the lease covers what is left of the term of every pass.
TermCovered ==
    \A r \in Replicas : Working(r) => lease.left >= LeaseTTL + Ahead[r] - worked[r]

\* A holder never has more than a term of its own.
TermBounded ==
    \A r \in Replicas : Holds(r) => lease.left <= LeaseTTL + Ahead[r]

\* Once another holds the lease, a pass still at work is past its term.
OvertakenIsLate ==
    \A r, q \in Replicas : r # q /\ Working(r) /\ Holds(q) =>
        worked[r] + Ahead[q] > LeaseTTL + Ahead[r]

\* Reading only moves the mark forward from where it was established.
MarkAfterBase == \A r \in Replicas : mark[r] <= base[r]

\* The two halves of the inductive invariant: of the lease, and of the marks.
LeaseInv == TermCovered /\ TermBounded /\ OvertakenIsLate /\ OneWatcher
OfferInv == NothingReplayed /\ NothingTwice /\ SkippedHasTwin /\ MarkAfterBase

(* The inductive invariant. *)
WatchInv == WatchTypeOK /\ LeaseInv /\ OfferInv

-----------------------------------------------------------------------------
\* It holds at first.
LEMMA WatchInitInv == WatchInit => WatchInv
<1> SUFFICES ASSUME WatchInit
             PROVE  WatchInv
  OBVIOUS
<1> USE AClockEach, FormerIsGone, WindowBounds DEF WatchInit
<1>1. WatchTypeOK
  BY DEF WatchTypeOK, Ages, Unknown, Old, LongAgo
<1>2. LeaseInv
  BY DEF LeaseInv, TermCovered, TermBounded, OvertakenIsLate, OneWatcher, Working, Holds
<1>3. OfferInv
  BY DEF OfferInv, NothingReplayed, NothingTwice, SkippedHasTwin, MarkAfterBase, Unknown
<1>4. QED
  BY <1>1, <1>2, <1>3 DEF WatchInv

\* Ageing keeps the order of ages, and what is Old.
LEMMA OlderKeeps ==
    ASSUME NEW a \in Ages, NEW b \in Ages
    PROVE  /\ Older(a) \in Ages
           /\ a \in 0..Old => Older(a) \in 0..Old
           /\ a = Unknown <=> Older(a) = Unknown
           /\ a = Old => Older(a) = Old
           /\ a <= b => Older(a) <= Older(b)
           /\ a \in 0..Old /\ a < b => Older(a) = Old \/ Older(a) < Older(b)
BY WindowBounds, AClockEach DEF Ages, Old, Unknown, Older

\* A replica's own time is an age that is known.
LEMMA OwnTime == \A r \in Replicas : -Lead(r) \in Ages \ {Unknown}
<1> SUFFICES ASSUME NEW r \in Replicas
             PROVE  -Lead(r) \in Ages \ {Unknown}
  OBVIOUS
<1>1. /\ Skew \in Nat /\ Ahead[r] \in Nat /\ Ahead[r] <= Skew
      /\ ClusterAhead \in Nat /\ MaxAge \in Nat
  BY AClockEach, WindowBounds
<1>2. -Lead(r) = ClusterAhead - Ahead[r]
  BY <1>1 DEF Lead
<1> QED
  BY <1>1, <1>2 DEF Ages, Old, Unknown

\* Events that are fresh have a latest one, which is where the mark goes.
LEMMA LatestFresh ==
    ASSUME WatchTypeOK, NEW r \in Replicas, Fresh(r) # {}
    PROVE  /\ Latest(r) \in 0..Old
           /\ \E e \in Fresh(r) : age[e] = Latest(r)
           /\ \A e \in Fresh(r) : Latest(r) <= age[e]
<1> DEFINE T == {age[e] : e \in Fresh(r)}
<1>1. Fresh(r) \subseteq Events
  BY DEF Fresh, WatchTypeOK
<1>2. T \subseteq 0..Old /\ Old \in Nat
  BY <1>1, WindowBounds, AClockEach DEF Fresh, WatchTypeOK, Old
<1>3. PICK x \in T : \A y \in T : ~(<<y, x>> \in OpToRel(<, Nat))
  <2>1. T \subseteq Nat /\ T # {}
    BY <1>2, WindowBounds
  <2>2. QED
    BY <2>1, NatLessThanWellFounded, WFMin
<1>4. ASSUME NEW y \in T
      PROVE  ~(y < x)
  <2>1. OpToRel(<, Nat) = {ss \in Nat \X Nat : ss[1] < ss[2]}
    BY Zenon DEF OpToRel
  <2>2. y \in Nat /\ x \in Nat
    BY <1>2, WindowBounds
  <2>3. y < x => <<y, x>> \in {ss \in Nat \X Nat : ss[1] < ss[2]}
    BY <2>2
  <2>4. QED
    BY <1>3, <2>1, <2>3
<1>5. /\ x \in 0..Old
      /\ \E e \in Fresh(r) : age[e] = x
      /\ \A e \in Fresh(r) : x <= age[e]
  <2>1. x \in 0..Old /\ \E e \in Fresh(r) : age[e] = x
    BY <1>2
  <2>2. ASSUME NEW e \in Fresh(r)
        PROVE  x <= age[e]
    <3>1. age[e] \in T
      OBVIOUS
    <3>2. age[e] \in Nat /\ x \in Nat /\ ~(age[e] < x)
      BY <1>2, <1>4, <3>1, WindowBounds
    <3>3. QED
      BY <3>2
  <2>3. QED
    BY <2>1, <2>2
<1>6. QED
  BY <1>5 DEF Latest

-----------------------------------------------------------------------------
(* Types. *)
LEMMA IdleType ==
    ASSUME WatchTypeOK, NEW r \in Replicas, Idle(r)
    PROVE  /\ lease' = lease /\ age' = age
           /\ at' \in [Replicas -> {"off", "idle", "listing", "reading", "read"}]
           /\ worked' \in [Replicas -> 0..LongAgo]
           /\ items' \in [Replicas -> SUBSET Events]
BY AClockEach, WindowBounds DEF WatchTypeOK, Idle, LongAgo

\* Every step keeps the types.
LEMMA TypeStep == WatchTypeOK /\ [WatchNext]_watchVars => WatchTypeOK'
<1> SUFFICES ASSUME WatchTypeOK, [WatchNext]_watchVars
             PROVE  WatchTypeOK'
  OBVIOUS
<1> USE AClockEach, FormerIsGone, WindowBounds DEF WatchTypeOK
<1>0. Unknown \in Ages /\ Unknown < 0 /\ 0..Old \subseteq Ages
  BY DEF Ages, Old, Unknown
<1>1. CASE Tick
  <2>1. \A e \in Events : age[e] \in Ages /\ age[e] \in 0..Old
    BY <1>0
  <2>2. age' \in [Events -> 0..Old] /\ mark' \in [Replicas -> Ages] /\ base' \in [Replicas -> Ages]
    BY <1>1, <2>1, OlderKeeps DEF Tick
  <2>3. \A r \in Replicas : (mark'[r] = Unknown <=> base'[r] = Unknown)
    BY <1>1, OlderKeeps DEF Tick
  <2>4. lease' \in [holder : Replicas \cup {Former}, left : Int] /\ lease'.left >= -1
    BY <1>1 DEF Tick
  <2>5. worked' \in [Replicas -> 0..LongAgo]
    BY <1>1 DEF Tick, LongAgo
  <2>6. sent' \in [Replicas -> SUBSET Events] /\ skipped' \in [Replicas -> SUBSET Events]
    BY <1>1 DEF Tick
  <2>7. QED
    BY <1>1, <2>2, <2>3, <2>4, <2>5, <2>6 DEF Tick
<1>2. CASE \E e \in Events : Emit(e)
  BY <1>2 DEF Emit, passVars, Old
<1>4. ASSUME NEW r \in Replicas, Die(r)
      PROVE  WatchTypeOK'
  <2>1. lease' \in [holder : Replicas \cup {Former}, left : Int] /\ lease'.left >= -1
    BY <1>4 DEF Die
  <2>2. \A q \in Replicas : (mark'[q] = Unknown <=> base'[q] = Unknown)
    BY <1>4 DEF Die
  <2>3. QED
    BY <1>0, <1>4, <2>1, <2>2 DEF Die, LongAgo
<1>5. ASSUME NEW r \in Replicas, Start(r)
      PROVE  WatchTypeOK'
  BY <1>5 DEF Start
<1>6. ASSUME NEW r \in Replicas, AcquireLease(r)
      PROVE  WatchTypeOK'
  <2>1. lease' \in [holder : Replicas \cup {Former}, left : Int] /\ lease'.left >= -1
    BY <1>6 DEF AcquireLease, Take
  <2>2. QED
    BY <1>6, <2>1 DEF AcquireLease, Take, LongAgo
<1>7. ASSUME NEW r \in Replicas, Look(r) \/ Read(r)
      PROVE  WatchTypeOK'
  BY <1>7 DEF Look, Read
<1>8. ASSUME NEW r \in Replicas, ReadFails(r)
      PROVE  WatchTypeOK'
  BY <1>8, IdleType DEF ReadFails
<1>9. ASSUME NEW r \in Replicas, Forget(r)
      PROVE  WatchTypeOK'
  <2>1. \A q \in Replicas : (mark'[q] = Unknown <=> base'[q] = Unknown)
    BY <1>9 DEF Forget
  <2>2. QED
    BY <1>0, <1>9, <2>1, IdleType DEF Forget
<1>10. ASSUME NEW r \in Replicas, Establish(r)
       PROVE  WatchTypeOK'
  <2>1. \A q \in Replicas : (mark'[q] = Unknown <=> base'[q] = Unknown)
    BY <1>10, OwnTime DEF Establish
  <2>2. mark' \in [Replicas -> Ages] /\ base' \in [Replicas -> Ages]
    BY <1>10, OwnTime DEF Establish
  <2>3. QED
    BY <1>10, <2>1, <2>2, IdleType DEF Establish
<1>11. ASSUME NEW r \in Replicas, Offer(r)
       PROVE  WatchTypeOK'
  <2>1. PICK out \in SUBSET Fresh(r) : Offered(r, out)
    BY <1>11 DEF Offer
  <2>2. Fresh(r) \subseteq Events
    BY DEF Fresh
  <2>3. mark' \in [Replicas -> Ages] /\ (mark'[r] # Unknown)
    <3>1. CASE Fresh(r) = {}
      BY <1>11, <2>1, <3>1 DEF Offered, Offer
    <3>2. CASE Fresh(r) # {}
      BY <1>0, <2>1, <3>2, LatestFresh DEF Offered
    <3>3. QED
      BY <3>1, <3>2
  <2>4. \A q \in Replicas : (mark'[q] = Unknown <=> base'[q] = Unknown)
    BY <1>11, <2>1, <2>3 DEF Offer, Offered
  <2>5. sent' \in [Replicas -> SUBSET Events] /\ skipped' \in [Replicas -> SUBSET Events]
    BY <2>1, <2>2 DEF Offered
  <2>6. base' = base /\ Idle(r)
    BY <2>1 DEF Offered
  <2>7. QED
    BY <2>3, <2>4, <2>5, <2>6, IdleType
<1>12. CASE UNCHANGED watchVars
  BY <1>12 DEF watchVars, passVars
<1>13. QED
  BY <1>1, <1>2, <1>4, <1>5, <1>6, <1>7, <1>8, <1>9, <1>10, <1>11, <1>12
  DEF WatchNext, Pass

-----------------------------------------------------------------------------
(* The lease. *)

\* What the lease's invariant reads, and which steps leave that alone or only
\* end a pass.
LEMMA LeaseUntouched ==
    ASSUME WatchTypeOK, LeaseInv, lease' = lease,
           \A r \in Replicas : Working(r)' => Working(r) /\ worked'[r] = worked[r]
    PROVE  LeaseInv'
BY DEF LeaseInv, TermCovered, TermBounded, OvertakenIsLate, OneWatcher, Holds

\* Time that passes keeps LeaseInv: it takes from the row and from the passes alike.
LEMMA LeaseTick ==
    ASSUME WatchTypeOK, LeaseInv, Tick
    PROVE  LeaseInv'
<1> USE AClockEach, WindowBounds DEF WatchTypeOK
<1>1. lease'.holder = lease.holder
      /\ lease'.left = (IF lease.left < 0 THEN lease.left ELSE lease.left - 1)
      /\ lease.left \in Int
  BY DEF Tick
<1>2. ASSUME NEW r \in Replicas
      PROVE  /\ Working(r)' <=> Working(r)
             /\ Holds(r)' <=> Holds(r)
             /\ worked[r] \in Nat /\ worked'[r] \in Nat /\ worked[r] <= worked'[r]
             /\ Working(r) => worked'[r] = worked[r] + 1
                              \/ (worked'[r] = worked[r] /\ worked[r] = LongAgo)
             /\ Ahead[r] \in Nat /\ Ahead[r] <= Skew
  BY <1>1 DEF Tick, Working, Holds, LongAgo
<1>3. TermCovered'
  BY <1>1, <1>2 DEF LeaseInv, TermCovered, LongAgo
<1>4. TermBounded'
  BY <1>1, <1>2 DEF LeaseInv, TermBounded
<1>5. OvertakenIsLate'
  BY <1>2 DEF LeaseInv, OvertakenIsLate
<1>6. OneWatcher'
  BY <1>2 DEF LeaseInv, OneWatcher
<1>7. QED
  BY <1>3, <1>4, <1>5, <1>6 DEF LeaseInv

\* A replica that takes the lease finds every other pass past its term: by what is
\* left of the row if it ran out, by OvertakenIsLate if it was its own.
LEMMA LeaseTaken ==
    ASSUME WatchTypeOK, LeaseInv, NEW q \in Replicas, AcquireLease(q)
    PROVE  LeaseInv'
<1> USE AClockEach, FormerIsGone, WindowBounds DEF WatchTypeOK
<1>1. /\ lease'.holder = q /\ lease'.left = LeaseTTL + Ahead[q]
      /\ worked'[q] = 0 /\ lease.left \in Int
      /\ lease.left < Ahead[q] \/ Holds(q)
  BY DEF AcquireLease, Take
<1>2. ASSUME NEW r \in Replicas, r # q
      PROVE  /\ Working(r)' <=> Working(r)
             /\ worked'[r] = worked[r]
  BY <1>2 DEF AcquireLease, Take, Working
<1>3. \A r \in Replicas : Ahead[r] \in Nat /\ worked[r] \in Nat
  BY DEF LongAgo
<1>4. ASSUME NEW r \in Replicas, r # q, Working(r)
      PROVE  worked[r] + Ahead[q] > LeaseTTL + Ahead[r]
  <2>1. CASE lease.left < Ahead[q]
    BY <1>1, <1>3, <1>4, <2>1 DEF LeaseInv, TermCovered
  <2>2. CASE Holds(q)
    BY <1>4, <2>2 DEF LeaseInv, OvertakenIsLate
  <2>3. QED
    BY <1>1, <2>1, <2>2
<1>5. TermCovered'
  <2> SUFFICES ASSUME NEW r \in Replicas, Working(r)'
               PROVE  (lease.left >= LeaseTTL + Ahead[r] - worked[r])'
    BY DEF TermCovered
  <2>1. CASE r = q
    BY <1>1, <1>3, <2>1
  <2>2. CASE r # q
    <3>1. Working(r) /\ lease.left >= LeaseTTL + Ahead[r] - worked[r]
      BY <1>2, <2>2 DEF LeaseInv, TermCovered
    <3>2. lease'.left >= lease.left
      BY <1>1, <1>3 DEF LeaseInv, TermBounded
    <3>3. QED
      BY <1>1, <1>2, <1>3, <2>2, <3>1, <3>2
  <2>3. QED
    BY <2>1, <2>2
<1>6. TermBounded'
  BY <1>1, <1>3 DEF TermBounded, Holds
<1>7. OvertakenIsLate'
  BY <1>1, <1>2, <1>4 DEF OvertakenIsLate, Holds
<1>8. OneWatcher'
  BY <1>1, <1>2, <1>4 DEF LeaseInv, OneWatcher
<1>9. QED
  BY <1>5, <1>6, <1>7, <1>8 DEF LeaseInv

\* Every step keeps LeaseInv.
LEMMA LeaseStep == WatchTypeOK /\ LeaseInv /\ [WatchNext]_watchVars => LeaseInv'
<1> SUFFICES ASSUME WatchTypeOK, LeaseInv, [WatchNext]_watchVars
             PROVE  LeaseInv'
  OBVIOUS
<1>1. CASE Tick
  BY <1>1, LeaseTick
<1>2. CASE UNCHANGED watchVars \/ \E e \in Events : Emit(e)
  BY <1>2, LeaseUntouched DEF watchVars, passVars, Emit, Working
<1>3. ASSUME NEW r \in Replicas, Die(r)
      PROVE  LeaseInv'
  <2>1. \A q \in Replicas : Working(q)' => Working(q) /\ worked'[q] = worked[q]
    BY <1>3 DEF Die, Working, WatchTypeOK
  <2>2. lease'.left = lease.left
    BY <1>3 DEF Die, WatchTypeOK
  <2>3. \A q \in Replicas : Holds(q)' => Holds(q)
    BY <1>3, FormerIsGone DEF Die, Holds, WatchTypeOK
  <2>4. QED
    BY <2>1, <2>2, <2>3
    DEF LeaseInv, TermCovered, TermBounded, OvertakenIsLate, OneWatcher
<1>4. ASSUME NEW r \in Replicas, AcquireLease(r)
      PROVE  LeaseInv'
  BY <1>4, LeaseTaken
<1>5. ASSUME NEW r \in Replicas, Start(r) \/ Look(r) \/ Read(r)
      PROVE  LeaseInv'
  <2>1. \A q \in Replicas : Working(q)' => Working(q) /\ worked'[q] = worked[q]
    BY <1>5 DEF Start, Look, Read, Working, WatchTypeOK
  <2>2. QED
    BY <1>5, <2>1, LeaseUntouched DEF Start, Look, Read
<1>6. ASSUME NEW r \in Replicas, Idle(r)
      PROVE  LeaseInv'
  <2>1. \A q \in Replicas : Working(q)' => Working(q) /\ worked'[q] = worked[q]
    BY <1>6 DEF Idle, Working, WatchTypeOK
  <2>2. QED
    BY <1>6, <2>1, LeaseUntouched DEF Idle
<1>7. QED
  BY <1>1, <1>2, <1>3, <1>4, <1>5, <1>6
  DEF WatchNext, Pass, Forget, ReadFails, Establish, Offer, Offered

-----------------------------------------------------------------------------
(* The marks. *)

\* Time that passes keeps OfferInv.
LEMMA OfferTick ==
    ASSUME WatchTypeOK, OfferInv, Tick
    PROVE  OfferInv'
<1>1. /\ \A e \in Events : age[e] \in Ages /\ age[e] \in 0..Old /\ age'[e] = Older(age[e])
      /\ \A r \in Replicas : /\ mark[r] \in Ages /\ mark'[r] = Older(mark[r])
                             /\ base[r] \in Ages /\ base'[r] = Older(base[r])
      /\ \A r \in Replicas : /\ sent'[r] = {e \in sent[r] : age'[e] # Old}
                             /\ skipped'[r] = {e \in skipped[r] : age'[e] # Old}
      /\ \A r \in Replicas : sent[r] \subseteq Events /\ skipped[r] \subseteq Events
  <2>1. 0..Old \subseteq Ages
    BY AClockEach, WindowBounds DEF Ages, Old, Unknown
  <2> QED
    BY <2>1 DEF WatchTypeOK, Tick
<1>2. MarkAfterBase'
  BY <1>1, OlderKeeps DEF OfferInv, MarkAfterBase
<1>3. NothingReplayed'
  BY <1>1, OlderKeeps DEF OfferInv, NothingReplayed
<1>4. NothingTwice'
  BY <1>1, OlderKeeps DEF OfferInv, NothingTwice
<1>5. SkippedHasTwin'
  <2> SUFFICES ASSUME NEW r \in Replicas, NEW e \in skipped'[r]
               PROVE  \E o \in sent'[r] : age'[o] = age'[e]
    BY DEF SkippedHasTwin
  <2>1. e \in skipped[r] /\ age'[e] # Old
    BY <1>1
  <2>2. PICK o \in sent[r] : age[o] = age[e]
    BY <2>1 DEF OfferInv, SkippedHasTwin
  <2>3. age'[o] = age'[e] /\ o \in sent'[r]
    BY <1>1, <2>1, <2>2
  <2>4. QED
    BY <2>3
<1>6. QED
  BY <1>2, <1>3, <1>4, <1>5 DEF OfferInv

\* An event that arrives, late or not, keeps it.
LEMMA OfferEmit ==
    ASSUME WatchTypeOK, OfferInv, NEW x \in Events, Emit(x)
    PROVE  OfferInv'
<1>1. /\ age[x] = Old
      /\ \A e \in Events \ {x} : age'[e] = age[e]
      /\ UNCHANGED <<mark, base, sent, skipped>>
      /\ \A r \in Replicas : sent[r] \subseteq Events /\ skipped[r] \subseteq Events
  BY DEF WatchTypeOK, Emit, passVars
<1>2. \A r \in Replicas : base[r] <= Old /\ base[r] \in Int /\ Old \in Int
  BY WindowBounds, AClockEach DEF WatchTypeOK, Ages, Old, Unknown
<1>3. \A r \in Replicas : x \notin sent[r]
  BY <1>1, <1>2 DEF OfferInv, NothingReplayed
<1>4. \A r \in Replicas : \A o \in sent[r] : age[o] # Old
  BY <1>1, <1>2 DEF OfferInv, NothingReplayed
<1>5. \A r \in Replicas : x \notin skipped[r]
  BY <1>1, <1>4 DEF OfferInv, SkippedHasTwin
<1>6. QED
  BY <1>1, <1>3, <1>5 DEF OfferInv, NothingReplayed, NothingTwice, SkippedHasTwin, MarkAfterBase

\* A pass that offers: what it sends is after the old mark and so after the base,
\* not after the new one, and stands for what it skips.
LEMMA OfferOffers ==
    ASSUME WatchTypeOK, OfferInv, NEW r \in Replicas, Offer(r)
    PROVE  OfferInv'
<1>1. PICK out \in SUBSET Fresh(r) :
        /\ \A e \in Fresh(r) : Cardinality({f \in out : age[f] = age[e]}) = 1
        /\ Offered(r, out)
  BY DEF Offer
<1>2. /\ UNCHANGED <<age, base>>
      /\ sent'[r] = sent[r] \cup out /\ skipped'[r] = skipped[r] \cup (Fresh(r) \ out)
      /\ mark'[r] = IF Fresh(r) = {} THEN mark[r] ELSE Latest(r)
      /\ \A q \in Replicas \ {r} : /\ sent'[q] = sent[q] /\ skipped'[q] = skipped[q]
                                   /\ mark'[q] = mark[q]
  BY <1>1 DEF Offered, Idle, WatchTypeOK
<1>3. Fresh(r) \subseteq Events /\ \A e \in Fresh(r) : age[e] < mark[r]
  BY DEF Fresh, WatchTypeOK
<1>4. /\ \A e \in Events : age[e] \in Int
      /\ \A q \in Replicas : mark[q] \in Int /\ base[q] \in Int
      /\ \A q \in Replicas : sent[q] \subseteq Events /\ skipped[q] \subseteq Events
  BY WindowBounds, AClockEach DEF WatchTypeOK, Ages, Old, Unknown
<1>5. /\ mark'[r] \in Int /\ mark'[r] <= mark[r]
      /\ \A e \in Fresh(r) : age[e] >= mark'[r]
  <2>1. CASE Fresh(r) = {}
    BY <1>2, <1>4, <2>1
  <2>2. CASE Fresh(r) # {}
    <3>1. /\ Latest(r) \in Int
          /\ \E e \in Fresh(r) : age[e] = Latest(r)
          /\ \A e \in Fresh(r) : Latest(r) <= age[e]
      BY <2>2, LatestFresh
    <3>2. QED
      BY <1>2, <1>3, <1>4, <2>2, <3>1
  <2>3. QED
    BY <2>1, <2>2
<1>6. MarkAfterBase'
  BY <1>2, <1>4, <1>5 DEF OfferInv, MarkAfterBase
<1>7. NothingReplayed'
  BY <1>2, <1>3, <1>4 DEF OfferInv, NothingReplayed, MarkAfterBase
<1>8. NothingTwice'
  BY <1>2, <1>3, <1>4, <1>5 DEF OfferInv, NothingTwice
<1>9. ASSUME NEW e \in Fresh(r)
      PROVE  \E o \in out : age[o] = age[e]
  BY <1>1, FS_EmptySet
<1>10. SkippedHasTwin'
  BY <1>2, <1>9 DEF OfferInv, SkippedHasTwin
<1>11. QED
  BY <1>6, <1>7, <1>8, <1>10 DEF OfferInv

\* Every step keeps OfferInv.
LEMMA OfferStep == WatchTypeOK /\ OfferInv /\ [WatchNext]_watchVars => OfferInv'
<1> SUFFICES ASSUME WatchTypeOK, OfferInv, [WatchNext]_watchVars
             PROVE  OfferInv'
  OBVIOUS
<1>1. CASE Tick
  BY <1>1, OfferTick
<1>2. CASE \E e \in Events : Emit(e)
  BY <1>2, OfferEmit
<1>3. CASE UNCHANGED <<age, mark, base, sent, skipped>>
  BY <1>3 DEF OfferInv, NothingReplayed, NothingTwice, SkippedHasTwin, MarkAfterBase
<1>4. ASSUME NEW r \in Replicas, Die(r) \/ Forget(r)
      PROVE  OfferInv'
  <2>1. /\ age' = age
        /\ mark'[r] = Unknown /\ base'[r] = Unknown /\ sent'[r] = {} /\ skipped'[r] = {}
        /\ \A q \in Replicas \ {r} : /\ mark'[q] = mark[q] /\ base'[q] = base[q]
                                     /\ sent'[q] = sent[q] /\ skipped'[q] = skipped[q]
    BY <1>4 DEF Die, Forget, Idle, WatchTypeOK
  <2>2. mark'[r] <= base'[r]
    BY <2>1, AClockEach DEF Unknown
  <2>3. MarkAfterBase'
    BY <2>1, <2>2 DEF OfferInv, MarkAfterBase
  <2>4. NothingReplayed'
    BY <2>1 DEF OfferInv, NothingReplayed
  <2>5. NothingTwice'
    BY <2>1 DEF OfferInv, NothingTwice
  <2>6. SkippedHasTwin'
    BY <2>1 DEF OfferInv, SkippedHasTwin
  <2>7. QED
    BY <2>3, <2>4, <2>5, <2>6 DEF OfferInv
<1>5. ASSUME NEW r \in Replicas, Establish(r)
      PROVE  OfferInv'
  <2>1. /\ age' = age /\ sent' = sent /\ skipped' = skipped
        /\ mark'[r] = -Lead(r) /\ base'[r] = -Lead(r) /\ base[r] = Unknown
        /\ \A q \in Replicas \ {r} : mark'[q] = mark[q] /\ base'[q] = base[q]
    BY <1>5 DEF Establish, Idle, WatchTypeOK
  <2>2. sent[r] = {}
    <3>1. \A e \in sent[r] : age[e] \in 0..Old /\ age[e] < Unknown
      BY <2>1 DEF OfferInv, NothingReplayed, WatchTypeOK
    <3>2. \A a \in 0..Old : ~(a < Unknown)
      BY AClockEach, WindowBounds DEF Unknown, Old
    <3> QED
      BY <3>1, <3>2
  <2>3. -Lead(r) \in Int
    BY OwnTime, AClockEach, WindowBounds DEF Ages, Unknown, Old
  <2>4. QED
    BY <2>1, <2>2, <2>3
    DEF OfferInv, NothingReplayed, NothingTwice, SkippedHasTwin, MarkAfterBase
<1>6. ASSUME NEW r \in Replicas, Offer(r)
      PROVE  OfferInv'
  BY <1>6, OfferOffers
<1>7. QED
  BY <1>1, <1>2, <1>3, <1>4, <1>5, <1>6
  DEF WatchNext, Pass, watchVars, passVars, Start, AcquireLease, Take, Look, Read,
      ReadFails, Idle

-----------------------------------------------------------------------------
\* So the invariant always holds.
LEMMA WatchInvariant == WatchSpec => []WatchInv
<1>1. WatchInv /\ [WatchNext]_watchVars => WatchInv'
  BY TypeStep, LeaseStep, OfferStep DEF WatchInv
<1>2. QED
  BY WatchInitInv, <1>1, PTL DEF WatchSpec

(* Two replicas watch at once only if one has worked past its term, less what the
   other's clock is ahead of its own: for any number of replicas that die, come
   back and take the lease from one another.                                  *)
THEOREM WatchersExclude == WatchSpec => []OneWatcher
<1>1. WatchInv => OneWatcher
  BY DEF WatchInv, LeaseInv
<1>2. QED
  BY WatchInvariant, <1>1, PTL

(* Each occurrence is offered at most once by each replica, never one that its own
   clock dates before it began to watch, and one it passes over has a twin that it
   offered: whatever the clocks of the replicas and of the cluster say.           *)
THEOREM OffersAreFirst == WatchSpec => []EachOffersOnce
<1>1. WatchInv => EachOffersOnce
  BY DEF WatchInv, OfferInv, EachOffersOnce
<1>2. QED
  BY WatchInvariant, <1>1, PTL

-----------------------------------------------------------------------------
(* The response cache.  An entry may miss a write only if its read raced one: the
   readers at work are marked when a scope is dropped, so the invariant says of
   each answer on its way to the cache what it says of the entries, and that no
   answer is newer than its cluster.                                           *)

\* What an entry can be.
Entry == [seen : Nat, raced : BOOLEAN, left : Nat]

\* The types of the cache, and that its entries are finitely many within the bound.
CacheTypes ==
    /\ version \in [Clusters -> 0..MaxWrites]
    /\ answered \in [Clusters -> Nat] /\ \A c \in Clusters : answered[c] <= version[c]
    /\ DOMAIN entries \subseteq Keys /\ IsFiniteSet(DOMAIN entries)
    /\ Cardinality(DOMAIN entries) <= MaxEntries
    /\ entries \in [DOMAIN entries -> Entry]
    /\ reader \in [Readers -> {Resting} \cup Answers("asking") \cup Answers("answered")]
    /\ writer \in [Writers -> {Resting} \cup [at : {"done"}, to : Clusters, wrote : Nat]]

\* An answer that did not race a write has seen every write that was answered.
ReadersInv ==
    \A r \in Readers : reader[r].at = "answered" =>
        /\ reader[r].seen <= version[ClusterOf[reader[r].key]]
        /\ ~reader[r].raced => answered[ClusterOf[reader[r].key]] <= reader[r].seen

\* A writer has written at most what its cluster holds.
WritersInv ==
    \A w \in Writers : writer[w].at = "done" => writer[w].wrote <= version[writer[w].to]

\* No entry is of a version that its cluster has not had.
EntriesInv ==
    \A k \in DOMAIN entries : entries[k].seen <= version[ClusterOf[k]]

\* The inductive invariant.
CacheInv == CacheTypes /\ ReadersInv /\ WritersInv /\ EntriesInv /\ StaleOnlyIfRaced

\* It holds of the empty cache.
LEMMA CacheInitInv == CacheInit => CacheInv
<1> SUFFICES ASSUME CacheInit PROVE CacheInv
  OBVIOUS
<1>1. DOMAIN entries = {} /\ entries \in [DOMAIN entries -> Entry]
  BY DEF CacheInit
<1>2. IsFiniteSet({}) /\ Cardinality({}) = 0
  BY FS_EmptySet
<1>3. CacheTypes
  BY <1>1, <1>2, CacheBounds DEF CacheInit, CacheTypes
<1>4. ReadersInv /\ WritersInv /\ EntriesInv /\ StaleOnlyIfRaced
  BY <1>1 DEF CacheInit, ReadersInv, WritersInv, EntriesInv, StaleOnlyIfRaced, Resting
<1>5. QED
  BY <1>3, <1>4 DEF CacheInv

\* What of the entries is kept is as it was.
LEMMA KeepSound ==
    ASSUME CacheInv, NEW K \in SUBSET DOMAIN entries
    PROVE  /\ DOMAIN Keep(K) = K /\ IsFiniteSet(K) /\ Cardinality(K) <= MaxEntries
           /\ Keep(K) \in [K -> Entry] /\ \A k \in K : Keep(K)[k] = entries[k]
<1>1. IsFiniteSet(DOMAIN entries) /\ Cardinality(DOMAIN entries) <= MaxEntries
      /\ entries \in [DOMAIN entries -> Entry]
  BY DEF CacheInv, CacheTypes
<1>2. /\ IsFiniteSet(K) /\ Cardinality(K) <= Cardinality(DOMAIN entries)
      /\ Cardinality(K) \in Nat /\ Cardinality(DOMAIN entries) \in Nat
  BY <1>1, FS_Subset, FS_CardinalityType
<1>3. QED
  BY <1>1, <1>2, CacheBounds DEF Keep

\* Time passing keeps it (Live).
LEMMA ExpireInv ==
    ASSUME CacheInv, Expire
    PROVE  CacheInv'
<1>1. /\ entries \in [DOMAIN entries -> Entry]
      /\ entries' = [k \in DOMAIN entries |->
            [entries[k] EXCEPT !.left = IF @ > 0 THEN @ - 1 ELSE 0]]
      /\ UNCHANGED <<version, answered, reader, writer>>
  BY DEF Expire, CacheInv, CacheTypes
<1>2. /\ DOMAIN entries' = DOMAIN entries
      /\ \A k \in DOMAIN entries : /\ entries'[k] \in Entry
                                   /\ entries'[k].seen = entries[k].seen
                                   /\ entries'[k].raced = entries[k].raced
  BY <1>1 DEF Entry
<1>3. entries' \in [DOMAIN entries' -> Entry]
  BY <1>1, <1>2
<1>4. CacheTypes'
  BY <1>1, <1>2, <1>3 DEF CacheInv, CacheTypes
<1>5. ReadersInv' /\ WritersInv'
  BY <1>1 DEF CacheInv, ReadersInv, WritersInv
<1>6. EntriesInv' /\ StaleOnlyIfRaced'
  BY <1>1, <1>2 DEF CacheInv, EntriesInv, StaleOnlyIfRaced
<1>7. QED
  BY <1>4, <1>5, <1>6 DEF CacheInv

\* A read that finds nothing to serve keeps it (Get).
LEMMA MissInv ==
    ASSUME CacheInv, NEW r \in Readers, NEW k \in Keys,
           NEW noCache \in BOOLEAN, Miss(r, k, noCache)
    PROVE  CacheInv'
<1>1. PICK K \in SUBSET DOMAIN entries : entries' = Keep(K)
  BY DEF Miss
<1>2. /\ DOMAIN entries' = K /\ IsFiniteSet(K) /\ Cardinality(K) <= MaxEntries
      /\ entries' \in [K -> Entry] /\ \A j \in K : entries'[j] = entries[j]
  BY <1>1, KeepSound
<1> DEFINE q == [at |-> "asking", key |-> k, seen |-> 0, raced |-> FALSE]
<1>3. reader' = [reader EXCEPT ![r] = q] /\ UNCHANGED <<version, answered, writer>>
  BY DEF Miss
<1>4. q \in Answers("asking") /\ q.at = "asking"
  BY CacheBounds DEF Answers
<1> HIDE DEF q
<1>5. CacheTypes'
  BY <1>2, <1>3, <1>4 DEF CacheInv, CacheTypes
<1>6. ReadersInv' /\ WritersInv'
  BY <1>3, <1>4 DEF CacheInv, CacheTypes, ReadersInv, WritersInv
<1>7. EntriesInv' /\ StaleOnlyIfRaced'
  BY <1>2, <1>3 DEF CacheInv, EntriesInv, StaleOnlyIfRaced
<1>8. QED
  BY <1>5, <1>6, <1>7 DEF CacheInv

\* The cluster's answer to a read keeps it.
LEMMA AnswersInv ==
    ASSUME CacheInv, NEW r \in Readers, ClusterAnswers(r)
    PROVE  CacheInv'
<1> DEFINE c == ClusterOf[reader[r].key]
           a == [reader[r] EXCEPT !.at = "answered", !.seen = version[c]]
<1>1. /\ reader' = [reader EXCEPT ![r] = a] /\ UNCHANGED <<version, answered, entries, writer>>
      /\ reader[r].at = "asking"
  BY DEF ClusterAnswers
<1>2. reader[r] \in Answers("asking")
  BY <1>1 DEF CacheInv, CacheTypes, Resting, Answers
<1>3. c \in Clusters /\ version[c] \in 0..MaxWrites /\ answered[c] <= version[c]
  BY <1>2, KeysHaveScopes DEF CacheInv, CacheTypes, Answers
<1>4. a \in Answers("answered") /\ a.key = reader[r].key /\ a.seen = version[c]
  BY <1>2, <1>3 DEF Answers
<1>5. CacheTypes'
  <2> HIDE DEF a, c
  <2>1. QED
    BY <1>1, <1>4 DEF CacheInv, CacheTypes
<1>6. ReadersInv'
  <2>1. reader \in [Readers -> {Resting} \cup Answers("asking") \cup Answers("answered")]
    BY DEF CacheInv, CacheTypes
  <2>2. reader'[r] = a /\ \A q \in Readers \ {r} : reader'[q] = reader[q]
    BY <1>1, <2>1
  <2>3. ClusterOf[a.key] = c
    BY <1>4
  <2>4. a.seen <= version[ClusterOf[a.key]] /\ answered[ClusterOf[a.key]] <= a.seen
    BY <1>3, <1>4, <2>3
  <2> HIDE DEF a, c
  <2>5. QED
    BY <1>1, <2>2, <2>4 DEF CacheInv, ReadersInv
<1>7. WritersInv' /\ EntriesInv' /\ StaleOnlyIfRaced'
  BY <1>1 DEF CacheInv, WritersInv, EntriesInv, StaleOnlyIfRaced
<1>8. QED
  BY <1>5, <1>6, <1>7 DEF CacheInv

\* What is left of the table has room for one entry more.
LEMMA EvictLeavesRoom ==
    ASSUME CacheInv, NEW K \in SUBSET DOMAIN entries, NEW k,
           IF Cardinality(DOMAIN entries) < MaxEntries
           THEN K = DOMAIN entries ELSE Evict(K)
    PROVE  IsFiniteSet(K \cup {k}) /\ Cardinality(K \cup {k}) <= MaxEntries
<1> DEFINE live == {j \in DOMAIN entries : Live(entries[j])}
           drop == IF Cardinality(live) < 8 THEN 1 ELSE Cardinality(live) \div 4
<1>1. /\ IsFiniteSet(DOMAIN entries) /\ Cardinality(DOMAIN entries) <= MaxEntries
      /\ Cardinality(DOMAIN entries) \in Nat
  BY FS_CardinalityType DEF CacheInv, CacheTypes
<1>2. IsFiniteSet(K) /\ Cardinality(K) \in Nat
  BY <1>1, FS_Subset, FS_CardinalityType
<1>3. /\ IsFiniteSet(live) /\ Cardinality(live) \in Nat
      /\ Cardinality(live) <= Cardinality(DOMAIN entries)
  <2>1. live \in SUBSET DOMAIN entries
    OBVIOUS
  <2> HIDE DEF live
  <2>2. QED
    BY <1>1, <2>1, FS_Subset, FS_CardinalityType
<1>4. Cardinality(K) + 1 <= MaxEntries
  <2>1. CASE Cardinality(DOMAIN entries) < MaxEntries
    BY <1>1, <2>1, CacheBounds
  <2>2. CASE ~(Cardinality(DOMAIN entries) < MaxEntries)
    <3>1. Evict(K)
      BY <2>2
    <3>2. IF Cardinality(live) < MaxEntries THEN K = live
          ELSE Cardinality(K) = Cardinality(live) - drop
      BY <3>1 DEF Evict
    <3> DEFINE n == Cardinality(live)
    <3>3. n \in Nat /\ n <= MaxEntries
      BY <1>1, <1>3, CacheBounds
    <3> HIDE DEF n
    <3>4. n >= 8 => n \div 4 >= 1
      BY <3>3
    <3>5. drop = IF n < 8 THEN 1 ELSE n \div 4
      BY DEF n
    <3> HIDE DEF drop
    <3>6. drop \in Int /\ drop >= 1
      BY <3>3, <3>4, <3>5
    <3>7. IF n < MaxEntries THEN Cardinality(K) = n ELSE Cardinality(K) = n - drop
      BY <3>2 DEF n
    <3>8. QED
      BY <3>3, <3>6, <3>7, <1>2, CacheBounds
  <2>3. QED
    BY <2>1, <2>2
<1>5. IsFiniteSet(K \cup {k}) /\ Cardinality(K \cup {k}) <= Cardinality(K) + 1
  BY <1>2, FS_AddElement
<1>6. Cardinality(K \cup {k}) \in Nat
  BY <1>5, FS_CardinalityType
<1>7. QED
  BY <1>2, <1>4, <1>5, <1>6, CacheBounds

\* Filing an answer, and making room for it, keeps it (PutFor).
LEMMA FileInv ==
    ASSUME CacheInv, NEW r \in Readers, FileAnswer(r)
    PROVE  CacheInv'
<1> DEFINE k == reader[r].key
           e == [seen |-> reader[r].seen, raced |-> reader[r].raced,
                 left |-> IF Life[k] = 0 THEN DefaultTTL ELSE Life[k]]
<1>1. /\ reader[r].at = "answered" /\ reader' = [reader EXCEPT ![r] = Resting]
      /\ UNCHANGED <<version, answered, writer>>
  BY DEF FileAnswer
<1>2. PICK K \in SUBSET DOMAIN entries :
         /\ IF Cardinality(DOMAIN entries) < MaxEntries THEN K = DOMAIN entries ELSE Evict(K)
         /\ entries' = [j \in K \cup {k} |-> IF j # k THEN entries[j] ELSE e]
  BY DEF FileAnswer
<1>3. reader[r] \in Answers("answered")
  BY <1>1 DEF CacheInv, CacheTypes, Resting, Answers
<1>4. k \in Keys /\ e \in Entry
  <2>1. k \in Keys /\ reader[r].seen \in Nat /\ reader[r].raced \in BOOLEAN
    BY <1>3 DEF Answers
  <2>2. Life[k] \in Nat /\ DefaultTTL \in Nat
    BY <2>1, KeysHaveScopes, CacheBounds
  <2>3. QED
    BY <2>1, <2>2 DEF Entry
<1>5. /\ e.seen <= version[ClusterOf[k]]
      /\ e.seen < answered[ClusterOf[k]] => e.raced
  <2>1. /\ reader[r].seen <= version[ClusterOf[k]]
        /\ ~reader[r].raced => answered[ClusterOf[k]] <= reader[r].seen
    BY <1>1 DEF CacheInv, ReadersInv
  <2>2. reader[r].seen \in Nat /\ answered[ClusterOf[k]] \in Nat
    BY <1>3, <1>4, KeysHaveScopes DEF Answers, CacheInv, CacheTypes
  <2>3. QED
    BY <2>1, <2>2
<1> HIDE DEF e
<1>6. /\ DOMAIN entries' = K \cup {k}
      /\ \A j \in K \cup {k} : entries'[j] = IF j # k THEN entries[j] ELSE e
      /\ entries' = [j \in DOMAIN entries' |-> entries'[j]]
  BY <1>2
<1> HIDE DEF k
<1>7. IsFiniteSet(DOMAIN entries') /\ Cardinality(DOMAIN entries') <= MaxEntries
  BY <1>2, <1>6, EvictLeavesRoom
<1>8. DOMAIN entries' \subseteq Keys /\ entries' \in [DOMAIN entries' -> Entry]
  <2>1. entries \in [DOMAIN entries -> Entry] /\ DOMAIN entries \subseteq Keys
    BY DEF CacheInv, CacheTypes
  <2>2. \A j \in DOMAIN entries' : entries'[j] \in Entry
    BY <1>4, <1>6, <2>1
  <2>3. QED
    BY <1>4, <1>6, <2>1, <2>2
<1>9. CacheTypes'
  BY <1>1, <1>7, <1>8 DEF CacheInv, CacheTypes
<1>10. ReadersInv' /\ WritersInv'
  BY <1>1 DEF CacheInv, CacheTypes, ReadersInv, WritersInv, Resting
<1>11. EntriesInv' /\ StaleOnlyIfRaced'
  BY <1>1, <1>5, <1>6 DEF CacheInv, EntriesInv, StaleOnlyIfRaced
<1>12. QED
  BY <1>9, <1>10, <1>11 DEF CacheInv

\* An answer that is not filed keeps it.
LEMMA NotCacheableInv ==
    ASSUME CacheInv, NEW r \in Readers, NotCacheable(r)
    PROVE  CacheInv'
<1>1. reader' = [reader EXCEPT ![r] = Resting] /\ UNCHANGED <<version, answered, entries, writer>>
  BY DEF NotCacheable
<1>2. CacheTypes'
  BY <1>1 DEF CacheInv, CacheTypes
<1>3. ReadersInv' /\ WritersInv' /\ EntriesInv' /\ StaleOnlyIfRaced'
  BY <1>1 DEF CacheInv, CacheTypes, ReadersInv, WritersInv, EntriesInv, StaleOnlyIfRaced, Resting
<1>4. QED
  BY <1>2, <1>3 DEF CacheInv

\* A write the cluster takes keeps it.
LEMMA TakesInv ==
    ASSUME CacheInv, NEW w \in Writers, NEW c \in Clusters, ClusterTakes(w, c)
    PROVE  CacheInv'
<1> DEFINE d == [at |-> "done", to |-> c, wrote |-> version'[c]]
<1>1. /\ version' = [version EXCEPT ![c] = @ + 1] /\ version[c] < MaxWrites
      /\ writer' = [writer EXCEPT ![w] = d]
      /\ UNCHANGED <<answered, entries, reader>>
  BY DEF ClusterTakes
<1>2. version \in [Clusters -> 0..MaxWrites] /\ answered \in [Clusters -> Nat]
  BY DEF CacheInv, CacheTypes
<1>3. /\ version' \in [Clusters -> 0..MaxWrites]
      /\ \A b \in Clusters : version[b] <= version'[b]
  BY <1>1, <1>2, CacheBounds
<1>4. d \in [at : {"done"}, to : Clusters, wrote : Nat] /\ d.wrote = version'[c] /\ d.to = c
  BY <1>3
<1>5. CacheTypes'
  <2>1. \A b \in Clusters : answered[b] <= version'[b]
    BY <1>2, <1>3 DEF CacheInv, CacheTypes
  <2> HIDE DEF d
  <2>2. QED
    BY <1>1, <1>3, <1>4, <2>1 DEF CacheInv, CacheTypes
<1>6. ReadersInv'
  <2> SUFFICES ASSUME NEW r \in Readers, reader[r].at = "answered"
               PROVE  /\ reader[r].seen <= version'[ClusterOf[reader[r].key]]
                      /\ ~reader[r].raced => answered[ClusterOf[reader[r].key]] <= reader[r].seen
    BY <1>1 DEF ReadersInv
  <2>1. reader[r] \in Answers("answered")
    BY DEF CacheInv, CacheTypes, Resting, Answers
  <2>2. ClusterOf[reader[r].key] \in Clusters /\ reader[r].seen \in Nat
    BY <2>1, KeysHaveScopes DEF Answers
  <2>3. QED
    BY <2>2, <1>2, <1>3 DEF CacheInv, ReadersInv
<1>7. WritersInv'
  <2> SUFFICES ASSUME NEW v \in Writers, writer'[v].at = "done"
               PROVE  writer'[v].wrote <= version'[writer'[v].to]
    BY DEF WritersInv
  <2>1. CASE v = w
    <3>1. writer'[v] = d
      BY <1>1, <2>1 DEF CacheInv, CacheTypes
    <3>2. QED
      BY <3>1, <1>3
  <2>2. CASE v # w
    <3>1. writer'[v] = writer[v]
      BY <1>1, <2>2 DEF CacheInv, CacheTypes
    <3>2. writer[v].to \in Clusters /\ writer[v].wrote \in Nat
          /\ writer[v].wrote <= version[writer[v].to]
      BY <3>1 DEF CacheInv, CacheTypes, WritersInv, Resting
    <3>3. QED
      BY <3>1, <3>2, <1>2, <1>3
  <2>3. QED
    BY <2>1, <2>2
<1>8. EntriesInv' /\ StaleOnlyIfRaced'
  <2>1. \A k \in DOMAIN entries : ClusterOf[k] \in Clusters /\ entries[k].seen \in Nat
    BY KeysHaveScopes DEF CacheInv, CacheTypes, Entry
  <2>2. QED
    BY <1>1, <1>2, <1>3, <2>1 DEF CacheInv, EntriesInv, StaleOnlyIfRaced
<1>9. QED
  BY <1>5, <1>6, <1>7, <1>8 DEF CacheInv

\* Dropping a scope, which marks the reads it overtakes, keeps it (InvalidateScope).
LEMMA InvalidateInv ==
    ASSUME CacheInv, NEW w \in Writers, InvalidateScope(w)
    PROVE  CacheInv'
<1>0. PICK c : c = writer[w].to
  OBVIOUS
<1>1. /\ writer[w].at = "done" /\ writer' = [writer EXCEPT ![w] = Resting]
      /\ answered' = [answered EXCEPT ![c] =
            IF @ < writer[w].wrote THEN writer[w].wrote ELSE @]
      /\ UNCHANGED version
      /\ entries' = Keep({k \in DOMAIN entries : ClusterOf[k] # c})
      /\ reader' = [r \in Readers |->
            IF reader[r].at = "answered" /\ ClusterOf[reader[r].key] = c
            THEN [reader[r] EXCEPT !.raced = TRUE] ELSE reader[r]]
  BY <1>0 DEF InvalidateScope, Answered
<1>2. c \in Clusters /\ writer[w].wrote \in Nat /\ writer[w].wrote <= version[c]
  BY <1>0, <1>1 DEF CacheInv, CacheTypes, WritersInv, Resting
<1>3. /\ answered' \in [Clusters -> Nat] /\ \A b \in Clusters : answered'[b] <= version[b]
      /\ \A b \in Clusters \ {c} : answered'[b] = answered[b]
  BY <1>1, <1>2 DEF CacheInv, CacheTypes
<1> DEFINE K == {k \in DOMAIN entries : ClusterOf[k] # c}
<1>4. K \in SUBSET DOMAIN entries
  OBVIOUS
<1>5. /\ DOMAIN entries' = K /\ IsFiniteSet(K) /\ Cardinality(K) <= MaxEntries
      /\ entries' \in [K -> Entry] /\ \A j \in K : entries'[j] = entries[j]
  <2> HIDE DEF K
  <2>1. entries' = Keep(K)
    BY <1>1 DEF K
  <2>2. QED
    BY <1>4, <2>1, KeepSound
<1>6. /\ reader' \in [Readers -> {Resting} \cup Answers("asking") \cup Answers("answered")]
      /\ \A r \in Readers : \/ reader'[r] = reader[r]
                            \/ /\ reader[r].at = "answered"
                               /\ reader'[r].at = "answered" /\ reader'[r].raced
                               /\ reader'[r].key = reader[r].key
                               /\ reader'[r].seen = reader[r].seen
      /\ \A r \in Readers : reader[r].at = "answered" /\ ClusterOf[reader[r].key] = c
              => reader'[r].raced
  <2>1. \A r \in Readers : reader[r].at = "answered" => reader[r] \in Answers("answered")
    BY DEF CacheInv, CacheTypes, Resting, Answers
  <2>2. \A r \in Readers : reader[r] \in Answers("answered") =>
           /\ [reader[r] EXCEPT !.raced = TRUE] \in Answers("answered")
           /\ [reader[r] EXCEPT !.raced = TRUE].raced
           /\ [reader[r] EXCEPT !.raced = TRUE].at = "answered"
           /\ [reader[r] EXCEPT !.raced = TRUE].key = reader[r].key
           /\ [reader[r] EXCEPT !.raced = TRUE].seen = reader[r].seen
    BY DEF Answers
  <2>3. \A r \in Readers :
           reader[r] \in {Resting} \cup Answers("asking") \cup Answers("answered")
    BY DEF CacheInv, CacheTypes
  <2>4. QED
    BY <1>1, <2>1, <2>2, <2>3
<1>7. CacheTypes'
  <2>1. K \subseteq Keys
    BY DEF CacheInv, CacheTypes
  <2> HIDE DEF K
  <2>2. QED
    BY <1>1, <1>3, <1>5, <1>6, <2>1 DEF CacheInv, CacheTypes
<1>8. ReadersInv'
  <2> SUFFICES ASSUME NEW r \in Readers, reader'[r].at = "answered"
               PROVE  /\ reader'[r].seen <= version[ClusterOf[reader'[r].key]]
                      /\ ~reader'[r].raced => answered'[ClusterOf[reader'[r].key]] <= reader'[r].seen
    BY <1>1 DEF ReadersInv
  <2>1. /\ reader[r].at = "answered" /\ reader'[r].key = reader[r].key
        /\ reader'[r].seen = reader[r].seen
        /\ ~reader'[r].raced => ~reader[r].raced /\ ClusterOf[reader[r].key] # c
    BY <1>6
  <2>2. reader[r] \in Answers("answered")
    BY <2>1 DEF CacheInv, CacheTypes, Resting, Answers
  <2>3. ClusterOf[reader[r].key] \in Clusters
    BY <2>2, KeysHaveScopes DEF Answers
  <2>4. QED
    BY <2>1, <2>3, <1>3 DEF CacheInv, ReadersInv
<1>9. WritersInv'
  BY <1>1 DEF CacheInv, CacheTypes, WritersInv, Resting
<1>10. EntriesInv' /\ StaleOnlyIfRaced'
  <2>1. \A k \in K : /\ k \in DOMAIN entries /\ ClusterOf[k] \in Clusters \ {c}
    BY KeysHaveScopes DEF CacheInv, CacheTypes
  <2> HIDE DEF K
  <2>2. QED
    BY <1>1, <1>3, <1>5, <2>1 DEF CacheInv, EntriesInv, StaleOnlyIfRaced
<1>11. QED
  BY <1>7, <1>8, <1>9, <1>10 DEF CacheInv

\* A write whose answer never comes keeps it.
LEMMA UnansweredInv ==
    ASSUME CacheInv, NEW w \in Writers, WriteUnanswered(w)
    PROVE  CacheInv'
<1>1. writer' = [writer EXCEPT ![w] = Resting] /\ UNCHANGED <<version, answered, entries, reader>>
  BY DEF WriteUnanswered
<1>2. CacheTypes'
  BY <1>1 DEF CacheInv, CacheTypes
<1>3. ReadersInv' /\ WritersInv' /\ EntriesInv' /\ StaleOnlyIfRaced'
  BY <1>1 DEF CacheInv, CacheTypes, ReadersInv, WritersInv, EntriesInv, StaleOnlyIfRaced, Resting
<1>4. QED
  BY <1>2, <1>3 DEF CacheInv

\* Every step keeps it.
LEMMA CacheStepInv ==
    ASSUME CacheInv, [CacheNext]_cacheVars
    PROVE  CacheInv'
<1>1. CASE UNCHANGED cacheVars
  BY <1>1 DEF CacheInv, CacheTypes, ReadersInv, WritersInv, EntriesInv, StaleOnlyIfRaced, cacheVars
<1>2. QED
  BY <1>1, ExpireInv, MissInv, AnswersInv, FileInv, NotCacheableInv, TakesInv, InvalidateInv,
     UnansweredInv DEF CacheNext, EndsRead

\* For any keys, scopes, readers and writers: the cache keeps its ceiling, and an
\* entry misses an answered write only if its read had begun before that write was
\* invalidated (PutFor, InvalidateScope).
THEOREM EntriesAreSound == CacheSpec => []EntriesSound
<1>1. CacheInv => EntriesSound
  <2> SUFFICES ASSUME CacheInv PROVE EntriesSound
    OBVIOUS
  <2>1. \A c \in Clusters : answered[c] \in 0..version[c]
    BY DEF CacheInv, CacheTypes
  <2>2. \A k \in DOMAIN entries : entries[k].seen \in 0..version[ClusterOf[k]]
    <3> SUFFICES ASSUME NEW k \in DOMAIN entries PROVE entries[k].seen \in 0..version[ClusterOf[k]]
      OBVIOUS
    <3>1. entries[k].seen \in Nat /\ version[ClusterOf[k]] \in Nat
      BY KeysHaveScopes DEF CacheInv, CacheTypes, Entry
    <3>2. QED
      BY <3>1 DEF CacheInv, EntriesInv
  <2>3. QED
    BY <2>1, <2>2 DEF CacheInv, CacheTypes, EntriesSound, CacheTypeOK
<1>2. QED
  BY <1>1, CacheInitInv, CacheStepInv, PTL DEF CacheSpec

\* To make room the cache drops what has expired, and only then the live entry that
\* has least left (evictLocked).
THEOREM LeastGoes == CacheSpec => LeastLifeGoes
<1> DEFINE Worth == \A r \in Readers : reader[r] # Resting /\ reader'[r] = Resting =>
        \A d \in DOMAIN entries \ DOMAIN entries' : Live(entries[d]) =>
            /\ \A k \in DOMAIN entries : Live(entries[k])
            /\ \A k \in DOMAIN entries' \ {reader[r].key} :
                  entries[d].left <= entries[k].left
<1>1. ASSUME CacheInv, CacheNext PROVE Worth
  <2> SUFFICES ASSUME NEW r \in Readers, reader[r] # Resting, reader'[r] = Resting,
                      NEW d \in DOMAIN entries \ DOMAIN entries', Live(entries[d])
               PROVE  /\ \A k \in DOMAIN entries : Live(entries[k])
                      /\ \A k \in DOMAIN entries' \ {reader[r].key} :
                            entries[d].left <= entries[k].left
    OBVIOUS
  <2>0. reader \in [Readers -> {Resting} \cup Answers("asking") \cup Answers("answered")]
    BY <1>1 DEF CacheInv, CacheTypes
  <2>1. FileAnswer(r)
    <3>1. DOMAIN entries' # DOMAIN entries
      OBVIOUS
    <3>2. ~Expire
      BY <3>1 DEF Expire
    <3>3. ASSUME NEW q \in Readers, NEW k \in Keys, NEW noCache \in BOOLEAN, Miss(q, k, noCache)
          PROVE  FALSE
      <4>1. q # r /\ reader'[r] = reader[r]
        <5>1. reader[q] = Resting
              /\ reader' = [reader EXCEPT ![q] =
                    [at |-> "asking", key |-> k, seen |-> 0, raced |-> FALSE]]
          BY <3>3 DEF Miss
        <5>2. q # r
          BY <5>1
        <5>3. QED
          BY <5>1, <5>2, <2>0
      <4>2. QED
        BY <4>1
    <3>4. ASSUME NEW q \in Readers, EndsRead(q)
          PROVE  FileAnswer(r)
      <4>1. FileAnswer(q)
        BY <3>1, <3>4 DEF EndsRead, ClusterAnswers, NotCacheable
      <4>2. q = r
        BY <4>1, <2>0 DEF FileAnswer
      <4>3. QED
        BY <4>1, <4>2
    <3>5. ASSUME NEW w \in Writers, NEW c \in Clusters, ClusterTakes(w, c)
          PROVE  FALSE
      BY <3>1, <3>5 DEF ClusterTakes
    <3>6. ASSUME NEW w \in Writers, InvalidateScope(w)
          PROVE  FALSE
      <4>1. reader[r] \in Answers("asking") \cup Answers("answered")
        BY <2>0
      <4>2. reader'[r].at # "idle"
        <5>1. reader'[r] = reader[r] \/ reader'[r] = [reader[r] EXCEPT !.raced = TRUE]
          BY <3>6 DEF InvalidateScope
        <5>2. QED
          BY <5>1, <4>1 DEF Answers
      <4>3. QED
        BY <4>2 DEF Resting
    <3>7. ASSUME NEW w \in Writers, WriteUnanswered(w)
          PROVE  FALSE
      BY <3>1, <3>7 DEF WriteUnanswered
    <3>8. QED
      BY <1>1, <3>2, <3>3, <3>4, <3>5, <3>6, <3>7 DEF CacheNext
  <2> DEFINE k0 == reader[r].key
             live == {j \in DOMAIN entries : Live(entries[j])}
  <2>2. PICK K \in SUBSET DOMAIN entries :
           /\ IF Cardinality(DOMAIN entries) < MaxEntries THEN K = DOMAIN entries ELSE Evict(K)
           /\ DOMAIN entries' = K \cup {k0}
    BY <2>1 DEF FileAnswer
  <2>3. d \notin K /\ d \in live
    BY <2>2
  <2>4. Evict(K) /\ Cardinality(DOMAIN entries) >= MaxEntries
    <3>1. IsFiniteSet(DOMAIN entries)
      BY <1>1 DEF CacheInv, CacheTypes
    <3>2. Cardinality(DOMAIN entries) \in Nat
      BY <3>1, FS_CardinalityType
    <3>3. QED
      BY <2>2, <2>3, <3>2, CacheBounds
  <2>5. /\ ~(Cardinality(live) < MaxEntries) /\ K \subseteq live
        /\ \A k \in K, b \in live \ K : entries[b].left <= entries[k].left
    BY <2>3, <2>4 DEF Evict
  <2>6. live = DOMAIN entries
    <3>1. live \in SUBSET DOMAIN entries
      OBVIOUS
    <3>2. IsFiniteSet(DOMAIN entries) /\ Cardinality(DOMAIN entries) <= MaxEntries
      BY <1>1 DEF CacheInv, CacheTypes
    <3> HIDE DEF live
    <3>3. /\ Cardinality(live) <= Cardinality(DOMAIN entries)
          /\ Cardinality(live) = Cardinality(DOMAIN entries) => live = DOMAIN entries
          /\ Cardinality(live) \in Nat /\ Cardinality(DOMAIN entries) \in Nat
      BY <3>1, <3>2, FS_Subset, FS_CardinalityType
    <3>4. QED
      BY <3>2, <3>3, <2>5, CacheBounds
  <2>7. \A k \in DOMAIN entries : Live(entries[k])
    BY <2>6
  <2>8. \A k \in DOMAIN entries' \ {k0} : k \in K
    BY <2>2
  <2>9. QED
    BY <2>3, <2>5, <2>7, <2>8
<1>2. ASSUME UNCHANGED cacheVars PROVE Worth
  BY <1>2 DEF cacheVars
<1>3. CacheInv /\ [CacheNext]_cacheVars => [Worth]_cacheVars
  BY <1>1, <1>2
<1>4. QED
  BY <1>3, CacheInitInv, CacheStepInv, PTL DEF CacheSpec, LeastLifeGoes

-----------------------------------------------------------------------------
(* The audit trail.  Records move from order through queue and batch to the sinks,
   and both orders follow from where each one is: the batch and the queue are the
   last records of order, and what a collector has was taken from there before,
   a second copy of a batch always from its first record on.                   *)

\* How many of the records queued so far have left the batch.
Off == Len(order) - Len(queue) - Len(batch)

\* Where each record is: batch and queue are the last of order, and what is in the
\* table came before them.
PlacesInv ==
    /\ order \in Seq(Records) /\ table \in Seq(Records) /\ made \subseteq Records
    /\ Range(order) \subseteq made
    /\ \A i, j \in 1..Len(order) : order[i] = order[j] => i = j
    /\ Off \in Nat
    /\ \A k \in 1..Len(batch) : batch[k] = order[Off + k]
    /\ \A k \in 1..Len(queue) : queue[k] = order[Off + Len(batch) + k]
    /\ \A i \in 1..Len(table) : \E p \in 1..Off : table[i] = order[p]
    /\ lost \subseteq Range(order)

\* What the goroutine has in hand in each state of Run.
ServeInv ==
    /\ sink = "table" => dests = {}
    /\ ~Flushes => todo = {}
    /\ todo = {} => sendPos = 0 /\ tries = 0
    /\ run \in {"drain", "flushDrain", "flushLast", "done"} => cancelled
    /\ ~cancelled => tail = {}
    /\ tail \subseteq Range(order)
    /\ run \in {"flushLast", "done"} => Range(queue) \cap tail = {}
    /\ run = "done" => batch = <<>>

\* What the collectors have is records.
WrittenType == written \in [Collectors -> Seq(Records)]

\* w holds only records of the first n of o.
Traced(w, o, n) ==
    w \in Seq(Records) /\ \A i \in 1..Len(w) : \E p \in 1..n : w[i] = o[p]

\* Before the first copy of a record of b, w has every record of b ahead of it.
Repeats(w, b) ==
    \A i \in 1..Len(w), k \in 1..Len(b) : w[i] = b[k] =>
        \A m \in 1..k - 1 : \E h \in 1..i - 1 : w[h] = b[m]

\* The last n of w are the first n of b.
Sent(w, b, n) ==
    n <= Len(w) /\ \A k \in 1..n : w[Len(w) - n + k] = b[k]

\* What each collector has: records made so far, the batch only from its start, and
\* during its turn exactly what this attempt has written at the end.
WrittenInv ==
    \A c \in Collectors :
        /\ Traced(written[c], order, Off + Len(batch))
        /\ Repeats(written[c], batch)
        /\ AtTurn(c) => Sent(written[c], batch, sendPos)

\* The inductive invariant of both sinks.
TrailInv ==
    /\ TrailTypeOK /\ TableInOrder /\ CollectorInOrder /\ HeldIsLoaded
    /\ PlacesInv /\ ServeInv /\ WrittenType /\ WrittenInv

\* It holds before the first record.
LEMMA TrailStart == TrailInit => TrailInv
<1>1. /\ <<>> \in Seq(Records) /\ Len(<<>>) = 0
  BY EmptySeq
<1>2. Range(<<>>) = {}
  BY <1>1, EmptySeq DEF Range
<1>3. ASSUME TrailInit PROVE TrailTypeOK
  <2>1. dests \subseteq Collectors /\ conn \in [Collectors -> {"none", "open"}]
    BY <1>3 DEF TrailInit
  <2>2. 0 <= QueueSize /\ 0 < BatchSize /\ 0 \in 0..0 /\ {} \subseteq dests
    BY TrailBounds
  <2> QED
    <3>0. made = {} /\ cancelled = FALSE /\ tries = 0 /\ todo = {}
      BY <1>3 DEF TrailInit
    <3>1. made \subseteq Records /\ cancelled \in BOOLEAN /\ todo \subseteq dests
      BY <3>0
    <3>5. tries \in 0..1
      BY <3>0
    <3>2. Len(queue) = 0 /\ Len(batch) = 0 /\ queue \in Seq(Records) /\ batch \in Seq(Records)
      BY <1>1, <1>3 DEF TrailInit
    <3>3. run = "select" /\ sendPos = 0
      BY <1>3 DEF TrailInit
    <3>4. sendPos \in 0..Len(batch) /\ Len(queue) <= QueueSize /\ Len(batch) <= BatchSize
          /\ Len(batch) < BatchSize
      BY <3>2, <3>3, TrailBounds
    <3> QED
      BY <2>1, <3>1, <3>2, <3>3, <3>4, <3>5 DEF TrailTypeOK
<1>4. ASSUME TrailInit PROVE TableInOrder
  <2>1. <<>> \o <<>> \o <<>> = <<>>
    BY <1>1, ConcatEmptySeq
  <2> QED
    BY <1>4, <2>1, KeepOnlyEmpty DEF TrailInit, TableInOrder
<1>5. ASSUME TrailInit PROVE CollectorInOrder
  BY <1>1, <1>5 DEF TrailInit, CollectorInOrder, Before
<1>6. ASSUME TrailInit PROVE HeldIsLoaded
  BY <1>6 DEF TrailInit, HeldIsLoaded
<1>7. ASSUME TrailInit PROVE PlacesInv
  BY <1>1, <1>2, <1>7 DEF TrailInit, PlacesInv, Off
<1>8. ASSUME TrailInit PROVE ServeInv
  BY <1>1, <1>2, <1>8 DEF TrailInit, ServeInv, Flushes
<1>9. ASSUME TrailInit PROVE WrittenInv
  BY <1>1, <1>9 DEF TrailInit, WrittenInv, Traced, Repeats, Off, AtTurn, Flushes
<1>10. ASSUME TrailInit PROVE WrittenType
  BY <1>1, <1>10 DEF TrailInit, WrittenType
<1> QED
  BY <1>3, <1>4, <1>5, <1>6, <1>7, <1>8, <1>9, <1>10 DEF TrailInv

(* What TakeRecord does to the three sequences. *)
LEMMA Taken ==
    ASSUME NEW R, NEW q \in Seq(R), NEW b \in Seq(R), q # <<>>
    PROVE  /\ Tail(q) \in Seq(R) /\ Len(Tail(q)) = Len(q) - 1 /\ Len(q) >= 1
           /\ \A k \in 1..Len(q) - 1 : Tail(q)[k] = q[k + 1]
           /\ Head(q) = q[1] /\ Head(q) \in R
           /\ Append(b, Head(q)) \in Seq(R) /\ Len(Append(b, Head(q))) = Len(b) + 1
           /\ Append(b, Head(q))[Len(b) + 1] = q[1]
           /\ \A k \in 1..Len(b) : Append(b, Head(q))[k] = b[k]
           /\ Range(Tail(q)) \subseteq Range(q)
<1>1. /\ Tail(q) \in Seq(R) /\ Len(Tail(q)) = Len(q) - 1 /\ Len(q) >= 1
      /\ \A k \in 1..Len(q) - 1 : Tail(q)[k] = q[k + 1]
      /\ Head(q) = q[1] /\ Head(q) \in R
  BY HeadTailProperties, LenProperties, EmptySeq
<1>2. /\ Append(b, Head(q)) \in Seq(R) /\ Len(Append(b, Head(q))) = Len(b) + 1
      /\ Append(b, Head(q))[Len(b) + 1] = q[1]
      /\ \A k \in 1..Len(b) : Append(b, Head(q))[k] = b[k]
  BY <1>1, AppendProperties, LenProperties
<1>3. Range(Tail(q)) \subseteq Range(q)
  BY <1>1, LenProperties DEF Range
<1> QED
  BY <1>1, <1>2, <1>3

\* Taking a record from the queue into the batch moves nothing.
LEMMA TakenWhole ==
    ASSUME NEW R, NEW front \in Seq(R), NEW q \in Seq(R), NEW b \in Seq(R), q # <<>>
    PROVE  front \o Append(b, Head(q)) \o Tail(q) = front \o b \o q
<1>1. /\ Tail(q) \in Seq(R) /\ Len(Tail(q)) = Len(q) - 1 /\ Len(q) >= 1
      /\ \A k \in 1..Len(q) - 1 : Tail(q)[k] = q[k + 1]
      /\ Head(q) = q[1] /\ Head(q) \in R
  BY Taken
<1>4. front \o Append(b, Head(q)) \o Tail(q) = front \o b \o q
  <2>1. front \o b \in Seq(R) /\ front \o Append(b, Head(q)) = Append(front \o b, Head(q))
    BY <1>1, AppendConcat, ConcatProperties
  <2> DEFINE u == front \o b
             e == Head(q)
             r == Tail(q)
  <2>2. Append(u, e) \in Seq(R) /\ Len(Append(u, e)) = Len(u) + 1
        /\ Append(u, e)[Len(u) + 1] = e /\ \A i \in 1..Len(u) : Append(u, e)[i] = u[i]
    BY <1>1, <2>1, AppendProperties, LenProperties
  <2>3. /\ Append(u, e) \o r \in Seq(R) /\ u \o q \in Seq(R)
        /\ Len(Append(u, e) \o r) = Len(u) + 1 + Len(r)
        /\ Len(u \o q) = Len(u) + Len(q)
        /\ \A i \in 1..Len(u) + 1 + Len(r) : (Append(u, e) \o r)[i] =
              IF i <= Len(u) + 1 THEN Append(u, e)[i] ELSE r[i - (Len(u) + 1)]
        /\ \A i \in 1..Len(u) + Len(q) : (u \o q)[i] =
              IF i <= Len(u) THEN u[i] ELSE q[i - Len(u)]
    <3>1. u \in Seq(R) /\ r \in Seq(R)
      BY <1>1, <2>1
    <3> HIDE DEF u, e, r
    <3>2. /\ Append(u, e) \o r \in Seq(R)
          /\ Len(Append(u, e) \o r) = Len(Append(u, e)) + Len(r)
          /\ \A i \in 1..Len(Append(u, e)) + Len(r) : (Append(u, e) \o r)[i] =
                IF i <= Len(Append(u, e)) THEN Append(u, e)[i] ELSE r[i - Len(Append(u, e))]
      BY <3>1, <2>2, ConcatProperties
    <3>3. /\ u \o q \in Seq(R) /\ Len(u \o q) = Len(u) + Len(q)
          /\ \A i \in 1..Len(u) + Len(q) : (u \o q)[i] =
                IF i <= Len(u) THEN u[i] ELSE q[i - Len(u)]
      BY <3>1, ConcatProperties
    <3> QED
      BY <3>2, <3>3, <2>2
  <2>4. Len(u) \in Nat /\ Len(q) \in Nat /\ Len(r) = Len(q) - 1
    BY <1>1, <2>1, LenProperties
  <2>5. ASSUME NEW i \in 1..Len(u) + Len(q) PROVE (Append(u, e) \o r)[i] = (u \o q)[i]
    <3> HIDE DEF u, e, r
    <3>1. CASE i <= Len(u)
      BY <3>1, <2>2, <2>3, <2>4
    <3>2. CASE i = Len(u) + 1
      <4>1. i - Len(u) = 1 /\ e = q[1]
        BY <1>1, <2>4, <3>2 DEF e
      <4> QED
        BY <4>1, <3>2, <2>2, <2>3, <2>4
    <3>3. CASE i > Len(u) + 1
      <4>1. i - (Len(u) + 1) \in 1..Len(q) - 1 /\ (i - (Len(u) + 1)) + 1 = i - Len(u)
        BY <3>3, <2>4
      <4>2. r[i - (Len(u) + 1)] = q[i - Len(u)]
        BY <1>1, <4>1 DEF r
      <4> QED
        BY <4>2, <3>3, <2>3, <2>4
    <3> QED
      BY <3>1, <3>2, <3>3, <2>4
  <2> HIDE DEF u, e, r
  <2>6. Append(u, e) \o r = u \o q
    <3>1. /\ Len(Append(u, e) \o r) = Len(u) + Len(q) /\ Len(u \o q) = Len(u) + Len(q)
          /\ Append(u, e) \o r \in Seq(R) /\ u \o q \in Seq(R)
      <4>1. Len(Append(u, e) \o r) = Len(u) + 1 + Len(r) /\ Len(u \o q) = Len(u) + Len(q)
            /\ Append(u, e) \o r \in Seq(R) /\ u \o q \in Seq(R)
        BY <2>3
      <4> QED
        BY <4>1, <2>4
    <3> DEFINE v == Append(u, e) \o r
               w == u \o q
    <3>2. \A i \in 1..Len(u) + Len(q) : v[i] = w[i]
      BY <2>5
    <3> HIDE DEF v, w
    <3>3. v \in Seq(R) /\ w \in Seq(R) /\ Len(v) = Len(w)
          /\ \A i \in 1..Len(v) : v[i] = w[i]
      BY <3>1, <3>2 DEF v, w
    <3>4. v = w
      BY <3>3, SeqEqual
    <3> QED
      BY <3>4 DEF v, w
  <2> QED
    BY <2>1, <2>6 DEF u, e, r
<1> QED
  BY <1>4

\* Every step keeps the types and the bounds.
LEMMA TypesStep ==
    ASSUME TrailTypeOK, ServeInv, TrailNext
    PROVE  TrailTypeOK'
<1> USE TrailBounds
<1>0. <<>> \in Seq(Records) /\ Len(<<>>) = 0
  BY EmptySeq
<1>1. ASSUME NEW r \in Records, Drop(r) PROVE TrailTypeOK'
  BY <1>1 DEF Drop, RecordRest, tableVars, sendVars, TrailTypeOK, Flushes
<1>2. ASSUME NEW r \in Records, Enqueue(r) PROVE TrailTypeOK'
  <2>1. Append(queue, r) \in Seq(Records) /\ Len(Append(queue, r)) = Len(queue) + 1
    BY AppendProperties DEF TrailTypeOK
  <2> QED
    BY <1>2, <2>1, LenProperties DEF Enqueue, RecordRest, tableVars, sendVars, TrailTypeOK, Flushes
<1>3. CASE Cancel
  BY <1>3 DEF Cancel, tableVars, sendVars, TrailTypeOK, Flushes
<1>4. CASE TakeRecord
  <2>1. /\ Tail(queue) \in Seq(Records) /\ Len(Tail(queue)) = Len(queue) - 1
        /\ Append(batch, Head(queue)) \in Seq(Records)
        /\ Len(Append(batch, Head(queue))) = Len(batch) + 1
    BY <1>4, Taken DEF TrailTypeOK, TakeRecord
  <2>2. Len(batch) \in Nat /\ Len(queue) \in Nat
    BY LenProperties DEF TrailTypeOK
  <2> QED
    BY <1>4, <2>1, <2>2 DEF TakeRecord, StartFlush, loopRest, tableVars, TrailTypeOK, Flushes, ServeInv
<1>5. CASE FlushTick
  BY <1>5 DEF FlushTick, StartFlush, loopRest, tableVars, TrailTypeOK, Flushes
<1>6. CASE SeesCancel
  BY <1>6 DEF SeesCancel, loopRest, tableVars, TrailTypeOK, Flushes
<1>7. CASE Drained
  BY <1>7 DEF Drained, StartFlush, loopRest, tableVars, TrailTypeOK, Flushes
<1>8. CASE WriteBatch \/ WriteFails
  <2>1. todo = {} /\ sendPos = 0
    BY <1>8 DEF WriteBatch, WriteFails, ServeInv, TrailTypeOK
  <2>2. run' \in {"select", "drain", "done"} /\ batch' = <<>>
    BY <1>8 DEF WriteBatch, WriteFails, Flushed
  <2>3. UNCHANGED <<queueVars, wireVars>>
    BY <1>8 DEF WriteBatch, WriteFails
  <2> QED
    BY <1>0, <2>1, <2>2, <2>3 DEF queueVars, wireVars, sendVars, TrailTypeOK, Flushes
<1>9. CASE WireFlushed
  BY <1>0, <1>9 DEF WireFlushed, Flushed, queueVars, tableVars, sendVars, TrailTypeOK, Flushes, ServeInv
<1>10. ASSUME NEW C \in SUBSET Collectors, NEW edited \in SUBSET Collectors, Reload(C, edited)
       PROVE  TrailTypeOK'
  BY <1>10 DEF Reload, queueVars, tableVars, sendVars, TrailTypeOK, Flushes, ServeInv
<1>11. ASSUME NEW c \in Collectors, WriteRecord(c) PROVE TrailTypeOK'
  <2>1. Len(batch) \in Nat
    BY LenProperties DEF TrailTypeOK
  <2> QED
    BY <1>11, <2>1 DEF WriteRecord, AtTurn, sendRest, queueVars, tableVars, TrailTypeOK, Flushes
<1>12. ASSUME NEW c \in Collectors, Delivered(c) \/ SendRetries(c) \/ SendFails(c) PROVE TrailTypeOK'
  <2>1. Len(batch) \in Nat
    BY LenProperties DEF TrailTypeOK
  <2> QED
    BY <1>12, <2>1 DEF Delivered, SendRetries, SendFails, NextCollector, Hangup, AtTurn, sendRest, queueVars, tableVars, TrailTypeOK, Flushes
<1> QED
  BY <1>1, <1>2, <1>3, <1>4, <1>5, <1>6, <1>7, <1>8, <1>9, <1>10, <1>11, <1>12
     DEF TrailNext, RecordRow, RecordForward, Run, Send

\* Every step keeps what the goroutine may have in hand.
LEMMA ServeStep ==
    ASSUME TrailTypeOK, ServeInv, PlacesInv, TrailNext
    PROVE  ServeInv'
<1>1. ASSUME NEW r \in Records, Drop(r) PROVE ServeInv'
  BY <1>1 DEF Drop, RecordRest, tableVars, sendVars, ServeInv, Flushes
<1>2. ASSUME NEW r \in Records, Enqueue(r) PROVE ServeInv'
  <2>1. Range(queue') = Range(queue) \cup {r} /\ Range(order') = Range(order) \cup {r}
    BY <1>2, RangeAppend DEF Enqueue, TrailTypeOK, PlacesInv
  <2>2. r \notin tail
    BY <1>2 DEF Enqueue, ServeInv, PlacesInv
  <2> QED
    BY <1>2, <2>1, <2>2 DEF Enqueue, RecordRest, tableVars, sendVars, ServeInv, Flushes
<1>3. CASE Cancel
  <2>1. run \notin {"drain", "flushDrain", "flushLast", "done"}
    BY <1>3 DEF Cancel, ServeInv
  <2> QED
    BY <1>3, <2>1 DEF Cancel, tableVars, sendVars, ServeInv, Flushes
<1>4. CASE TakeRecord
  BY <1>4 DEF TakeRecord, StartFlush, loopRest, tableVars, ServeInv, Flushes, TrailTypeOK
<1>5. CASE FlushTick
  BY <1>5 DEF FlushTick, StartFlush, loopRest, tableVars, ServeInv, Flushes
<1>6. CASE SeesCancel
  BY <1>6 DEF SeesCancel, loopRest, tableVars, ServeInv, Flushes
<1>7. CASE Drained
  <2>1. Range(queue) = {}
    BY <1>7, EmptySeq DEF Drained, Range
  <2> QED
    BY <1>7, <2>1 DEF Drained, StartFlush, loopRest, tableVars, ServeInv, Flushes
<1>8. CASE WriteBatch \/ WriteFails
  BY <1>8 DEF WriteBatch, WriteFails, Flushed, queueVars, wireVars, sendVars, TrailTypeOK, Flushes, ServeInv
<1>9. CASE WireFlushed
  BY <1>9 DEF WireFlushed, Flushed, queueVars, tableVars, sendVars, TrailTypeOK, Flushes, ServeInv
<1>10. ASSUME NEW C \in SUBSET Collectors, NEW edited \in SUBSET Collectors, Reload(C, edited)
       PROVE  ServeInv'
  BY <1>10 DEF Reload, queueVars, tableVars, sendVars, Flushes, ServeInv
<1>11. ASSUME NEW c \in Collectors, WriteRecord(c) PROVE ServeInv'
  BY <1>11 DEF WriteRecord, AtTurn, sendRest, queueVars, tableVars, ServeInv, Flushes
<1>12. ASSUME NEW c \in Collectors, Delivered(c) \/ SendRetries(c) \/ SendFails(c) PROVE ServeInv'
  BY <1>12 DEF Delivered, SendRetries, SendFails, NextCollector, Hangup, AtTurn, sendRest, queueVars, tableVars, ServeInv, Flushes
<1> QED
  BY <1>1, <1>2, <1>3, <1>4, <1>5, <1>6, <1>7, <1>8, <1>9, <1>10, <1>11, <1>12
     DEF TrailNext, RecordRow, RecordForward, Run, Send

\* Every step keeps each record in its place.
LEMMA PlacesStep ==
    ASSUME TrailTypeOK, ServeInv, PlacesInv, TrailNext
    PROVE  PlacesInv'
<1>0. /\ <<>> \in Seq(Records) /\ Len(<<>>) = 0
      /\ Len(batch) \in Nat /\ Len(queue) \in Nat /\ Len(order) \in Nat /\ Len(table) \in Nat
  BY EmptySeq, LenProperties DEF TrailTypeOK, PlacesInv
<1>1. ASSUME NEW r \in Records, Drop(r) PROVE PlacesInv'
  BY <1>1 DEF Drop, RecordRest, tableVars, PlacesInv, Off
<1>2. ASSUME NEW r \in Records, Enqueue(r) PROVE PlacesInv'
  <2>1. /\ order' \in Seq(Records) /\ Len(order') = Len(order) + 1
        /\ order'[Len(order) + 1] = r /\ \A i \in 1..Len(order) : order'[i] = order[i]
        /\ Len(queue') = Len(queue) + 1
        /\ queue'[Len(queue) + 1] = r /\ \A i \in 1..Len(queue) : queue'[i] = queue[i]
    BY <1>2, AppendProperties, LenProperties DEF Enqueue, TrailTypeOK, PlacesInv
  <2>2. Range(order') = Range(order) \cup {r}
    BY <1>2, RangeAppend DEF Enqueue, PlacesInv
  <2>3. UNCHANGED <<batch, table, lost>> /\ r \notin made /\ made' = made \cup {r}
    BY <1>2 DEF Enqueue, RecordRest, tableVars
  <2>4. Off' = Off /\ Off \in Nat
    BY <1>0, <2>1, <2>3 DEF Off, PlacesInv
  <2>5. \A i \in 1..Len(order) : order[i] # r
    BY <2>3, <1>0 DEF PlacesInv, Range
  <2>6. \A i, j \in 1..Len(order') : order'[i] = order'[j] => i = j
    <3> SUFFICES ASSUME NEW i \in 1..Len(order'), NEW j \in 1..Len(order'), order'[i] = order'[j]
                 PROVE  i = j
      OBVIOUS
    <3>1. (i \in 1..Len(order) \/ i = Len(order) + 1) /\ (j \in 1..Len(order) \/ j = Len(order) + 1)
      BY <1>0, <2>1
    <3>2. \A m \in 1..Len(order) : order'[m] # r
      BY <2>1, <2>5
    <3>3. CASE i \in 1..Len(order) /\ j \in 1..Len(order)
      <4>1. order[i] = order[j]
        BY <2>1, <3>3
      <4> QED
        BY <3>3, <4>1 DEF PlacesInv
    <3>4. CASE i = Len(order) + 1 /\ j \in 1..Len(order)
      BY <2>1, <3>2, <3>4
    <3>5. CASE j = Len(order) + 1 /\ i \in 1..Len(order)
      BY <2>1, <3>2, <3>5
    <3> QED
      BY <3>1, <3>3, <3>4, <3>5
  <2>7. \A k \in 1..Len(batch') : batch'[k] = order'[Off' + k]
    <3> SUFFICES ASSUME NEW k \in 1..Len(batch) PROVE batch[k] = order'[Off + k]
      BY <2>3, <2>4
    <3>1. Off + k \in 1..Len(order)
      BY <1>0, <2>4 DEF Off
    <3> QED
      BY <2>1, <3>1 DEF PlacesInv
  <2>8. \A k \in 1..Len(queue') : queue'[k] = order'[Off' + Len(batch') + k]
    <3> SUFFICES ASSUME NEW k \in 1..Len(queue) + 1
                 PROVE  queue'[k] = order'[Off + Len(batch) + k]
      BY <2>1, <2>3, <2>4
    <3>1. CASE k = Len(queue) + 1
      <4>1. Off + Len(batch) + k = Len(order) + 1
        BY <1>0, <2>4, <3>1 DEF Off
      <4> QED
        BY <2>1, <3>1, <4>1
    <3>2. CASE k \in 1..Len(queue)
      <4>1. Off + Len(batch) + k \in 1..Len(order)
        BY <1>0, <2>4, <3>2 DEF Off
      <4> QED
        BY <2>1, <3>2, <4>1 DEF PlacesInv
    <3> QED
      BY <1>0, <3>1, <3>2
  <2>9. \A i \in 1..Len(table') : \E p \in 1..Off' : table'[i] = order'[p]
    <3> SUFFICES ASSUME NEW i \in 1..Len(table) PROVE \E p \in 1..Off : table[i] = order'[p]
      BY <2>3, <2>4
    <3>1. PICK p \in 1..Off : table[i] = order[p]
      BY DEF PlacesInv
    <3>2. p \in 1..Len(order)
      BY <1>0, <2>4 DEF Off
    <3> QED
      BY <2>1, <3>1, <3>2
  <2> QED
    BY <2>1, <2>2, <2>3, <2>4, <2>6, <2>7, <2>8, <2>9 DEF PlacesInv
<1>4. CASE TakeRecord
  <2>1. /\ Len(queue') = Len(queue) - 1 /\ Len(queue) >= 1
        /\ \A k \in 1..Len(queue) - 1 : queue'[k] = queue[k + 1]
        /\ Len(batch') = Len(batch) + 1 /\ batch'[Len(batch) + 1] = queue[1]
        /\ \A k \in 1..Len(batch) : batch'[k] = batch[k]
    BY <1>4, Taken DEF TakeRecord, TrailTypeOK
  <2>2. UNCHANGED <<order, table, lost, made>>
    BY <1>4 DEF TakeRecord, loopRest, tableVars
  <2>3. Off' = Off /\ Off \in Nat
    BY <1>0, <2>1, <2>2 DEF Off, PlacesInv
  <2>4. \A k \in 1..Len(batch') : batch'[k] = order'[Off' + k]
    <3> SUFFICES ASSUME NEW k \in 1..Len(batch) + 1 PROVE batch'[k] = order[Off + k]
      BY <2>1, <2>2, <2>3
    <3>1. CASE k = Len(batch) + 1
      <4>1. queue[1] = order[Off + Len(batch) + 1] /\ Off + Len(batch) + 1 = Off + k
        BY <1>0, <2>1, <2>3, <3>1 DEF PlacesInv
      <4> QED
        BY <4>1, <2>1, <3>1
    <3>2. CASE k \in 1..Len(batch)
      BY <2>1, <3>2 DEF PlacesInv
    <3> QED
      BY <1>0, <3>1, <3>2
  <2>5. \A k \in 1..Len(queue') : queue'[k] = order'[Off' + Len(batch') + k]
    <3> SUFFICES ASSUME NEW k \in 1..Len(queue) - 1
                 PROVE  queue'[k] = order[Off + (Len(batch) + 1) + k]
      BY <2>1, <2>2, <2>3
    <3>1. k + 1 \in 1..Len(queue) /\ Off + (Len(batch) + 1) + k = Off + Len(batch) + (k + 1)
      BY <1>0, <2>3
    <3>2. queue[k + 1] = order[Off + Len(batch) + (k + 1)]
      BY <3>1 DEF PlacesInv
    <3> QED
      BY <2>1, <3>1, <3>2
  <2> QED
    BY <2>2, <2>3, <2>4, <2>5 DEF PlacesInv
<1>8. ASSUME WriteBatch \/ WriteFails \/ WireFlushed
      PROVE  PlacesInv'
  <2>1. UNCHANGED <<order, queue, made>> /\ batch' = <<>> /\ Len(batch') = 0
    BY <1>0, <1>8 DEF WriteBatch, WriteFails, WireFlushed, Flushed, queueVars
  <2>2. Off' = Off + Len(batch) /\ Off \in Nat /\ Off' \in Nat
    BY <1>0, <2>1 DEF Off, PlacesInv
  <2>3. \A k \in 1..Len(queue') : queue'[k] = order'[Off' + Len(batch') + k]
    <3> SUFFICES ASSUME NEW k \in 1..Len(queue)
                 PROVE  queue[k] = order[Off + Len(batch) + 0 + k]
      BY <2>1, <2>2
    <3>1. Off + Len(batch) + 0 + k = Off + Len(batch) + k
      BY <1>0, <2>2
    <3> QED
      BY <3>1 DEF PlacesInv
  <2>4. \A i \in 1..Len(table) : \E p \in 1..Off' : table[i] = order[p]
    <3> TAKE i \in 1..Len(table)
    <3>1. PICK p \in 1..Off : table[i] = order[p]
      BY DEF PlacesInv
    <3>2. p \in 1..Off'
      BY <1>0, <2>2
    <3> QED
      BY <3>1, <3>2
  <2>5. CASE table' = table
    <3>1. lost' \subseteq Range(order)
      <4>1. \A k \in 1..Len(batch) : Off + k \in 1..Len(order)
        BY <1>0, <2>2 DEF Off
      <4>2. \A k \in 1..Len(batch) : batch[k] = order[Off + k]
        BY DEF PlacesInv
      <4>3. DOMAIN batch = 1..Len(batch) /\ DOMAIN order = 1..Len(order)
        BY LenProperties DEF PlacesInv, TrailTypeOK
      <4> HIDE DEF Off
      <4>4. Range(batch) \subseteq Range(order)
        BY <4>1, <4>2, <4>3 DEF Range
      <4> QED
        BY <1>8, <2>5, <4>4 DEF WriteBatch, WriteFails, WireFlushed, tableVars, PlacesInv
    <3>2. \A i \in 1..Len(table') : \E p \in 1..Off' : table'[i] = order'[p]
      BY <2>1, <2>4, <2>5
    <3>3. batch' = <<>> /\ \A k \in 1..Len(batch') : batch'[k] = order'[Off' + k]
      BY <2>1
    <3>4. /\ order' \in Seq(Records) /\ table' \in Seq(Records) /\ made' \subseteq Records
          /\ Range(order') \subseteq made' /\ lost' \subseteq Range(order')
          /\ \A i, j \in 1..Len(order') : order'[i] = order'[j] => i = j
      BY <2>1, <2>5, <3>1 DEF PlacesInv
    <3>5. Off' \in Nat /\ \A k \in 1..Len(batch') : batch'[k] = order'[Off' + k]
      BY <2>2, <3>3
    <3> QED
      BY <2>3, <3>2, <3>4, <3>5, Zenon DEF PlacesInv
  <2>6. CASE WriteBatch
    <3>1. /\ table' \in Seq(Records) /\ Len(table') = Len(table) + Len(batch)
          /\ \A i \in 1..Len(table) : table'[i] = table[i]
          /\ \A i \in Len(table) + 1..Len(table) + Len(batch) : table'[i] = batch[i - Len(table)]
      <4>1. table' = table \o batch
        BY <2>6 DEF WriteBatch
      <4> QED
        BY <1>0, <4>1, ConcatProperties DEF PlacesInv, TrailTypeOK
    <3>2. \A i \in 1..Len(table') : \E p \in 1..Off' : table'[i] = order'[p]
      <4> SUFFICES ASSUME NEW i \in 1..Len(table) + Len(batch)
                   PROVE  \E p \in 1..Off' : table'[i] = order[p]
        BY <2>1, <3>1
      <4>1. CASE i \in 1..Len(table)
        BY <4>1, <2>4, <3>1
      <4>2. CASE i \in Len(table) + 1..Len(table) + Len(batch)
        <5>1. i - Len(table) \in 1..Len(batch) /\ Off + (i - Len(table)) \in 1..Off'
          BY <1>0, <2>2, <4>2
        <5>2. table'[i] = order[Off + (i - Len(table))]
          BY <3>1, <4>2, <5>1 DEF PlacesInv
        <5> QED
          BY <5>1, <5>2
      <4> QED
        BY <1>0, <4>1, <4>2
    <3>3. lost' = lost
      BY <2>6 DEF WriteBatch
    <3> QED
      BY <2>1, <2>2, <2>3, <3>1, <3>2, <3>3 DEF PlacesInv
  <2> QED
    BY <1>8, <2>5, <2>6 DEF WriteFails, WireFlushed, tableVars
<1>9. ASSUME UNCHANGED <<order, queue, batch, made, table, lost>> PROVE PlacesInv'
  BY <1>9 DEF PlacesInv, Off
<1>3. ASSUME Cancel \/ FlushTick \/ SeesCancel \/ Drained PROVE PlacesInv'
  BY <1>3, <1>9 DEF Cancel, FlushTick, SeesCancel, Drained, loopRest, tableVars
<1>10. ASSUME NEW C \in SUBSET Collectors, NEW edited \in SUBSET Collectors, Reload(C, edited)
       PROVE  PlacesInv'
  BY <1>9, <1>10 DEF Reload, queueVars, tableVars
<1>11. ASSUME NEW c \in Collectors, Send(c) PROVE PlacesInv'
  BY <1>9, <1>11 DEF Send, WriteRecord, Delivered, SendRetries, SendFails, sendRest, queueVars, tableVars
<1> QED
  BY <1>1, <1>2, <1>3, <1>4, <1>8, <1>10, <1>11
     DEF TrailNext, RecordRow, RecordForward, Run

\* Every step keeps the table in order.
LEMMA TableStep ==
    ASSUME TrailTypeOK, ServeInv, PlacesInv, TableInOrder, TrailNext
    PROVE  TableInOrder'
<1>0. /\ queue \in Seq(Records) /\ batch \in Seq(Records) /\ table \in Seq(Records)
      /\ order \in Seq(Records)
      /\ Len(batch) \in Nat /\ Len(queue) \in Nat /\ Len(order) \in Nat /\ Len(table) \in Nat
  BY LenProperties DEF TrailTypeOK, PlacesInv
<1>9. ASSUME UNCHANGED <<sink, order, lost, queue, batch, table>> PROVE TableInOrder'
  BY <1>9 DEF TableInOrder
<1>1. ASSUME NEW r \in Records, Drop(r) PROVE TableInOrder'
  BY <1>1, <1>9 DEF Drop, RecordRest, tableVars
<1>2. ASSUME NEW r \in Records, Enqueue(r) PROVE TableInOrder'
  <2>1. r \notin lost /\ r \in Records \ lost
    BY <1>2 DEF Enqueue, PlacesInv
  <2>2. KeepOnly(Append(order, r), Records \ lost) = Append(KeepOnly(order, Records \ lost), r)
    BY <1>0, <2>1, KeepOnlyAppend
  <2>3. table \o batch \in Seq(Records)
    BY <1>0, ConcatProperties
  <2>4. (table \o batch) \o Append(queue, r) = Append((table \o batch) \o queue, r)
    BY <1>0, <2>3, AppendConcat
  <2> QED
    BY <1>2, <2>2, <2>4 DEF Enqueue, RecordRest, tableVars, TableInOrder
<1>4. CASE TakeRecord
  <2>1. table \o batch' \o queue' = table \o batch \o queue
    <3>1. queue # <<>> /\ queue' = Tail(queue) /\ batch' = Append(batch, Head(queue))
      BY <1>4 DEF TakeRecord
    <3>2. table \o Append(batch, Head(queue)) \o Tail(queue) = table \o batch \o queue
      <4>1. queue \in Seq(Records) /\ batch \in Seq(Records) /\ table \in Seq(Records)
        BY <1>0
      <4> QED
        BY <4>1, <3>1, TakenWhole
    <3> QED
      BY <3>1, <3>2
  <2> QED
    BY <1>4, <2>1 DEF TakeRecord, loopRest, tableVars, TableInOrder
<1>5. CASE WriteBatch
  <2>1. table \o batch \in Seq(Records) /\ (table \o batch) \o <<>> = table \o batch
    BY <1>0, ConcatProperties, ConcatEmptySeq
  <2> QED
    BY <1>5, <2>1 DEF WriteBatch, Flushed, queueVars, TableInOrder
<1>6. CASE WriteFails
  <2> DEFINE B == Range(batch)
             K == Records \ B
  <2>1. /\ KeepOnly(order, Records \ lost) = table \o batch \o queue
        /\ lost' = lost \cup B /\ batch' = <<>> /\ UNCHANGED <<sink, order, queue, table>>
    BY <1>6 DEF WriteFails, Flushed, queueVars, TableInOrder
  <2>2. table \o batch \in Seq(Records)
    BY <1>0, ConcatProperties
  <2>3. KeepOnly(order, Records \ lost') = KeepOnly(table \o batch \o queue, K)
    <3>1. Records \ lost' = (Records \ lost) \cap K
      BY <2>1
    <3>2. KeepOnly(KeepOnly(order, Records \ lost), K) = KeepOnly(order, (Records \ lost) \cap K)
      <4> HIDE DEF K
      <4> QED
        BY <1>0, KeepOnlyTwice
    <3> HIDE DEF K
    <3> QED
      BY <2>1, <3>1, <3>2
  <2>4. KeepOnly(table \o batch \o queue, K) = KeepOnly(table, K) \o KeepOnly(batch, K) \o KeepOnly(queue, K)
    <3> HIDE DEF K
    <3>1. KeepOnly((table \o batch) \o queue, K) = KeepOnly(table \o batch, K) \o KeepOnly(queue, K)
      BY <1>0, <2>2, KeepOnlyConcat
    <3>2. KeepOnly(table \o batch, K) = KeepOnly(table, K) \o KeepOnly(batch, K)
      BY <1>0, KeepOnlyConcat
    <3> QED
      BY <3>1, <3>2
  <2>5. batch \in Seq(B) /\ B \cap K = {}
    BY <1>0, ElementOfSeq DEF Range
  <2>6. KeepOnly(batch, K) = <<>>
    BY <2>5, KeepOnlyNone
  <2>7. \A i \in 1..Len(table), k \in 1..Len(batch) : table[i] # batch[k]
    <3> SUFFICES ASSUME NEW i \in 1..Len(table), NEW k \in 1..Len(batch), table[i] = batch[k]
                 PROVE  FALSE
      OBVIOUS
    <3>1. PICK p \in 1..Off : table[i] = order[p]
      BY DEF PlacesInv
    <3>2. batch[k] = order[Off + k] /\ Off \in Nat
      BY DEF PlacesInv
    <3>3. p \in 1..Len(order) /\ Off + k \in 1..Len(order) /\ p # Off + k
      BY <1>0, <3>2 DEF Off
    <3> QED
      BY <3>1, <3>2, <3>3 DEF PlacesInv
  <2>8. \A i \in 1..Len(queue), k \in 1..Len(batch) : queue[i] # batch[k]
    <3> SUFFICES ASSUME NEW i \in 1..Len(queue), NEW k \in 1..Len(batch), queue[i] = batch[k]
                 PROVE  FALSE
      OBVIOUS
    <3>2. batch[k] = order[Off + k] /\ Off \in Nat /\ queue[i] = order[Off + Len(batch) + i]
      BY DEF PlacesInv
    <3>3. Off + Len(batch) + i \in 1..Len(order) /\ Off + k \in 1..Len(order)
          /\ Off + Len(batch) + i # Off + k
      BY <1>0, <3>2 DEF Off
    <3> QED
      BY <3>2, <3>3 DEF PlacesInv
  <2>9. table \in Seq(K) /\ queue \in Seq(K)
    <3>1. \A i \in 1..Len(table) : table[i] \in K
      BY <1>0, <2>7, ElementOfSeq DEF Range
    <3>2. \A i \in 1..Len(queue) : queue[i] \in K
      BY <1>0, <2>8, ElementOfSeq DEF Range
    <3> HIDE DEF K
    <3> QED
      BY <1>0, <3>1, <3>2, SeqOver
  <2>10. KeepOnly(table, K) = table /\ KeepOnly(queue, K) = queue
    BY <2>9, KeepOnlyAll
  <2> HIDE DEF B, K
  <2> QED
    BY <2>1, <2>3, <2>4, <2>6, <2>10 DEF TableInOrder
<1>8. CASE WireFlushed
  BY <1>8 DEF WireFlushed, queueVars, TableInOrder
<1>3. ASSUME Cancel \/ FlushTick \/ SeesCancel \/ Drained PROVE TableInOrder'
  BY <1>3, <1>9 DEF Cancel, FlushTick, SeesCancel, Drained, loopRest, tableVars
<1>10. ASSUME NEW C \in SUBSET Collectors, NEW edited \in SUBSET Collectors, Reload(C, edited)
       PROVE  TableInOrder'
  BY <1>9, <1>10 DEF Reload, queueVars, tableVars
<1>11. ASSUME NEW c \in Collectors, Send(c) PROVE TableInOrder'
  BY <1>9, <1>11 DEF Send, WriteRecord, Delivered, SendRetries, SendFails, sendRest, queueVars, tableVars
<1> QED
  BY <1>1, <1>2, <1>3, <1>4, <1>5, <1>6, <1>8, <1>10, <1>11
     DEF TrailNext, RecordRow, RecordForward, Run

\* Every step adds records, or nothing, to what a collector has.
LEMMA WrittenTypeStep ==
    ASSUME TrailTypeOK, WrittenType, TrailNext
    PROVE  WrittenType'
<1>9. ASSUME written' = written PROVE WrittenType'
  BY <1>9 DEF WrittenType
<1>11. ASSUME NEW c \in Collectors, WriteRecord(c) PROVE WrittenType'
  <2>1. sendPos + 1 \in 1..Len(batch) /\ written' = [written EXCEPT ![c] = Append(@, batch[sendPos + 1])]
    BY <1>11, LenProperties DEF WriteRecord, TrailTypeOK
  <2>2. batch[sendPos + 1] \in Records
    BY <2>1, ElementOfSeq DEF TrailTypeOK
  <2>3. Append(written[c], batch[sendPos + 1]) \in Seq(Records)
    BY <2>2, AppendProperties DEF WrittenType
  <2> QED
    BY <2>1, <2>3 DEF WrittenType
<1>12. ASSUME NEW c \in Collectors, Delivered(c) \/ SendRetries(c) \/ SendFails(c) PROVE WrittenType'
  BY <1>9, <1>12 DEF Delivered, SendRetries, SendFails
<1>13. ASSUME NEW r \in Records, Drop(r) \/ Enqueue(r) PROVE WrittenType'
  BY <1>9, <1>13 DEF Drop, Enqueue, RecordRest
<1>14. ASSUME TakeRecord \/ FlushTick \/ SeesCancel \/ Drained PROVE WrittenType'
  BY <1>9, <1>14 DEF TakeRecord, FlushTick, SeesCancel, Drained, loopRest
<1>15. ASSUME Cancel \/ WriteBatch \/ WriteFails \/ WireFlushed PROVE WrittenType'
  BY <1>9, <1>15 DEF Cancel, WriteBatch, WriteFails, WireFlushed, wireVars
<1>16. ASSUME NEW C, NEW edited, Reload(C, edited) PROVE WrittenType'
  BY <1>9, <1>16 DEF Reload
<1> QED
  BY <1>11, <1>12, <1>13, <1>14, <1>15, <1>16
     DEF TrailNext, RecordRow, RecordForward, Run, Send

\* Every step keeps what the collectors have traced to the batch.
LEMMA WrittenStep ==
    ASSUME TrailTypeOK, ServeInv, PlacesInv, WrittenType, WrittenInv, TrailNext
    PROVE  WrittenInv'
<1>0. /\ Len(batch) \in Nat /\ Len(queue) \in Nat /\ Len(order) \in Nat /\ Off \in Nat
      /\ Off + Len(batch) <= Len(order) /\ sendPos \in 0..Len(batch)
      /\ Off + Len(batch) + Len(queue) = Len(order)
  <2>1. Len(batch) \in Nat /\ Len(queue) \in Nat /\ Len(order) \in Nat /\ Off \in Nat
    BY LenProperties DEF TrailTypeOK, PlacesInv
  <2> QED
    BY <2>1 DEF TrailTypeOK, Off
<1>a. ASSUME UNCHANGED <<sink, order, queue, batch, written>>, sendPos' = 0
      PROVE  WrittenInv'
  <2> SUFFICES ASSUME NEW c \in Collectors
               PROVE  /\ Traced(written'[c], order', Off' + Len(batch'))
                      /\ Repeats(written'[c], batch')
                      /\ Sent(written'[c], batch', sendPos')
    BY DEF WrittenInv
  <2>1. Len(written[c]) \in Nat
    BY LenProperties DEF WrittenInv, Traced
  <2>2. Off' = Off
    BY <1>a DEF Off
  <2>3. Sent(written[c], batch, 0)
    BY <2>1 DEF Sent
  <2> QED
    BY <1>a, <2>2, <2>3 DEF WrittenInv
<1>b. ASSUME UNCHANGED <<sink, order, queue, batch, written, sendPos, todo, run>>
      PROVE  WrittenInv'
  BY <1>b DEF WrittenInv, Off, AtTurn, Flushes
<1>c. ~Flushes => sendPos = 0
  BY DEF ServeInv
<1>1. ASSUME NEW r \in Records, Drop(r) PROVE WrittenInv'
  BY <1>1, <1>b DEF Drop, RecordRest, sendVars
<1>2. ASSUME NEW r \in Records, Enqueue(r) PROVE WrittenInv'
  <2>1. /\ Len(order') = Len(order) + 1 /\ \A i \in 1..Len(order) : order'[i] = order[i]
        /\ Len(queue') = Len(queue) + 1
    BY <1>2, AppendProperties, LenProperties DEF Enqueue, TrailTypeOK, PlacesInv
  <2>2. UNCHANGED <<sink, batch, written, sendPos, todo, run>>
    BY <1>2 DEF Enqueue, RecordRest, sendVars
  <2>3. Off' = Off
    BY <1>0, <2>1, <2>2 DEF Off
  <2>4. ASSUME NEW c \in Collectors
        PROVE  Traced(written[c], order', Off + Len(batch))
    <3> SUFFICES ASSUME NEW i \in 1..Len(written[c])
                 PROVE  \E p \in 1..Off + Len(batch) : written[c][i] = order'[p]
      BY DEF WrittenInv, Traced
    <3>1. PICK p \in 1..Off + Len(batch) : written[c][i] = order[p]
      BY DEF WrittenInv, Traced
    <3>2. p \in 1..Len(order)
      BY <1>0
    <3> QED
      BY <2>1, <3>1, <3>2
  <2>5. \A c \in Collectors : AtTurn(c)' => AtTurn(c)
    BY <2>2 DEF AtTurn, Flushes
  <2> QED
    BY <2>2, <2>3, <2>4, <2>5 DEF WrittenInv
<1>4. CASE TakeRecord
  <2>1. /\ Len(queue') = Len(queue) - 1 /\ Len(queue) >= 1
        /\ Len(batch') = Len(batch) + 1 /\ batch'[Len(batch) + 1] = queue[1]
        /\ \A k \in 1..Len(batch) : batch'[k] = batch[k]
    BY <1>4, Taken DEF TakeRecord, TrailTypeOK
  <2>2. UNCHANGED <<order, written, sendPos>> /\ sendPos' = 0
    BY <1>4, <1>c DEF TakeRecord, loopRest, Flushes
  <2>3. Off' = Off
    BY <1>0, <2>1, <2>2 DEF Off
  <2>4. queue[1] = order[Off + Len(batch) + 1]
    BY <1>0, <2>1 DEF PlacesInv
  <2>5. ASSUME NEW c \in Collectors, NEW i \in 1..Len(written[c])
        PROVE  \E p \in 1..Off + Len(batch) : written[c][i] = order[p] /\ written[c][i] # queue[1]
    <3>1. PICK p \in 1..Off + Len(batch) : written[c][i] = order[p]
      BY DEF WrittenInv, Traced
    <3>2. p \in 1..Len(order) /\ Off + Len(batch) + 1 \in 1..Len(order) /\ p # Off + Len(batch) + 1
      BY <1>0, <2>1
    <3> QED
      BY <2>4, <3>1, <3>2 DEF PlacesInv
  <2> SUFFICES ASSUME NEW c \in Collectors
               PROVE  /\ Traced(written'[c], order', Off' + Len(batch'))
                      /\ Repeats(written'[c], batch')
                      /\ Sent(written'[c], batch', sendPos')
    BY DEF WrittenInv
  <2>6. written[c] \in Seq(Records) /\ Len(written[c]) \in Nat
    BY LenProperties DEF WrittenInv, Traced
  <2>7. Traced(written[c], order, Off + (Len(batch) + 1))
    <3> SUFFICES ASSUME NEW i \in 1..Len(written[c])
                 PROVE  \E p \in 1..Off + (Len(batch) + 1) : written[c][i] = order[p]
      BY <2>6 DEF Traced
    <3>1. PICK p \in 1..Off + Len(batch) : written[c][i] = order[p]
      BY <2>5
    <3> HIDE DEF Off
    <3>2. p \in 1..Off + (Len(batch) + 1)
      BY <1>0
    <3> QED
      BY <3>1, <3>2
  <2>8. Repeats(written[c], batch')
    <3> SUFFICES ASSUME NEW i \in 1..Len(written[c]), NEW k \in 1..Len(batch'), written[c][i] = batch'[k],
                        NEW m \in 1..k - 1
                 PROVE  \E h \in 1..i - 1 : written[c][h] = batch'[m]
      BY DEF Repeats
    <3>5. written[c][i] # batch'[Len(batch) + 1]
      BY <2>1, <2>5
    <3>1. k # Len(batch) + 1
      BY <3>5
    <3>4. Len(batch) \in Nat /\ k \in 1..Len(batch) + 1
      BY <1>0, <2>1
    <3>2. k \in 1..Len(batch) /\ m \in 1..Len(batch)
      BY <3>1, <3>4
    <3>3. batch'[k] = batch[k] /\ batch'[m] = batch[m]
      BY <2>1, <3>2
    <3> QED
      BY <3>2, <3>3 DEF WrittenInv, Repeats
  <2>9. Sent(written[c], batch', 0)
    BY <2>6 DEF Sent
  <2> QED
    BY <2>1, <2>2, <2>3, <2>7, <2>8, <2>9
<1>5. CASE WriteBatch \/ WriteFails \/ WireFlushed
  <2>1. UNCHANGED <<order, queue, written>> /\ batch' = <<>> /\ Len(batch') = 0
    BY <1>5, EmptySeq DEF WriteBatch, WriteFails, WireFlushed, Flushed, queueVars, wireVars
  <2>2. Off' + Len(batch') = Off + Len(batch)
    BY <1>0, <2>1 DEF Off
  <2>3. sendPos' = 0
    <3>1. todo = {} /\ sendPos' = sendPos
      BY <1>5 DEF WriteBatch, WriteFails, WireFlushed, wireVars, sendVars, ServeInv, TrailTypeOK
    <3> QED
      BY <3>1 DEF ServeInv
  <2> SUFFICES ASSUME NEW c \in Collectors
               PROVE  /\ Traced(written'[c], order', Off' + Len(batch'))
                      /\ Repeats(written'[c], batch')
                      /\ Sent(written'[c], batch', sendPos')
    BY DEF WrittenInv
  <2>4. Traced(written[c], order, Off + Len(batch)) /\ Len(written[c]) \in Nat
    BY LenProperties DEF WrittenInv, Traced
  <2>5. Repeats(written[c], batch')
    BY <2>1 DEF Repeats
  <2>6. Sent(written[c], batch', 0)
    BY <2>4 DEF Sent
  <2> QED
    BY <2>1, <2>2, <2>3, <2>4, <2>5, <2>6
<1>3. CASE Cancel
  BY <1>3, <1>b DEF Cancel, sendVars
<1>6. CASE FlushTick \/ SeesCancel \/ Drained
  <2>1. UNCHANGED <<sink, order, queue, batch, written>> /\ sendPos' = 0
    BY <1>6, <1>c DEF FlushTick, SeesCancel, Drained, loopRest, Flushes
  <2> QED
    BY <2>1, <1>a
<1>10. ASSUME NEW C \in SUBSET Collectors, NEW edited \in SUBSET Collectors, Reload(C, edited)
       PROVE  WrittenInv'
  BY <1>b, <1>10 DEF Reload, queueVars, sendVars
<1>11. ASSUME NEW c \in Collectors, WriteRecord(c) PROVE WrittenInv'
  <2> DEFINE e == batch[sendPos + 1]
             w == written[c]
  <2>1. /\ UNCHANGED <<sink, order, queue, batch, run, todo>> /\ sendPos' = sendPos + 1
        /\ written' = [written EXCEPT ![c] = Append(w, e)] /\ AtTurn(c) /\ sendPos < Len(batch)
    BY <1>11 DEF WriteRecord, sendRest, queueVars
  <2>2. Off' = Off
    BY <2>1 DEF Off
  <2>3. e = order[Off + (sendPos + 1)] /\ e \in Records /\ sendPos + 1 \in 1..Len(batch)
    <3>1. sendPos + 1 \in 1..Len(batch)
      BY <1>0, <2>1
    <3> QED
      BY <3>1, ElementOfSeq DEF PlacesInv, TrailTypeOK
  <2>4. /\ w \in Seq(Records) /\ Len(w) \in Nat
        /\ \A i \in 1..Len(w) : \E p \in 1..Off + Len(batch) : w[i] = order[p]
        /\ \A i \in 1..Len(w), k \in 1..Len(batch) : w[i] = batch[k] =>
              \A m \in 1..k - 1 : \E h \in 1..i - 1 : w[h] = batch[m]
        /\ sendPos <= Len(w)
        /\ \A k \in 1..sendPos : w[Len(w) - sendPos + k] = batch[k]
    BY <2>1, LenProperties DEF WrittenInv, Traced, Repeats, Sent
  <2> DEFINE v == Append(w, e)
  <2>5. /\ v \in Seq(Records) /\ Len(v) = Len(w) + 1
        /\ v[Len(w) + 1] = e /\ \A i \in 1..Len(w) : v[i] = w[i]
    BY <2>3, <2>4, AppendProperties
  <2> HIDE DEF e, w, v
  <2>6. \A i \in 1..Len(v) : \E p \in 1..Off + Len(batch) : v[i] = order[p]
    <3> SUFFICES ASSUME NEW i \in 1..Len(v) PROVE \E p \in 1..Off + Len(batch) : v[i] = order[p]
      OBVIOUS
    <3>1. CASE i \in 1..Len(w)
      BY <2>4, <2>5, <3>1
    <3>2. CASE i = Len(w) + 1
      <4>1. Off + (sendPos + 1) \in 1..Off + Len(batch)
        BY <1>0, <2>3
      <4> QED
        BY <2>3, <2>5, <3>2, <4>1
    <3> QED
      BY <2>4, <2>5, <3>1, <3>2
  <2>7. ASSUME NEW i \in 1..Len(v), NEW k \in 1..Len(batch), v[i] = batch[k], NEW m \in 1..k - 1
        PROVE  \E h \in 1..i - 1 : v[h] = batch[m]
    <3>1. CASE i \in 1..Len(w)
      <4>1. PICK h \in 1..i - 1 : w[h] = batch[m]
        BY <2>4, <2>5, <2>7, <3>1
      <4>2. h \in 1..Len(w)
        BY <2>4, <3>1
      <4> QED
        BY <2>5, <4>1, <4>2
    <3>2. CASE i = Len(w) + 1
      <4>1. order[Off + k] = order[Off + (sendPos + 1)]
        BY <2>3, <2>5, <2>7, <3>2 DEF PlacesInv
      <4>2. Off + k \in 1..Len(order) /\ Off + (sendPos + 1) \in 1..Len(order)
        BY <1>0, <2>3
      <4>3. k = sendPos + 1
        <5>1. Off + k = Off + (sendPos + 1)
          BY <4>1, <4>2 DEF PlacesInv
        <5> QED
          BY <1>0, <5>1
      <4>4. m \in 1..sendPos /\ Len(w) - sendPos + m \in 1..Len(w) /\ Len(w) = i - 1
        <5>1. sendPos \in Nat /\ Len(w) \in Nat /\ sendPos <= Len(w) /\ m \in 1..sendPos
          BY <1>0, <2>4, <4>3
        <5> QED
          BY <3>2, <5>1
      <4>5. v[Len(w) - sendPos + m] = batch[m]
        BY <2>4, <2>5, <4>4
      <4> QED
        BY <4>4, <4>5
    <3> QED
      BY <2>4, <2>5, <3>1, <3>2
  <2>8. sendPos' <= Len(v) /\ \A k \in 1..sendPos' : v[Len(v) - sendPos' + k] = batch[k]
    <3>1. sendPos + 1 <= Len(v)
      BY <1>0, <2>4, <2>5
    <3>2. ASSUME NEW k \in 1..sendPos + 1 PROVE v[Len(v) - (sendPos + 1) + k] = batch[k]
      <4>1. Len(v) - (sendPos + 1) + k = Len(w) - sendPos + k
        BY <1>0, <2>4, <2>5
      <4>2. CASE k \in 1..sendPos
        <5>1. Len(w) - sendPos + k \in 1..Len(w)
          BY <1>0, <2>4, <4>2
        <5> QED
          BY <2>4, <2>5, <4>1, <4>2, <5>1
      <4>3. CASE k = sendPos + 1
        <5>1. Len(w) - sendPos + k = Len(w) + 1
          BY <1>0, <2>4, <4>3
        <5>2. e = batch[sendPos + 1]
          BY DEF e
        <5> QED
          BY <2>5, <4>1, <4>3, <5>1, <5>2
      <4> QED
        BY <1>0, <4>2, <4>3
    <3> QED
      BY <2>1, <3>1, <3>2
  <2>9. ASSUME NEW d \in Collectors, d # c
        PROVE  written'[d] = written[d] /\ ~AtTurn(d)'
    <3>1. d # CHOOSE x \in todo : TRUE
      BY <2>1, <2>9 DEF AtTurn
    <3>2. AtTurn(d)' => d = CHOOSE x \in todo : TRUE
      BY <2>1 DEF AtTurn
    <3>3. written'[d] = written[d]
      BY <2>1, <2>9 DEF WrittenType
    <3> QED
      BY <3>1, <3>2, <3>3
  <2>10. written'[c] = v
    BY <2>1 DEF v, WrittenType
  <2>11. Traced(v, order, Off + Len(batch)) /\ Repeats(v, batch) /\ Sent(v, batch, sendPos')
    BY <2>5, <2>6, <2>7, <2>8 DEF Traced, Repeats, Sent
  <2>12. ASSUME NEW d \in Collectors
         PROVE  /\ Traced(written'[d], order, Off + Len(batch)) /\ Repeats(written'[d], batch)
                /\ AtTurn(d)' => Sent(written'[d], batch, sendPos')
    <3>1. CASE d = c
      BY <2>10, <2>11, <3>1
    <3>2. CASE d # c
      BY <2>9, <3>2 DEF WrittenInv
    <3> QED
      BY <3>1, <3>2
  <2> QED
    BY <2>1, <2>2, <2>12 DEF WrittenInv
<1>12. ASSUME NEW c \in Collectors, Delivered(c) \/ SendRetries(c) \/ SendFails(c) PROVE WrittenInv'
  <2>1. UNCHANGED <<sink, order, queue, batch, written>> /\ sendPos' = 0
    BY <1>12 DEF Delivered, SendRetries, SendFails, NextCollector, sendRest, queueVars
  <2> QED
    BY <2>1, <1>a
<1> QED
  BY <1>1, <1>2, <1>3, <1>4, <1>5, <1>6, <1>10, <1>11, <1>12
     DEF TrailNext, RecordRow, RecordForward, Run, Send

\* Every step keeps connections to what is loaded.
LEMMA HeldStep ==
    ASSUME TrailTypeOK, ServeInv, HeldIsLoaded, TrailNext
    PROVE  HeldIsLoaded'
<1> USE DEF HeldIsLoaded
<1>1. ASSUME NEW r \in Records, Drop(r) \/ Enqueue(r) PROVE HeldIsLoaded'
  BY <1>1 DEF Drop, Enqueue, RecordRest
<1>2. CASE Cancel
  BY <1>2 DEF Cancel
<1>3. CASE TakeRecord
  BY <1>3 DEF TakeRecord, StartFlush, loopRest
<1>4. CASE FlushTick \/ SeesCancel \/ Drained
  BY <1>4 DEF FlushTick, SeesCancel, Drained, StartFlush, loopRest
<1>5. CASE WriteBatch \/ WriteFails
  BY <1>5 DEF WriteBatch, WriteFails, wireVars, ServeInv
<1>6. CASE WireFlushed
  <2>1. /\ run' = CASE run = "flush" -> "select" [] run = "flushDrain" -> "drain" [] OTHER -> "done"
        /\ conn' = IF run = "flushLast" THEN [c \in Collectors |-> "none"] ELSE conn
        /\ dests' = dests /\ run \in {"flush", "flushDrain", "flushLast"}
    BY <1>6 DEF WireFlushed, Flushed, Flushes
  <2>2. CASE run = "flushLast"
    BY <2>1, <2>2
  <2>3. CASE run # "flushLast"
    BY <2>1, <2>3
  <2> QED
    BY <2>2, <2>3
<1>7. ASSUME NEW C \in SUBSET Collectors, NEW edited \in SUBSET Collectors, Reload(C, edited)
      PROVE  HeldIsLoaded'
  BY <1>7 DEF Reload
<1>8. ASSUME NEW c \in Collectors, Send(c) PROVE HeldIsLoaded'
  <2>1. c \in dests /\ run # "done" /\ UNCHANGED <<run, dests>> /\ conn \in [Collectors -> {"none", "open"}]
    BY <1>8 DEF Send, WriteRecord, Delivered, SendRetries, SendFails, AtTurn, Flushes, sendRest, TrailTypeOK
  <2>2. \E x : conn' = [conn EXCEPT ![c] = x] \/ conn' = conn
    BY <1>8 DEF Send, WriteRecord, Delivered, SendRetries, SendFails, Hangup
  <2> QED
    BY <2>1, <2>2
<1> QED
  BY <1>1, <1>2, <1>3, <1>4, <1>5, <1>6, <1>7, <1>8
     DEF TrailNext, RecordRow, RecordForward, Run

\* Every step keeps the order at each collector.
LEMMA CollectorStep ==
    ASSUME TrailTypeOK, ServeInv, PlacesInv, WrittenType, WrittenInv, CollectorInOrder, TrailNext
    PROVE  CollectorInOrder'
<1>0. /\ Len(batch) \in Nat /\ Len(order) \in Nat /\ Off \in Nat
      /\ Off + Len(batch) <= Len(order) /\ DOMAIN order = 1..Len(order)
  <2>1. Len(batch) \in Nat /\ Len(queue) \in Nat /\ Len(order) \in Nat /\ Off \in Nat
    BY LenProperties DEF TrailTypeOK, PlacesInv
  <2> QED
    BY <2>1, LenProperties DEF Off, PlacesInv
<1>w. ASSUME NEW c \in Collectors
      PROVE  DOMAIN written[c] = 1..Len(written[c]) /\ Len(written[c]) \in Nat
  BY <1>w, LenProperties DEF WrittenType
<1>9. ASSUME UNCHANGED <<order, written>> PROVE CollectorInOrder'
  BY <1>9 DEF CollectorInOrder, Before
<1>1. ASSUME NEW r \in Records, Drop(r) PROVE CollectorInOrder'
  BY <1>1, <1>9 DEF Drop, RecordRest
<1>2. ASSUME NEW r \in Records, Enqueue(r) PROVE CollectorInOrder'
  <2>1. /\ Len(order') = Len(order) + 1 /\ \A i \in 1..Len(order) : order'[i] = order[i]
        /\ order'[Len(order) + 1] = r /\ DOMAIN order' = 1..Len(order) + 1
        /\ written' = written /\ r \notin made
    BY <1>2, AppendProperties, LenProperties DEF Enqueue, RecordRest, PlacesInv
  <2>2. ASSUME NEW c \in Collectors, NEW i \in 1..Len(written[c])
        PROVE  written[c][i] # r
    <3>1. PICK p \in 1..Off + Len(batch) : written[c][i] = order[p]
      BY DEF WrittenInv, Traced
    <3>2. p \in 1..Len(order)
      BY <1>0
    <3> QED
      BY <1>0, <2>1, <3>1, <3>2 DEF PlacesInv, Range
  <2> SUFFICES ASSUME NEW c \in Collectors, NEW j \in DOMAIN written[c], NEW i \in 1..(j - 1),
                      Before(written[c][j], written[c][i])'
               PROVE  \E h \in 1..(i - 1) : written[c][h] = written[c][j]
    BY <2>1 DEF CollectorInOrder
  <2>3. PICK a \in 1..Len(order) + 1, b \in 1..Len(order) + 1 :
            a < b /\ order'[a] = written[c][j] /\ order'[b] = written[c][i]
    BY <2>1 DEF Before
  <2>4. i \in 1..Len(written[c]) /\ j \in 1..Len(written[c])
    BY <1>w
  <2>5. a \in 1..Len(order) /\ b \in 1..Len(order)
    <3>1. a # Len(order) + 1 /\ b # Len(order) + 1
      BY <2>1, <2>2, <2>3, <2>4
    <3> QED
      BY <1>0, <3>1
  <2>6. Before(written[c][j], written[c][i])
    BY <1>0, <2>1, <2>3, <2>5 DEF Before
  <2> QED
    BY <2>6 DEF CollectorInOrder
<1>3. ASSUME TakeRecord \/ FlushTick \/ SeesCancel \/ Drained PROVE CollectorInOrder'
  BY <1>9, <1>3 DEF TakeRecord, FlushTick, SeesCancel, Drained, loopRest
<1>4. ASSUME Cancel \/ WriteBatch \/ WriteFails \/ WireFlushed PROVE CollectorInOrder'
  BY <1>9, <1>4 DEF Cancel, WriteBatch, WriteFails, WireFlushed, wireVars, queueVars
<1>10. ASSUME NEW C \in SUBSET Collectors, NEW edited \in SUBSET Collectors, Reload(C, edited)
       PROVE  CollectorInOrder'
  BY <1>9, <1>10 DEF Reload, queueVars
<1>11. ASSUME NEW c \in Collectors, WriteRecord(c) PROVE CollectorInOrder'
  <2> DEFINE e == batch[sendPos + 1]
             w == written[c]
             v == Append(w, e)
  <2>1. order' = order /\ written' = [written EXCEPT ![c] = v] /\ sendPos + 1 \in 1..Len(batch)
    <3>1. order' = order /\ written' = [written EXCEPT ![c] = v] /\ sendPos < Len(batch)
      BY <1>11 DEF WriteRecord, sendRest, queueVars
    <3> QED
      BY <1>0, <3>1 DEF TrailTypeOK
  <2>2. e = order[Off + (sendPos + 1)] /\ e \in Records
    BY <2>1, ElementOfSeq DEF PlacesInv, TrailTypeOK
  <2>3. w \in Seq(Records) /\ Len(w) \in Nat /\ Len(v) = Len(w) + 1 /\ DOMAIN v = 1..Len(w) + 1
        /\ v[Len(w) + 1] = e /\ \A i \in 1..Len(w) : v[i] = w[i]
    BY <2>2, AppendProperties, LenProperties DEF WrittenType
  <2>4. written'[c] = v /\ \A d \in Collectors : d # c => written'[d] = written[d]
    BY <2>1 DEF WrittenType
  <2>5. \A r, q : Before(r, q)' = Before(r, q)
    BY <2>1 DEF Before
  <2> HIDE DEF e, w, v
  <2>6. ASSUME NEW j \in 1..Len(w) + 1, NEW i \in 1..(j - 1), Before(v[j], v[i])
        PROVE  \E h \in 1..(i - 1) : v[h] = v[j]
    <3>1. i \in 1..Len(w) /\ v[i] = w[i]
      BY <2>3
    <3>2. CASE j \in 1..Len(w)
      <4>1. Before(w[j], w[i])
        BY <2>3, <2>6, <3>1, <3>2
      <4>2. PICK h \in 1..(i - 1) : w[h] = w[j]
        BY <1>w, <3>1, <3>2, <4>1 DEF CollectorInOrder, w
      <4>3. h \in 1..Len(w)
        BY <2>3, <3>1
      <4> QED
        BY <2>3, <3>2, <4>2, <4>3
    <3>3. CASE j = Len(w) + 1
      <4>1. PICK a \in 1..Len(order), b \in 1..Len(order) : a < b /\ order[a] = e /\ order[b] = w[i]
        BY <1>0, <2>3, <2>6, <3>1, <3>3 DEF Before
      <4>2. PICK p \in 1..Off + Len(batch) : w[i] = order[p]
        BY <3>1 DEF WrittenInv, Traced, w
      <4>3. a = Off + (sendPos + 1) /\ b = p
        <5>1. Off + (sendPos + 1) \in 1..Len(order) /\ p \in 1..Len(order)
          BY <1>0, <2>1
        <5> QED
          BY <2>2, <4>1, <4>2, <5>1 DEF PlacesInv
      <4>4. p - Off \in 1..Len(batch) /\ sendPos + 1 \in 1..(p - Off) - 1
        <5>1. sendPos + 1 \in Nat /\ sendPos + 1 >= 1
          BY <2>1
        <5>2. p > Off + (sendPos + 1) /\ p <= Off + Len(batch) /\ p \in Nat
          BY <1>0, <4>1, <4>3
        <5> HIDE DEF Off
        <5> QED
          BY <1>0, <5>1, <5>2
      <4>5. w[i] = batch[p - Off]
        <5>1. Off + (p - Off) = p
          BY <1>0
        <5>2. batch[p - Off] = order[Off + (p - Off)]
          BY <4>4 DEF PlacesInv
        <5> QED
          BY <4>2, <5>1, <5>2
      <4>6. PICK h \in 1..(i - 1) : w[h] = batch[sendPos + 1]
        <5>1. Repeats(w, batch)
          BY DEF WrittenInv, w
        <5> QED
          BY <3>1, <4>4, <4>5, <5>1 DEF Repeats
      <4>7. h \in 1..Len(w) /\ e = batch[sendPos + 1]
        BY <2>3, <3>1 DEF e
      <4> QED
        BY <2>3, <3>3, <4>6, <4>7
    <3> QED
      BY <2>3, <3>2, <3>3
  <2>7. ASSUME NEW d \in Collectors, NEW j \in DOMAIN written'[d], NEW i \in 1..(j - 1),
               Before(written'[d][j], written'[d][i])
        PROVE  \E h \in 1..(i - 1) : written'[d][h] = written'[d][j]
    <3>1. CASE d = c
      BY <2>3, <2>4, <2>6, <2>7, <3>1
    <3>2. CASE d # c
      BY <2>4, <2>7, <3>2 DEF CollectorInOrder
    <3> QED
      BY <3>1, <3>2
  <2> QED
    BY <2>1, <2>7 DEF CollectorInOrder, Before
<1>12. ASSUME NEW c \in Collectors, Delivered(c) \/ SendRetries(c) \/ SendFails(c) PROVE CollectorInOrder'
  BY <1>9, <1>12 DEF Delivered, SendRetries, SendFails, sendRest, queueVars
<1> QED
  BY <1>1, <1>2, <1>3, <1>4, <1>10, <1>11, <1>12
     DEF TrailNext, RecordRow, RecordForward, Run, Send

\* Every step keeps the invariant.
LEMMA TrailStep == TrailInv /\ [TrailNext]_trailVars => TrailInv'
<1> SUFFICES ASSUME TrailInv, [TrailNext]_trailVars PROVE TrailInv'
  OBVIOUS
<1>1. CASE TrailNext
  BY <1>1, TypesStep, ServeStep, PlacesStep, TableStep, WrittenTypeStep, WrittenStep, HeldStep, CollectorStep
     DEF TrailInv
<1>2. CASE UNCHANGED trailVars
  <2> USE <1>2 DEF trailVars, queueVars, tableVars, sendVars
  <2>1. TrailTypeOK'
    BY DEF TrailInv, TrailTypeOK, Flushes
  <2>2. TableInOrder' /\ HeldIsLoaded' /\ WrittenType'
    BY DEF TrailInv, TableInOrder, HeldIsLoaded, WrittenType
  <2>3. CollectorInOrder'
    BY DEF TrailInv, CollectorInOrder, Before
  <2>4. PlacesInv'
    BY DEF TrailInv, PlacesInv, Off
  <2>5. ServeInv'
    BY DEF TrailInv, ServeInv, Flushes
  <2>6. WrittenInv'
    BY DEF TrailInv, WrittenInv, Off, AtTurn, Flushes
  <2> QED
    BY <2>1, <2>2, <2>3, <2>4, <2>5, <2>6 DEF TrailInv
<1> QED
  BY <1>1, <1>2

\* It holds of every reachable state.
LEMMA TrailInvariant == TrailSpec => []TrailInv
BY TrailStart, TrailStep, PTL DEF TrailSpec

\* For any number of records and collectors, any sizes of queue and batch, and
\* whatever fails: the table has every record in the order of Record less the batches
\* that failed, a collector gets a record late only as a repeat, no connection is held
\* to what is not loaded, and the tail queued at the cancellation is flushed
\* (StoreAuditor.Run, Forwarder.Run, sender.send).
THEOREM TrailIsKept == TrailSpec => []TrailKept
<1>1. TrailInv => TrailKept
  <2>1. TrailInv => TailIsFlushed
    <3>1. Range(<<>>) = {}
      BY EmptySeq DEF Range
    <3> QED
      BY <3>1 DEF TrailInv, ServeInv, TailIsFlushed
  <2> QED
    BY <2>1 DEF TrailInv, TrailKept
<1> QED
  BY <1>1, TrailInvariant, PTL

\* A batch counts as delivered to a collector only once all of it, in order and with
\* nothing in between, is the last that was written to it (sender.send, deliver).
THEOREM DeliveredWhole == TrailSpec => WholeOnOneConnection
<1>1. ASSUME TrailInv,
             NEW c \in Collectors, AtTurn(c), sendPos = Len(batch)
      PROVE  EndsWith(written[c], batch)
  <2>1. written[c] \in Seq(Records) /\ Sent(written[c], batch, Len(batch)) /\ batch \in Seq(Records)
    BY <1>1 DEF TrailInv, WrittenType, WrittenInv, TrailTypeOK
  <2> DEFINE w == written[c]
             m == Len(w) - Len(batch)
             u == SubSeq(w, m + 1, Len(w))
  <2>2. Len(w) \in Nat /\ Len(batch) \in Nat /\ m \in Nat
    BY <2>1, LenProperties DEF Sent
  <2>3. /\ u \in Seq(Records) /\ Len(u) = Len(batch)
        /\ \A i \in 1..Len(batch) : u[i] = w[m + i]
    <3>1. /\ \A i \in m + 1..Len(w) : i \in 1..Len(w)
          /\ m + 1 <= Len(w) + 1 /\ (Len(w) - (m + 1)) + 1 = Len(batch)
          /\ \A i \in 1..Len(batch) : (m + 1) + i - 1 = m + i
      BY <2>2
    <3> QED
      BY <2>1, <2>2, <3>1, SubSeqProperties
  <2>4. \A i \in 1..Len(batch) : u[i] = batch[i]
    BY <2>1, <2>2, <2>3 DEF Sent
  <2>5. u = batch
    BY <2>1, <2>3, <2>4, SeqEqual
  <2>6. Len(batch) <= Len(w)
    BY <2>2
  <2> QED
    BY <2>5, <2>6, Zenon DEF EndsWith
<1>2. TrailInv =>
        (\A c \in Collectors : AtTurn(c) /\ c \notin todo' /\ sendPos = Len(batch) =>
            EndsWith(written[c], batch))
  BY <1>1
<1> QED
  BY <1>2, TrailInvariant, PTL DEF TrailSpec, WholeOnOneConnection

-----------------------------------------------------------------------------
(* That the cron search finds the first firing, for any schedule, any hours and days
   and any year.  A search leaves a month only from where it started or from a
   first, for a month it walks through is one of the schedule's; the rest is the
   calendar: a date is of one year and one month, so a jump to the next first passes
   days of one month alone.                                                     *)
-----------------------------------------------------------------------------
(* Division, for divisors that are not numerals. *)

\* Integer division.
LEMMA Quotient ==
    ASSUME NEW q \in Int, NEW b \in Nat \ {0}, NEW r \in 0..(b - 1)
    PROVE  ((q * b) + r) \div b = q /\ ((q * b) + r) % b = r
OBVIOUS

LEMMA Division ==
    ASSUME NEW a \in Int, NEW b \in Nat \ {0}
    PROVE  a \div b \in Int /\ a % b \in 0..(b - 1) /\ a = ((a \div b) * b) + (a % b)
<1>1. a = ((a \div b) * b) + (a % b)
  OBVIOUS
<1>2. a \div b \in Int /\ a % b \in 0..(b - 1)
  OBVIOUS
<1> QED
  BY <1>1, <1>2

\* A day is not empty.
LEMMA DayHasMinutes == PerDay \in Nat \ {0}
BY CronBounds DEF PerDay

-----------------------------------------------------------------------------
(* The calendar. *)

\* The days of a year.
YearDays(y) == IF Leap(y) THEN 366 ELSE 365

\* A year begins where the one before ends.
LEMMA YearLength ==
    ASSUME NEW y \in Nat
    PROVE  YearBefore(y) \in Int /\ YearBefore(y + 1) = YearBefore(y) + YearDays(y)
BY DEF YearBefore, YearDays, Leap

\* Years begin in their order.
LEMMA YearsInTurn ==
    ASSUME NEW y \in Nat, NEW z \in Nat, y < z
    PROVE  YearBefore(y + 1) <= YearBefore(z)
BY DEF YearBefore

\* A year is 146097 days in 400, but for the leap days on the way.
LEMMA YearNear ==
    ASSUME NEW y \in Nat
    PROVE  /\ 400 * YearBefore(y) < 146097 * y
           /\ 146097 * (y - 2) < 400 * YearBefore(y)
BY DEF YearBefore

\* The guess and the two years after it hold the day.
LEMMA YearFound ==
    ASSUME NEW n \in Nat \ {0}
    PROVE  \E y \in ((n * 400) \div 146097)..(((n * 400) \div 146097) + 2) :
              YearBefore(y) < n /\ n <= YearBefore(y + 1)
<1> DEFINE g == (n * 400) \div 146097
<1>1. g \in Nat /\ 146097 * g <= n * 400 /\ n * 400 < 146097 * (g + 1)
  OBVIOUS
<1> HIDE DEF g
<1>2. 400 * YearBefore(g) < 146097 * g /\ 146097 * ((g + 3) - 2) < 400 * YearBefore(g + 3)
  BY <1>1, YearNear
<1>3. YearBefore(g) < n /\ n <= YearBefore(g + 3)
  BY <1>1, <1>2, YearLength
<1>4. CASE n <= YearBefore(g + 1)
  BY <1>1, <1>3, <1>4 DEF g
<1>5. CASE YearBefore(g + 1) < n /\ n <= YearBefore(g + 2)
  <2>1. g + 1 \in g..(g + 2) /\ (g + 1) + 1 = g + 2
    BY <1>1
  <2> QED
    BY <1>5, <2>1 DEF g
<1>6. CASE YearBefore(g + 2) < n
  <2>1. g + 2 \in g..(g + 2) /\ (g + 2) + 1 = g + 3
    BY <1>1
  <2> QED
    BY <1>3, <1>6, <2>1 DEF g
<1>7. YearBefore(g + 1) \in Int /\ YearBefore(g + 2) \in Int
  BY <1>1, YearLength
<1> QED
  BY <1>4, <1>5, <1>6, <1>7

\* So a year that holds the day is found,
LEMMA YearChosen ==
    ASSUME NEW x \in Int, DayOf(x) \in Nat \ {0}
    PROVE  /\ YearOf(x) \in Nat \ {0}
           /\ YearBefore(YearOf(x)) < DayOf(x) /\ DayOf(x) <= YearBefore(YearOf(x) + 1)
<1> DEFINE n == DayOf(x)
           g == (n * 400) \div 146097
<1>1. \E y \in g..(g + 2) : YearBefore(y) < n /\ n <= YearBefore(y + 1)
  BY YearFound
<1>2. YearOf(x) \in g..(g + 2) /\ YearBefore(YearOf(x)) < n /\ n <= YearBefore(YearOf(x) + 1)
  BY <1>1 DEF YearOf
<1>3. g \in Nat
  OBVIOUS
<1>4. YearOf(x) \in Nat
  BY <1>2, <1>3
<1>5. YearOf(x) # 0
  <2>1. YearBefore(1) = 0
    BY DEF YearBefore
  <2> QED
    BY <1>2, <2>1
<1> QED
  BY <1>2, <1>4, <1>5

\* and it is the only one.
LEMMA YearIs ==
    ASSUME NEW x \in Int, DayOf(x) \in Nat \ {0}, NEW y \in Nat,
           YearBefore(y) < DayOf(x), DayOf(x) <= YearBefore(y + 1)
    PROVE  YearOf(x) = y
<1>1. /\ YearOf(x) \in Nat
      /\ YearBefore(YearOf(x)) < DayOf(x) /\ DayOf(x) <= YearBefore(YearOf(x) + 1)
  BY YearChosen
<1>2. /\ YearBefore(y) \in Int /\ YearBefore(y + 1) \in Int
      /\ YearBefore(YearOf(x)) \in Int /\ YearBefore(YearOf(x) + 1) \in Int
  BY <1>1, YearLength
<1>3. CASE y < YearOf(x)
  BY <1>1, <1>2, <1>3, YearsInTurn
<1>4. CASE YearOf(x) < y
  BY <1>1, <1>2, <1>4, YearsInTurn
<1> QED
  BY <1>1, <1>3, <1>4

\* A month begins where the one before ends, and the twelve fill the year.
LEMMA MonthStarts ==
    ASSUME NEW y \in Nat
    PROVE  /\ DaysBefore(y, 1) = 0
           /\ \A m \in 1..12 : DaysBefore(y, m) \in Nat /\ MonthDays(y, m) \in 28..31
           /\ \A m \in 1..11 : DaysBefore(y, m + 1) = DaysBefore(y, m) + MonthDays(y, m)
           /\ DaysBefore(y, 12) + MonthDays(y, 12) = YearDays(y)
<1> DEFINE leap == IF Leap(y) THEN 1 ELSE 0
<1>1. /\ DaysBefore(y, 1) = 0 /\ DaysBefore(y, 2) = 31 /\ DaysBefore(y, 3) = 59 + leap
      /\ DaysBefore(y, 4) = 90 + leap /\ DaysBefore(y, 5) = 120 + leap
      /\ DaysBefore(y, 6) = 151 + leap /\ DaysBefore(y, 7) = 181 + leap
      /\ DaysBefore(y, 8) = 212 + leap /\ DaysBefore(y, 9) = 243 + leap
      /\ DaysBefore(y, 10) = 273 + leap /\ DaysBefore(y, 11) = 304 + leap
      /\ DaysBefore(y, 12) = 334 + leap
  BY DEF DaysBefore
<1>2. /\ MonthDays(y, 1) = 31 /\ MonthDays(y, 2) = 28 + leap /\ MonthDays(y, 3) = 31
      /\ MonthDays(y, 4) = 30 /\ MonthDays(y, 5) = 31 /\ MonthDays(y, 6) = 30
      /\ MonthDays(y, 7) = 31 /\ MonthDays(y, 8) = 31 /\ MonthDays(y, 9) = 30
      /\ MonthDays(y, 10) = 31 /\ MonthDays(y, 11) = 30 /\ MonthDays(y, 12) = 31
  BY DEF MonthDays
<1>3. leap \in 0..1 /\ YearDays(y) = 365 + leap
  BY DEF YearDays
<1> HIDE DEF leap
<1>4. ASSUME NEW m \in 1..12
      PROVE  /\ DaysBefore(y, m) \in Nat /\ MonthDays(y, m) \in 28..31
             /\ m < 12 => DaysBefore(y, m + 1) = DaysBefore(y, m) + MonthDays(y, m)
  <2>1. m \in {1, 2, 3, 4, 5, 6, 7, 8, 9, 10, 11, 12}
    OBVIOUS
  <2> QED
    BY <1>1, <1>2, <1>3, <2>1
<1> QED
  BY <1>1, <1>2, <1>3, <1>4

\* Days of a year fall into months in turn.
LEMMA MonthsInTurn ==
    ASSUME NEW y \in Nat, NEW m \in 1..12, NEW k \in 1..12, m < k
    PROVE  DaysBefore(y, m) + MonthDays(y, m) <= DaysBefore(y, k)
<1> DEFINE b(i) == DaysBefore(y, i)
           l(i) == MonthDays(y, i)
<1>1. /\ \A i \in 1..12 : b(i) \in Nat /\ l(i) \in 28..31
      /\ b(2) = b(1) + l(1) /\ b(3) = b(2) + l(2) /\ b(4) = b(3) + l(3) /\ b(5) = b(4) + l(4)
      /\ b(6) = b(5) + l(5) /\ b(7) = b(6) + l(6) /\ b(8) = b(7) + l(7) /\ b(9) = b(8) + l(8)
      /\ b(10) = b(9) + l(9) /\ b(11) = b(10) + l(10) /\ b(12) = b(11) + l(11)
  <2>1. \A i \in 1..11 : b(i + 1) = b(i) + l(i)
    BY MonthStarts
  <2>2. \A i \in 1..12 : b(i) \in Nat /\ l(i) \in 28..31
    BY MonthStarts
  <2> HIDE DEF b, l
  <2> QED
    BY <2>1, <2>2
<1> HIDE DEF b, l
<1>2. m \in {1, 2, 3, 4, 5, 6, 7, 8, 9, 10, 11, 12} /\ k \in {1, 2, 3, 4, 5, 6, 7, 8, 9, 10, 11, 12}
  OBVIOUS
<1>3. b(m) + l(m) <= b(k)
  BY <1>1, <1>2
<1> QED
  BY <1>3 DEF b, l

\* A day of the year is in one month.
LEMMA MonthFound ==
    ASSUME NEW y \in Nat, NEW n \in 1..YearDays(y)
    PROVE  \E m \in 1..12 : DaysBefore(y, m) < n /\ n <= DaysBefore(y, m) + MonthDays(y, m)
<1> DEFINE In(m) == DaysBefore(y, m) < n /\ n <= DaysBefore(y, m) + MonthDays(y, m)
<1> SUFFICES ASSUME \A m \in 1..12 : ~In(m) PROVE FALSE
  OBVIOUS
<1>0. n \in Nat
  BY DEF YearDays
<1>1. /\ DaysBefore(y, 1) = 0
      /\ \A m \in 1..12 : DaysBefore(y, m) \in Nat /\ MonthDays(y, m) \in 28..31
      /\ \A m \in 1..11 : DaysBefore(y, m + 1) = DaysBefore(y, m) + MonthDays(y, m)
      /\ DaysBefore(y, 12) + MonthDays(y, 12) = YearDays(y)
  BY MonthStarts
<1>2. DaysBefore(y, 1) < n
  BY <1>1, <1>0
<1>3. \A m \in 1..11 : DaysBefore(y, m) < n => DaysBefore(y, m + 1) < n
  <2> SUFFICES ASSUME NEW m \in 1..11, DaysBefore(y, m) < n PROVE DaysBefore(y, m + 1) < n
    OBVIOUS
  <2>1. m \in 1..12 /\ ~In(m)
    OBVIOUS
  <2>2. DaysBefore(y, m) \in Nat /\ MonthDays(y, m) \in 28..31
        /\ DaysBefore(y, m + 1) = DaysBefore(y, m) + MonthDays(y, m)
    BY <1>1, <2>1
  <2> QED
    BY <1>0, <2>1, <2>2
<1>4. /\ DaysBefore(y, 2) < n /\ DaysBefore(y, 3) < n /\ DaysBefore(y, 4) < n
      /\ DaysBefore(y, 5) < n /\ DaysBefore(y, 6) < n /\ DaysBefore(y, 7) < n
      /\ DaysBefore(y, 8) < n /\ DaysBefore(y, 9) < n /\ DaysBefore(y, 10) < n
      /\ DaysBefore(y, 11) < n /\ DaysBefore(y, 12) < n
  BY <1>2, <1>3
<1>5. In(12)
  BY <1>0, <1>1, <1>4
<1> QED
  BY <1>5

\* What date a time is of.
LEMMA DateChosen ==
    ASSUME NEW x \in Int, DayOf(x) \in Nat \ {0}
    PROVE  /\ YearOf(x) \in Nat \ {0} /\ MonthOf(x) \in 1..12
           /\ DateOf(x) \in 1..MonthDays(YearOf(x), MonthOf(x))
           /\ DayOf(x) = DayNumber(YearOf(x), MonthOf(x), DateOf(x))
<1> DEFINE y == YearOf(x)
           n == DayOf(x) - YearBefore(y)
           m == MonthOf(x)
<1>1. y \in Nat \ {0} /\ YearBefore(y) < DayOf(x) /\ DayOf(x) <= YearBefore(y + 1)
  BY YearChosen
<1>2. YearBefore(y) \in Int /\ YearBefore(y + 1) = YearBefore(y) + YearDays(y) /\ YearDays(y) \in Nat
  BY <1>1, YearLength DEF YearDays
<1> HIDE DEF y
<1>3. n \in 1..YearDays(y)
  BY <1>1, <1>2
<1>4. \E k \in 1..12 : DaysBefore(y, k) < n /\ n <= DaysBefore(y, k) + MonthDays(y, k)
  BY <1>1, <1>3, MonthFound
<1>5. m \in 1..12 /\ DaysBefore(y, m) < n /\ n <= DaysBefore(y, m) + MonthDays(y, m)
  BY <1>4 DEF MonthOf, y
<1>6. DaysBefore(y, m) \in Nat /\ MonthDays(y, m) \in 28..31
  BY <1>1, <1>5, MonthStarts
<1>7. DateOf(x) = n - DaysBefore(y, m)
  BY DEF DateOf, y
<1>8. DateOf(x) \in 1..MonthDays(y, m)
  BY <1>3, <1>5, <1>6, <1>7
<1>9. DayOf(x) = DayNumber(y, m, DateOf(x))
  BY <1>2, <1>6, <1>7 DEF DayNumber
<1> QED
  BY <1>1, <1>5, <1>8, <1>9 DEF y

\* So each day has one month and one date.
LEMMA DateIs ==
    ASSUME NEW x \in Int, NEW y \in Nat \ {0}, NEW m \in 1..12, NEW d \in 1..MonthDays(y, m),
           DayOf(x) = DayNumber(y, m, d)
    PROVE  /\ DayOf(x) \in Nat \ {0} /\ YearOf(x) = y /\ MonthOf(x) = m /\ DateOf(x) = d
<1>0. /\ \A k \in 1..12 : DaysBefore(y, k) \in Nat /\ MonthDays(y, k) \in 28..31
      /\ DaysBefore(y, 12) + MonthDays(y, 12) = YearDays(y)
  BY MonthStarts
<1>1. /\ DaysBefore(y, m) \in Nat /\ MonthDays(y, m) \in 28..31 /\ d \in Nat \ {0}
      /\ d <= MonthDays(y, m)
  BY <1>0
<1>2. DaysBefore(y, m) + MonthDays(y, m) <= YearDays(y)
  <2>1. CASE m = 12
    <3>1. DaysBefore(y, m) + MonthDays(y, m) = YearDays(y) /\ YearDays(y) \in Nat
      BY <1>0, <2>1 DEF YearDays
    <3> QED
      BY <3>1
  <2>2. CASE m < 12
    <3>1. DaysBefore(y, m) + MonthDays(y, m) <= DaysBefore(y, 12)
      BY <2>2, MonthsInTurn
    <3>2. DaysBefore(y, 12) + MonthDays(y, 12) = YearDays(y) /\ MonthDays(y, 12) \in 28..31
          /\ DaysBefore(y, 12) \in Nat
      BY MonthStarts
    <3> QED
      BY <1>1, <3>1, <3>2
  <2> QED
    BY <2>1, <2>2
<1>3. /\ YearBefore(y) \in Int /\ YearBefore(y + 1) = YearBefore(y) + YearDays(y)
      /\ YearDays(y) \in Nat
  BY YearLength DEF YearDays
<1>4. YearBefore(y) >= 0
  BY DEF YearBefore
<1>5. /\ DayOf(x) \in Nat \ {0} /\ YearBefore(y) < DayOf(x) /\ DayOf(x) <= YearBefore(y + 1)
      /\ DayOf(x) - YearBefore(y) = DaysBefore(y, m) + d
  BY <1>1, <1>2, <1>3, <1>4 DEF DayNumber
<1>6. YearOf(x) = y
  BY <1>5, YearIs
<1>7. /\ MonthOf(x) \in 1..12 /\ DateOf(x) \in 1..MonthDays(y, MonthOf(x))
      /\ DayOf(x) = DayNumber(y, MonthOf(x), DateOf(x))
  BY <1>5, <1>6, DateChosen
<1>8. /\ DaysBefore(y, MonthOf(x)) \in Nat /\ MonthDays(y, MonthOf(x)) \in 28..31
      /\ DateOf(x) \in Nat \ {0} /\ DateOf(x) <= MonthDays(y, MonthOf(x))
      /\ DaysBefore(y, MonthOf(x)) + DateOf(x) = DaysBefore(y, m) + d
  <2>1. DaysBefore(y, MonthOf(x)) \in Nat /\ MonthDays(y, MonthOf(x)) \in 28..31
    BY <1>0, <1>7
  <2>2. DateOf(x) \in Nat \ {0} /\ DateOf(x) <= MonthDays(y, MonthOf(x))
    BY <1>7, <2>1
  <2>3. YearBefore(y) + DaysBefore(y, MonthOf(x)) + DateOf(x) = YearBefore(y) + DaysBefore(y, m) + d
    BY <1>7 DEF DayNumber
  <2> QED
    BY <1>1, <1>3, <2>1, <2>2, <2>3
<1>9. CASE m < MonthOf(x)
  BY <1>1, <1>7, <1>8, <1>9, MonthsInTurn
<1>10. CASE MonthOf(x) < m
  BY <1>1, <1>7, <1>8, <1>10, MonthsInTurn
<1>11. MonthOf(x) = m
  BY <1>7, <1>9, <1>10
<1> QED
  BY <1>1, <1>5, <1>6, <1>8, <1>11

-----------------------------------------------------------------------------
(* Days and hours in minutes. *)

\* The times of a day.
LEMMA DayBounds ==
    ASSUME NEW x \in Int
    PROVE  DayOf(x) \in Int /\ DayOf(x) * PerDay <= x /\ x < (DayOf(x) + 1) * PerDay
<1>1. /\ DayOf(x) \in Int /\ x % PerDay \in 0..(PerDay - 1)
      /\ x = (DayOf(x) * PerDay) + (x % PerDay)
  BY DayHasMinutes, Division DEF DayOf
<1>2. (DayOf(x) + 1) * PerDay = (DayOf(x) * PerDay) + PerDay
  BY <1>1, DayHasMinutes
<1> QED
  BY <1>1, <1>2, DayHasMinutes

\* A time has one day.
LEMMA DayIs ==
    ASSUME NEW x \in Int, NEW n \in Int, n * PerDay <= x, x < (n + 1) * PerDay
    PROVE  DayOf(x) = n
<1>1. x - (n * PerDay) \in 0..(PerDay - 1)
  BY DayHasMinutes
<1>2. x = (n * PerDay) + (x - (n * PerDay))
  BY DayHasMinutes
<1>3. ((n * PerDay) + (x - (n * PerDay))) \div PerDay = n
  BY <1>1, DayHasMinutes, Quotient
<1> QED
  BY <1>2, <1>3 DEF DayOf

\* A later time is on no earlier day.
LEMMA DaysInTurn ==
    ASSUME NEW x \in Int, NEW z \in Int, x <= z
    PROVE  DayOf(x) <= DayOf(z)
<1>1. /\ DayOf(x) \in Int /\ DayOf(z) \in Int
      /\ DayOf(x) * PerDay <= x /\ z < (DayOf(z) + 1) * PerDay
  BY DayBounds
<1>2. ASSUME DayOf(z) + 1 <= DayOf(x)
      PROVE  FALSE
  <2>1. (DayOf(z) + 1) * PerDay <= DayOf(x) * PerDay
    BY <1>1, <1>2, DayHasMinutes
  <2> QED
    BY <1>1, <2>1, DayHasMinutes
<1> QED
  BY <1>1, <1>2

\* Hours are counted from midnight, which divides them.
LEMMA HourIs ==
    ASSUME NEW x \in Int
    PROVE  /\ DayOf(x) = (x \div MinutesPerHour) \div HoursPerDay
           /\ HourOf(x) = (x \div MinutesPerHour) % HoursPerDay
<1> DEFINE h == x \div MinutesPerHour
           r == x % MinutesPerHour
           d == h \div HoursPerDay
           g == h % HoursPerDay
           k == (g * MinutesPerHour) + r
<1>1. h \in Int /\ r \in 0..(MinutesPerHour - 1) /\ x = (h * MinutesPerHour) + r
  BY CronBounds, Division
<1> HIDE DEF h, r
<1>2. d \in Int /\ g \in 0..(HoursPerDay - 1) /\ h = (d * HoursPerDay) + g
  BY <1>1, CronBounds, Division
<1> HIDE DEF d, g
<1>3. x = (d * PerDay) + k
  BY <1>1, <1>2, CronBounds DEF PerDay
<1>4. k \in 0..(PerDay - 1)
  <2>1. g * MinutesPerHour <= (HoursPerDay - 1) * MinutesPerHour /\ 0 <= g * MinutesPerHour
    BY <1>2, CronBounds
  <2>2. (HoursPerDay - 1) * MinutesPerHour = PerDay - MinutesPerHour
    BY CronBounds DEF PerDay
  <2> QED
    BY <1>1, <1>2, <2>1, <2>2, CronBounds, DayHasMinutes
<1>5. DayOf(x) = d /\ x % PerDay = k
  BY <1>2, <1>3, <1>4, DayHasMinutes, Quotient DEF DayOf
<1>6. k \div MinutesPerHour = g
  <2>1. g \in Int /\ MinutesPerHour \in Nat \ {0}
    BY <1>2, CronBounds
  <2> QED
    BY <1>1, <2>1, Quotient
<1> QED
  BY <1>5, <1>6 DEF HourOf, d, g, h

\* Between two minutes of one hour there is no other.
LEMMA SameHour ==
    ASSUME NEW x \in Int, NEW z \in Int, x <= z, z < ((x \div MinutesPerHour) + 1) * MinutesPerHour
    PROVE  HourOf(z) = HourOf(x)
<1> DEFINE h == x \div MinutesPerHour
<1>1. h \in Int /\ x % MinutesPerHour \in 0..(MinutesPerHour - 1)
      /\ x = (h * MinutesPerHour) + (x % MinutesPerHour)
  BY CronBounds, Division
<1> HIDE DEF h
<1>2. z - (h * MinutesPerHour) \in 0..(MinutesPerHour - 1)
      /\ z = (h * MinutesPerHour) + (z - (h * MinutesPerHour))
  <2>1. (h + 1) * MinutesPerHour = (h * MinutesPerHour) + MinutesPerHour
    BY <1>1, CronBounds
  <2> QED
    BY <1>1, <2>1, CronBounds DEF h
<1>3. z \div MinutesPerHour = h
  <2>1. ((h * MinutesPerHour) + (z - (h * MinutesPerHour))) \div MinutesPerHour = h
    <3> DEFINE r == z - (h * MinutesPerHour)
    <3>1. r \in 0..(MinutesPerHour - 1) /\ h \in Int /\ MinutesPerHour \in Nat \ {0}
      BY <1>1, <1>2, CronBounds
    <3> HIDE DEF r
    <3>2. ((h * MinutesPerHour) + r) \div MinutesPerHour = h
      BY <3>1, Quotient
    <3> QED
      BY <3>2 DEF r
  <2> QED
    BY <1>2, <2>1
<1> QED
  BY <1>3, HourIs DEF h

\* Times of one day have one year, month, date and weekday.
LEMMA SameDate ==
    ASSUME NEW x \in Int, NEW z \in Int, DayOf(x) = DayOf(z)
    PROVE  /\ YearOf(x) = YearOf(z) /\ MonthOf(x) = MonthOf(z) /\ DateOf(x) = DateOf(z)
           /\ Weekday(x) = Weekday(z)
<1>1. YearOf(x) = YearOf(z)
  BY DEF YearOf
<1>2. MonthOf(x) = MonthOf(z)
  BY <1>1 DEF MonthOf
<1> QED
  BY <1>1, <1>2 DEF DateOf, Weekday

-----------------------------------------------------------------------------
(* The jumps. *)

\* After the last day of a month comes the first of the next.
LEMMA FirstIsNext ==
    ASSUME NEW y \in Nat \ {0}, NEW m \in 1..12
    PROVE  /\ y + (m \div 12) \in Nat \ {0} /\ (m % 12) + 1 \in 1..12
           /\ DayNumber(y + (m \div 12), (m % 12) + 1, 1) = DayNumber(y, m, 1) + MonthDays(y, m)
           /\ DayNumber(y, m, 1) \in Nat \ {0} /\ MonthDays(y, m) \in 28..31
<1>1. /\ \A k \in 1..12 : DaysBefore(y, k) \in Nat /\ MonthDays(y, k) \in 28..31
      /\ DaysBefore(y, 12) + MonthDays(y, 12) = YearDays(y)
      /\ \A k \in 1..11 : DaysBefore(y, k + 1) = DaysBefore(y, k) + MonthDays(y, k)
  BY MonthStarts
<1>2. YearBefore(y) \in Int /\ YearBefore(y + 1) = YearBefore(y) + YearDays(y)
  BY YearLength
<1>3. YearBefore(y) >= 0
  BY DEF YearBefore
<1>4. DayNumber(y, m, 1) \in Nat \ {0} /\ MonthDays(y, m) \in 28..31
  BY <1>1, <1>2, <1>3 DEF DayNumber
<1>5. CASE m = 12
  <2>1. m \div 12 = 1 /\ m % 12 = 0
    BY <1>5
  <2>2. DaysBefore(y + 1, 1) = 0
    BY MonthStarts
  <2>3. DayNumber(y + 1, 1, 1) = DayNumber(y, 12, 1) + MonthDays(y, 12)
    BY <1>1, <1>2, <2>2 DEF DayNumber
  <2> QED
    BY <1>4, <1>5, <2>1, <2>3
<1>6. CASE m \in 1..11
  <2>1. m \div 12 = 0 /\ m % 12 = m
    BY <1>6
  <2>2. DayNumber(y, m + 1, 1) = DayNumber(y, m, 1) + MonthDays(y, m)
    BY <1>1, <1>2, <1>6 DEF DayNumber
  <2> QED
    BY <1>4, <1>6, <2>1, <2>2
<1> QED
  BY <1>5, <1>6

\* A midnight is of its day.
LEMMA MidnightIs ==
    ASSUME NEW n \in Int
    PROVE  n * PerDay \in Int /\ DayOf(n * PerDay) = n
<1>1. n * PerDay \in Int /\ n * PerDay < (n + 1) * PerDay
  BY DayHasMinutes
<1> QED
  BY <1>1, DayIs

\* Its midnight, as a time, has the date 1.
LEMMA FirstOfMonth ==
    ASSUME NEW y \in Nat \ {0}, NEW m \in 1..12
    PROVE  /\ At(y + (m \div 12), (m % 12) + 1, 1, 0) = (DayNumber(y, m, 1) + MonthDays(y, m)) * PerDay
           /\ At(y + (m \div 12), (m % 12) + 1, 1, 0) \in Int
           /\ DateOf(At(y + (m \div 12), (m % 12) + 1, 1, 0)) = 1
<1> DEFINE v == y + (m \div 12)
           k == (m % 12) + 1
           x == At(v, k, 1, 0)
           n == DayNumber(y, m, 1) + MonthDays(y, m)
<1>1. v \in Nat \ {0} /\ k \in 1..12 /\ DayNumber(v, k, 1) = n /\ n \in Int
  <2>1. DayNumber(y, m, 1) \in Nat \ {0} /\ MonthDays(y, m) \in 28..31
    BY FirstIsNext
  <2>2. n \in Int
    BY <2>1
  <2> HIDE DEF n
  <2>3. v \in Nat \ {0} /\ k \in 1..12
    BY FirstIsNext
  <2>4. DayNumber(v, k, 1) = n
    BY FirstIsNext DEF n
  <2> QED
    BY <2>2, <2>3, <2>4
<1>2. MonthDays(v, k) \in 28..31
  BY <1>1, FirstIsNext
<1> HIDE DEF v, k, n
<1>3. n * PerDay \in Int /\ x = n * PerDay /\ DayOf(x) = n
  BY <1>1, MidnightIs, DayHasMinutes DEF At
<1>4. DateOf(x) = 1
  <2>1. 1 \in 1..MonthDays(v, k)
    BY <1>2
  <2> QED
    BY <1>1, <1>3, <2>1, DateIs
<1> QED
  BY <1>3, <1>4 DEF v, k, n

\* The search goes on at the first of a later month; from a day that every month
\* has, at the first of the next one.
LEMMA NextMonthIs ==
    ASSUME NEW x \in Int, DayOf(x) \in Nat \ {0}
    PROVE  /\ NextMonth(x) \in Int /\ x < NextMonth(x) /\ DateOf(NextMonth(x)) = 1
           /\ DateOf(x) <= 28 =>
                 NextMonth(x) = (DayNumber(YearOf(x), MonthOf(x), 1)
                                    + MonthDays(YearOf(x), MonthOf(x))) * PerDay
<1> DEFINE y == YearOf(x)
           m == MonthOf(x)
           d == DateOf(x)
           v == y + (m \div 12)
           k == (m % 12) + 1
           n == DayNumber(y, m, 1) + MonthDays(y, m)
           o == DayNumber(v, k, 1) + MonthDays(v, k)
<1>1. /\ y \in Nat \ {0} /\ m \in 1..12 /\ d \in 1..MonthDays(y, m)
      /\ DayOf(x) = DayNumber(y, m, d)
  BY DateChosen
<1> HIDE DEF y, m, d
<1>2. /\ v \in Nat \ {0} /\ k \in 1..12 /\ n = DayNumber(v, k, 1)
      /\ MonthDays(y, m) \in 28..31 /\ DayNumber(y, m, 1) \in Nat
  BY <1>1, FirstIsNext
<1>3. MonthDays(v, k) \in 28..31 /\ n \in Nat
  BY <1>2, FirstIsNext
<1> HIDE DEF v, k
<1>4. At(v, k, 1, 0) = n * PerDay /\ n * PerDay \in Int /\ DateOf(n * PerDay) = 1
  BY <1>1, FirstOfMonth DEF v, k
<1>5. /\ At(v + (k \div 12), (k % 12) + 1, 1, 0) = o * PerDay /\ o * PerDay \in Int
      /\ DateOf(o * PerDay) = 1
  BY <1>2, FirstOfMonth
<1>6. DayOf(x) + 1 <= n
  <2>1. DayNumber(y, m, d) = DayNumber(y, m, 1) + d - 1
    <3>1. YearBefore(y) \in Int
      BY <1>1, YearLength
    <3>2. DaysBefore(y, m) \in Nat
      BY <1>1, MonthStarts
    <3>3. d \in Nat
      BY <1>1, <1>2
    <3> QED
      BY <3>1, <3>2, <3>3 DEF DayNumber
  <2> QED
    BY <1>1, <1>2, <2>1
<1>7. x < n * PerDay /\ n * PerDay < o * PerDay
  <2>1. (DayOf(x) + 1) * PerDay <= n * PerDay /\ x < (DayOf(x) + 1) * PerDay
    BY <1>3, <1>6, DayBounds, DayHasMinutes
  <2>2. n < o /\ o \in Nat
    BY <1>2, <1>3
  <2>3. n * PerDay < o * PerDay
    <3> HIDE DEF n, o
    <3> QED
      BY <1>3, <2>2, DayHasMinutes
  <2> QED
    BY <1>3, <2>1, <2>3, DayHasMinutes
<1>8. NextMonth(x) = IF d > MonthDays(v, k) THEN o * PerDay ELSE n * PerDay
  BY <1>4, <1>5 DEF NextMonth, y, m, d, v, k
<1>9. d <= 28 => NextMonth(x) = n * PerDay
  BY <1>1, <1>2, <1>3, <1>8
<1>10. NextMonth(x) \in {n * PerDay, o * PerDay}
  BY <1>8
<1> HIDE DEF n, o
<1>11. NextMonth(x) \in Int /\ x < NextMonth(x) /\ DateOf(NextMonth(x)) = 1
  BY <1>4, <1>5, <1>7, <1>10
<1> QED
  BY <1>9, <1>11 DEF n, y, m, d

\* What is before the first of the next month is of this one.
LEMMA SameMonth ==
    ASSUME NEW x \in Int, DayOf(x) \in Nat \ {0}, NEW z \in Int, x <= z,
           z < (DayNumber(YearOf(x), MonthOf(x), 1) + MonthDays(YearOf(x), MonthOf(x))) * PerDay
    PROVE  MonthOf(z) = MonthOf(x)
<1> DEFINE y == YearOf(x)
           m == MonthOf(x)
           a == DayNumber(y, m, 1)
           n == a + MonthDays(y, m)
           d == DayOf(z) - a + 1
<1>1. /\ y \in Nat \ {0} /\ m \in 1..12 /\ DateOf(x) \in 1..MonthDays(y, m)
      /\ DayOf(x) = DayNumber(y, m, DateOf(x))
  BY DateChosen
<1>2. YearBefore(y) \in Int /\ DaysBefore(y, m) \in Nat /\ MonthDays(y, m) \in 28..31
  BY <1>1, YearLength, MonthStarts
<1> HIDE DEF y, m
<1>3. /\ a \in Int /\ n \in Int /\ DayOf(x) >= a
      /\ \A i \in Int : DayNumber(y, m, i) = a + i - 1
  BY <1>1, <1>2 DEF DayNumber
<1>4. DayOf(z) \in Int /\ DayOf(x) <= DayOf(z) /\ DayOf(z) * PerDay <= z
  BY DaysInTurn, DayBounds
<1>5. z < n * PerDay
  BY DEF y, m
<1> HIDE DEF a, n
<1>6. DayOf(z) < n
  <2>1. ASSUME n <= DayOf(z) PROVE FALSE
    <3>1. n * PerDay <= DayOf(z) * PerDay
      BY <1>3, <1>4, <2>1, DayHasMinutes
    <3> QED
      BY <1>3, <1>4, <1>5, <3>1, DayHasMinutes
  <2> QED
    BY <1>3, <1>4, <2>1
<1>7. d \in 1..MonthDays(y, m) /\ DayOf(z) = DayNumber(y, m, d)
  BY <1>2, <1>3, <1>4, <1>6 DEF n
<1>8. MonthOf(z) = m
  BY <1>1, <1>7, DateIs
<1> QED
  BY <1>8 DEF m

\* The day after a date is in its month, or the first of another.
LEMMA DayAfter ==
    ASSUME NEW x \in Int, DayOf(x) \in Nat \ {0}, NEW z \in Int, DayOf(z) = DayOf(x) + 1
    PROVE  MonthOf(z) = MonthOf(x) \/ DateOf(z) = 1
<1> DEFINE y == YearOf(x)
           m == MonthOf(x)
           d == DateOf(x)
<1>1. /\ y \in Nat \ {0} /\ m \in 1..12 /\ d \in 1..MonthDays(y, m)
      /\ DayOf(x) = DayNumber(y, m, d)
  BY DateChosen
<1>2. YearBefore(y) \in Int /\ DaysBefore(y, m) \in Nat /\ MonthDays(y, m) \in 28..31
  BY <1>1, YearLength, MonthStarts
<1> HIDE DEF y, m, d
<1>3. \A i \in Int : DayNumber(y, m, i) = DayNumber(y, m, 1) + i - 1
  BY <1>1, <1>2 DEF DayNumber
<1>4. d \in Int /\ DayNumber(y, m, 1) \in Int
  BY <1>1, <1>2 DEF DayNumber
<1>5. CASE d < MonthDays(y, m)
  <2>1. d + 1 \in 1..MonthDays(y, m) /\ DayOf(z) = DayNumber(y, m, d + 1)
    BY <1>1, <1>2, <1>3, <1>4, <1>5
  <2>2. MonthOf(z) = m
    BY <1>1, <2>1, DateIs
  <2> QED
    BY <2>2 DEF m
<1>6. CASE d = MonthDays(y, m)
  <2>1. /\ y + (m \div 12) \in Nat \ {0} /\ (m % 12) + 1 \in 1..12
        /\ DayNumber(y + (m \div 12), (m % 12) + 1, 1) = DayNumber(y, m, 1) + MonthDays(y, m)
    BY <1>1, FirstIsNext
  <2>2. DayOf(z) = DayNumber(y + (m \div 12), (m % 12) + 1, 1)
    BY <1>1, <1>3, <1>4, <1>6, <2>1
  <2>3. 1 \in 1..MonthDays(y + (m \div 12), (m % 12) + 1)
    <3>1. MonthDays(y + (m \div 12), (m % 12) + 1) \in 28..31
      BY <2>1, FirstIsNext
    <3> QED
      BY <3>1
  <2>4. DateOf(z) = 1
    BY <2>1, <2>2, <2>3, DateIs
  <2> QED
    BY <2>4
<1> QED
  BY <1>1, <1>2, <1>4, <1>5, <1>6

-----------------------------------------------------------------------------
(* The search. *)

(* The inductive invariant.  A search leaves a month only from where it started or
   from a first, because a month it walks through is one of the schedule's.      *)
CronInv ==
    /\ spec \in Schedules /\ after \in Starts /\ t \in Int
    /\ last \in Int /\ last <= after
    /\ answer \in {"searching", "found", "never"}
    /\ Searching =>
          /\ t > after
          /\ MonthOf(t) \in spec.month \/ t = after + 1 \/ DateOf(t) = 1
    /\ FoundFires /\ EveryOnGrid

\* Every time searched has a date.
LEMMA SearchDated ==
    ASSUME CronInv
    PROVE  /\ after \in Nat /\ spec.every \in Nat
           /\ spec.domStar \in BOOLEAN /\ spec.dowStar \in BOOLEAN
           /\ Searching => DayOf(t) \in Nat \ {0}
<1>1. after \in Nat /\ after >= PerDay
  BY CronTimes DEF CronInv
<1>2. ASSUME Searching PROVE DayOf(t) \in Nat \ {0}
  <2>1. t \in Int /\ 1 * PerDay <= t
    BY <1>1, <1>2, DayHasMinutes DEF CronInv
  <2>2. DayOf(1 * PerDay) = 1
    BY MidnightIs
  <2>3. 1 <= DayOf(t) /\ DayOf(t) \in Int
    BY <2>1, <2>2, DaysInTurn, DayBounds, DayHasMinutes
  <2> QED
    BY <2>3
<1> QED
  BY <1>1, <1>2, CronForms DEF CronInv

\* What the fields of a day say is what the grammar says of them.
LEMMA DayMatches ==
    ASSUME NEW s, s.domStar \in BOOLEAN, s.dowStar \in BOOLEAN, NEW x
    PROVE  MatchDay(s, x) <=>
              \/ DateOf(x) \in s.dom /\ Weekday(x) \in s.dow
              \/ ~s.domStar /\ ~s.dowStar /\ (DateOf(x) \in s.dom \/ Weekday(x) \in s.dow)
BY DEF MatchDay

\* CronInv holds at first.
LEMMA CronStart == CronInit => CronInv
<1> SUFFICES ASSUME CronInit PROVE CronInv
  OBVIOUS
<1>1. after \in Nat /\ spec \in Schedules
  BY CronTimes DEF CronInit
<1>2. last \in Int /\ last <= after
  BY <1>1, CronTimes DEF CronInit
<1> QED
  BY <1>1, <1>2 DEF CronInit, CronInv, FoundFires, EveryOnGrid

\* A jump forward within a day, or to the next midnight, keeps to the month or comes
\* to a first.
LEMMA JumpsNear ==
    ASSUME CronInv, Searching, MonthOf(t) \in spec.month, NEW z \in Int, t < z,
           z <= (DayOf(t) + 1) * PerDay, Jump(z)
    PROVE  CronInv'
<1>1. DayOf(t) \in Nat \ {0} /\ t \in Int
  BY SearchDated DEF CronInv
<1>2. CASE z < (DayOf(t) + 1) * PerDay
  <2>1. DayOf(z) = DayOf(t)
    <3>1. DayOf(t) * PerDay <= t /\ DayOf(t) * PerDay \in Int
      BY <1>1, DayBounds, MidnightIs
    <3> QED
      BY <1>1, <1>2, <3>1, DayIs
  <2>2. MonthOf(z) \in spec.month
    BY <1>1, <2>1, SameDate
  <2> QED
    BY <2>2, SearchDated DEF CronInv, Jump, Searching, FoundFires, EveryOnGrid
<1>3. CASE z = (DayOf(t) + 1) * PerDay
  <2>1. DayOf(z) = DayOf(t) + 1
    BY <1>1, <1>3, MidnightIs
  <2>2. MonthOf(z) \in spec.month \/ DateOf(z) = 1
    BY <1>1, <2>1, DayAfter
  <2> QED
    BY <2>2, SearchDated DEF CronInv, Jump, Searching, FoundFires, EveryOnGrid
<1> QED
  BY <1>1, <1>2, <1>3, MidnightIs

\* The hour after a time begins later, and not after the next midnight.
LEMMA NextHour ==
    ASSUME NEW x \in Int
    PROVE  /\ ((x \div MinutesPerHour) + 1) * MinutesPerHour \in Int
           /\ x < ((x \div MinutesPerHour) + 1) * MinutesPerHour
           /\ ((x \div MinutesPerHour) + 1) * MinutesPerHour <= (DayOf(x) + 1) * PerDay
<1> DEFINE h == x \div MinutesPerHour
           d == h \div HoursPerDay
<1>1. h \in Int /\ x % MinutesPerHour \in 0..(MinutesPerHour - 1)
      /\ x = (h * MinutesPerHour) + (x % MinutesPerHour)
  BY CronBounds, Division
<1> HIDE DEF h
<1>2. d \in Int /\ h % HoursPerDay \in 0..(HoursPerDay - 1)
      /\ h = (d * HoursPerDay) + (h % HoursPerDay)
  BY <1>1, CronBounds, Division
<1>3. DayOf(x) = d
  BY HourIs DEF h
<1> HIDE DEF d
<1>4. h + 1 <= (d + 1) * HoursPerDay
  <2>1. (d + 1) * HoursPerDay = (d * HoursPerDay) + HoursPerDay
    BY <1>2, CronBounds
  <2> QED
    BY <1>1, <1>2, <2>1, CronBounds
<1>5. (h + 1) * MinutesPerHour <= ((d + 1) * HoursPerDay) * MinutesPerHour
  BY <1>1, <1>2, <1>4, CronBounds
<1>6. ((d + 1) * HoursPerDay) * MinutesPerHour = (d + 1) * PerDay
  BY <1>2, CronBounds DEF PerDay
<1>7. (h + 1) * MinutesPerHour \in Int /\ x < (h + 1) * MinutesPerHour
  <2>1. (h + 1) * MinutesPerHour = (h * MinutesPerHour) + MinutesPerHour
    BY <1>1, CronBounds
  <2> QED
    BY <1>1, <2>1, CronBounds
<1> QED
  BY <1>3, <1>5, <1>6, <1>7 DEF h

\* Every jump of the search goes forward.
LEMMA JumpKeeps ==
    ASSUME CronInv, JumpMonth \/ JumpDay \/ JumpHour \/ JumpMinute
    PROVE  CronInv'
<1>0. Searching /\ t \in Int /\ DayOf(t) \in Nat \ {0}
  BY SearchDated DEF CronInv, JumpMonth, JumpDay, JumpHour, JumpMinute, InMonth, InDay, InHour
<1>1. t < (DayOf(t) + 1) * PerDay /\ (DayOf(t) + 1) * PerDay \in Int
  BY <1>0, DayBounds, MidnightIs
<1>2. CASE JumpMonth
  <2>1. /\ NextMonth(t) \in Int /\ t < NextMonth(t) /\ DateOf(NextMonth(t)) = 1
    BY <1>0, NextMonthIs
  <2>2. t' = NextMonth(t) /\ UNCHANGED <<spec, after, last, answer>>
    BY <1>2 DEF JumpMonth, Jump
  <2> QED
    BY <1>0, <2>1, <2>2, SearchDated DEF CronInv, Searching, FoundFires, EveryOnGrid
<1>3. CASE JumpDay
  BY <1>0, <1>1, <1>3, JumpsNear DEF JumpDay, InMonth
<1>4. CASE JumpHour
  BY <1>0, <1>1, <1>4, NextHour, JumpsNear DEF JumpHour, InDay, InMonth
<1>5. CASE JumpMinute
  <2>1. t + 1 <= (DayOf(t) + 1) * PerDay
    BY <1>0, <1>1
  <2> QED
    BY <1>0, <1>5, <2>1, JumpsNear DEF JumpMinute, InHour, InDay, InMonth
<1> QED
  BY <1>2, <1>3, <1>4, <1>5

\* What it finds matches every field.
LEMMA AnswerKeeps ==
    ASSUME CronInv, GiveUp \/ Found
    PROVE  CronInv'
<1>1. CASE GiveUp
  BY <1>1 DEF GiveUp, Answer, CronInv, Searching, FoundFires, EveryOnGrid
<1>2. CASE Found
  <2>1. Searching /\ UNCHANGED <<spec, after, last, t>> /\ answer' = "found"
    BY <1>2 DEF Found, InHour, InDay, InMonth, Answer
  <2>2. Fires(spec, t)
    BY <1>2, SearchDated, DayMatches DEF Found, InHour, InDay, InMonth, Fires
  <2>3. FoundFires'
    BY <2>1, <2>2 DEF FoundFires, CronInv
  <2> QED
    BY <2>1, <2>3 DEF CronInv, Searching, EveryOnGrid
<1> QED
  BY <1>1, <1>2

\* The interval form: the first number of intervals that is past `after`.
LEMMA EveryKeeps ==
    ASSUME CronInv, NextEvery
    PROVE  CronInv'
<1> DEFINE origin == IF last = 0 THEN after ELSE last
           n == spec.every
           missed == (after - origin) \div n
<1>1. after \in Nat /\ n \in Nat \ {0} /\ origin \in Int /\ origin <= after
  BY SearchDated DEF CronInv, NextEvery
<1>2. /\ t' = (IF origin + n > after THEN origin + n ELSE origin + ((missed + 1) * n))
      /\ answer' = "found" /\ UNCHANGED <<spec, after, last>>
  BY DEF NextEvery
<1> HIDE DEF origin
<1>3. /\ t' \in Int /\ t' > after /\ t' > origin /\ (t' - origin) % n = 0
      /\ t' - n <= after \/ t' - n = origin
  <2> HIDE DEF n
  <2>1. CASE origin + n > after
    <3>1. t' = origin + n
      BY <1>2, <2>1
    <3>2. ((1 * n) + 0) % n = 0
      BY <1>1, Quotient
    <3>3. t' - origin = (1 * n) + 0
      BY <1>1, <3>1
    <3> QED
      BY <1>1, <2>1, <3>1, <3>2, <3>3
  <2>2. CASE ~(origin + n > after)
    <3>1. /\ missed \in Int /\ (after - origin) % n \in 0..(n - 1)
          /\ after - origin = (missed * n) + ((after - origin) % n)
      <4>1. after - origin \in Int
        BY <1>1
      <4> QED
        BY <1>1, <4>1, Division
    <3> HIDE DEF missed
    <3>2. t' = origin + ((missed + 1) * n) /\ (missed + 1) * n = (missed * n) + n /\ missed * n \in Int
      BY <1>1, <1>2, <2>2, <3>1
    <3>3. (((missed + 1) * n) + 0) % n = 0
      <4>1. missed + 1 \in Int /\ 0 \in 0..(n - 1)
        BY <1>1, <3>1
      <4> QED
        BY <1>1, <4>1, Quotient
    <3>4. t' - origin = ((missed + 1) * n) + 0
      BY <1>1, <3>2
    <3>5. t' \in Int /\ t' > after /\ t' > origin /\ t' - n <= after
      BY <1>1, <3>1, <3>2
    <3> QED
      BY <3>3, <3>4, <3>5
  <2> QED
    BY <2>1, <2>2
<1>4. origin' = origin
  BY <1>2 DEF origin
<1>5. EveryOnGrid'
  BY <1>2, <1>3, <1>4 DEF EveryOnGrid, origin
<1>6. spec'.every > 0
  BY <1>2 DEF NextEvery
<1> QED
  BY <1>1, <1>2, <1>3, <1>5, <1>6 DEF CronInv, Searching, FoundFires

\* Every jump keeps it.
LEMMA CronStep == CronInv /\ [CronNext]_cronVars => CronInv'
<1> SUFFICES ASSUME CronInv, [CronNext]_cronVars PROVE CronInv'
  OBVIOUS
<1>1. CASE UNCHANGED cronVars
  BY <1>1 DEF cronVars, CronInv, Searching, FoundFires, EveryOnGrid
<1> QED
  BY <1>1, JumpKeeps, AnswerKeeps, EveryKeeps DEF CronNext

\* A jump over what does not match passes no firing, from a day that every month has.
LEMMA JumpSkipsNothing ==
    ASSUME CronInv, Searching, DateOf(after + 1) <= 28, CronNext
    PROVE  NoFiring(t, t')
<1> SUFFICES ASSUME NEW z \in t..(t' - 1) PROVE ~Fires(spec, z)
  BY DEF NoFiring
<1>0. t \in Int /\ DayOf(t) \in Nat \ {0}
  BY SearchDated DEF CronInv
<1>1. CASE JumpMonth
  <2>1. t' = NextMonth(t) /\ MonthOf(t) \notin spec.month
    BY <1>1 DEF JumpMonth, Jump
  <2>2. DateOf(t) <= 28
    BY <2>1 DEF CronInv
  <2>3. /\ t' \in Int
        /\ t' = (DayNumber(YearOf(t), MonthOf(t), 1) + MonthDays(YearOf(t), MonthOf(t))) * PerDay
    BY <1>0, <2>1, <2>2, NextMonthIs
  <2>4. z \in Int /\ t <= z /\ z < t'
    BY <1>0, <2>3
  <2>5. MonthOf(z) = MonthOf(t)
    BY <1>0, <2>3, <2>4, SameMonth
  <2> QED
    BY <2>1, <2>5 DEF Fires
<1>2. CASE JumpDay
  <2>1. t' = (DayOf(t) + 1) * PerDay /\ ~MatchDay(spec, t)
    BY <1>2 DEF JumpDay, Jump
  <2>2. z \in Int /\ t <= z /\ z < (DayOf(t) + 1) * PerDay
    BY <1>0, <2>1, MidnightIs
  <2>3. DayOf(t) * PerDay <= z
    BY <1>0, <2>2, DayBounds, MidnightIs
  <2>4. DayOf(z) = DayOf(t)
    BY <1>0, <2>2, <2>3, DayIs
  <2> QED
    BY <1>0, <2>1, <2>2, <2>4, SameDate, SearchDated, DayMatches DEF Fires
<1>3. CASE JumpHour
  <2>1. t' = ((t \div MinutesPerHour) + 1) * MinutesPerHour /\ HourOf(t) \notin spec.hour
    BY <1>3 DEF JumpHour, Jump
  <2>2. z \in Int /\ t <= z /\ z < ((t \div MinutesPerHour) + 1) * MinutesPerHour
    BY <1>0, <2>1, NextHour
  <2>3. HourOf(z) = HourOf(t)
    BY <1>0, <2>2, SameHour
  <2> QED
    BY <2>1, <2>3 DEF Fires
<1>4. CASE JumpMinute
  <2>1. z = t /\ MinuteOf(t) \notin spec.minute
    BY <1>0, <1>4 DEF JumpMinute, Jump
  <2> QED
    BY <2>1 DEF Fires
<1>5. CASE GiveUp \/ Found
  BY <1>0, <1>5 DEF GiveUp, Found, Answer
<1>6. CASE NextEvery
  BY <1>6 DEF NextEvery, Searching
<1> QED
  BY <1>1, <1>2, <1>3, <1>4, <1>5, <1>6 DEF CronNext

\* For every schedule, every length of hours and days and every year: what Next
\* returns is a firing after `after`, of an interval the first on its grid, and a
\* search that starts by the 28th jumps over none (Schedule.Next).
THEOREM NextComesFirst == CronSpec => NextIsFirst
<1>1. CronInv => FoundFires /\ EveryOnGrid
  BY DEF CronInv
<1>2. CronInv /\ [CronNext]_cronVars =>
          [Searching /\ DateOf(after + 1) <= 28 => NoFiring(t, t')]_cronVars
  BY JumpSkipsNothing
<1>3. CronSpec => []CronInv
  BY CronStart, CronStep, PTL DEF CronSpec
<1> QED
  BY <1>1, <1>2, <1>3, PTL DEF CronSpec, NextIsFirst, NothingSkipped
=============================================================================
