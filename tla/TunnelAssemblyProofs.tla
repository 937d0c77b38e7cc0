------------------------ MODULE TunnelAssemblyProofs ------------------------
(* That t.assembled is exact and bounded for any number of calls, any limits
   and any sequence of frames.  The inductive invariant is the conjunction of
   the type invariant with the three others: the budget test in addPart only
   bounds the bytes held because the counter is exact, and failLocked may
   subtract an entry's bytes only because an entry never outgrows BodyLimit. *)
EXTENDS TunnelAssembly, FiniteSetTheorems, TLAPS

\* What a call of f holds, as one slice of HeldOf(f).
HeldBy(f, c) == {c} \X (1..f[c])

\* The bytes the entries hold are finitely many.
LEMMA HeldFinite ==
    ASSUME NEW f \in [Calls -> Nat]
    PROVE  /\ IsFiniteSet(HeldOf(f))
           /\ Cardinality(HeldOf(f)) \in Nat
<1>1. IsFiniteSet(1..BodyLimit)
  BY FS_Interval, BoundsNat
<1>2. IsFiniteSet(Calls \X (1..BodyLimit))
  BY <1>1, CallsFinite, FS_Product
<1>3. HeldOf(f) \in SUBSET (Calls \X (1..BodyLimit))
  BY DEF HeldOf
<1>4. IsFiniteSet(HeldOf(f))
  BY <1>2, <1>3, FS_Subset
<1>5. QED
  BY <1>4, FS_CardinalityType

\* An entry has as many elements as it counts bytes.
LEMMA HeldBySize ==
    ASSUME NEW f \in [Calls -> Nat], NEW c \in Calls
    PROVE  /\ IsFiniteSet(HeldBy(f, c))
           /\ Cardinality(HeldBy(f, c)) = f[c]
<1>1. f[c] \in Nat
  OBVIOUS
<1>2. IsFiniteSet(1..f[c]) /\ Cardinality(1..f[c]) = f[c]
  BY <1>1, FS_Interval
<1>3. IsFiniteSet({c}) /\ Cardinality({c}) = 1
  BY FS_Singleton
<1>4. /\ IsFiniteSet({c} \X (1..f[c]))
      /\ Cardinality({c} \X (1..f[c])) = Cardinality({c}) * Cardinality(1..f[c])
  BY <1>2, <1>3, FS_Product
<1>5. QED
  BY <1>1, <1>2, <1>3, <1>4 DEF HeldBy

\* Releasing one call's bytes removes exactly that many elements.
LEMMA HeldRelease ==
    ASSUME NEW f \in [Calls -> Nat], NEW c \in Calls, f[c] <= BodyLimit
    PROVE  Cardinality(HeldOf([f EXCEPT ![c] = 0]))
             = Cardinality(HeldOf(f)) - f[c]
<1> DEFINE g == [f EXCEPT ![c] = 0]
<1>1. g \in [Calls -> Nat]
  OBVIOUS
<1>2. HeldOf(f) = HeldOf(g) \cup HeldBy(f, c)
  BY BoundsNat DEF HeldOf, HeldBy
<1>3. HeldOf(g) \cap HeldBy(f, c) = {}
  BY DEF HeldOf, HeldBy
<1>4. Cardinality(HeldOf(f)) =
        Cardinality(HeldOf(g)) + Cardinality(HeldBy(f, c)) - Cardinality({})
  BY <1>1, <1>2, <1>3, HeldFinite, HeldBySize, FS_Union
<1>5. Cardinality(HeldBy(f, c)) = f[c] /\ Cardinality({}) = 0
  BY HeldBySize, FS_EmptySet
<1>6. Cardinality(HeldOf(f)) \in Nat /\ Cardinality(HeldOf(g)) \in Nat
  BY <1>1, HeldFinite
<1>7. f[c] \in Nat
  OBVIOUS
<1> HIDE DEF g
<1>8. Cardinality(HeldOf(g)) = Cardinality(HeldOf(f)) - f[c]
  BY <1>4, <1>5, <1>6, <1>7
<1>9. QED
  BY <1>8 DEF g

\* Appending n bytes to one call adds exactly n elements.
LEMMA HeldAppend ==
    ASSUME NEW f \in [Calls -> Nat], NEW c \in Calls, NEW n \in Nat,
           f[c] + n <= BodyLimit
    PROVE  Cardinality(HeldOf([f EXCEPT ![c] = @ + n]))
             = Cardinality(HeldOf(f)) + n
<1> DEFINE g == [f EXCEPT ![c] = @ + n]
           z == [f EXCEPT ![c] = 0]
<1>1. g \in [Calls -> Nat] /\ g[c] = f[c] + n /\ f[c] \in Nat
  OBVIOUS
<1>2. [g EXCEPT ![c] = 0] = z
  OBVIOUS
<1>3. Cardinality(HeldOf(z)) = Cardinality(HeldOf(g)) - g[c]
  BY <1>1, <1>2, HeldRelease
<1>4. f[c] <= BodyLimit
  BY <1>1, BoundsNat
<1>5. Cardinality(HeldOf(z)) = Cardinality(HeldOf(f)) - f[c]
  BY <1>4, HeldRelease
<1>6. Cardinality(HeldOf(f)) \in Nat /\ Cardinality(HeldOf(g)) \in Nat
  BY <1>1, HeldFinite
<1> HIDE DEF g, z
<1>7. Cardinality(HeldOf(g)) = Cardinality(HeldOf(f)) + n
  BY <1>1, <1>3, <1>5, <1>6
<1>8. QED
  BY <1>7 DEF g

-----------------------------------------------------------------------------
(* The inductive invariant. *)
AssemblyInv ==
    /\ AssemblyTypeOK
    /\ WithinBounds
    /\ OnlyWaitersHold
    /\ AccountingExact

\* The empty table.
LEMMA AssemblyInitInv == AssemblyInit => AssemblyInv
<1> SUFFICES ASSUME AssemblyInit
             PROVE  AssemblyInv
  OBVIOUS
<1> USE DEF AssemblyInit
<1>1. AssemblyTypeOK
  BY DEF AssemblyTypeOK, Failures, Replies, NoReply
<1>2. WithinBounds /\ OnlyWaitersHold
  BY BoundsNat DEF WithinBounds, OnlyWaitersHold
<1>3. Held = {}
  BY BoundsNat DEF Held, HeldOf
<1>4. AccountingExact
  BY <1>3, FS_EmptySet DEF AccountingExact
<1>5. QED
  BY <1>1, <1>2, <1>4 DEF AssemblyInv

\* Releasing an entry's bytes keeps the counter exact and within the budget.
LEMMA ReleaseKeepsAccounting ==
    ASSUME AssemblyInv, NEW c \in Calls,
           body' = [body EXCEPT ![c] = 0], assembled' = assembled - body[c]
    PROVE  /\ body' \in [Calls -> Nat]
           /\ assembled' \in Int
           /\ WithinBounds'
           /\ AccountingExact'
<1> USE DEF AssemblyInv, AssemblyTypeOK, WithinBounds
<1>1. body \in [Calls -> Nat] /\ body' \in [Calls -> Nat] /\ body[c] \in Nat
  OBVIOUS
<1>2. AccountingExact'
  BY <1>1, HeldRelease DEF AccountingExact, Held
<1>3. WithinBounds' /\ assembled' \in Int
  BY <1>1, BoundsNat
<1>4. QED
  BY <1>1, <1>2, <1>3

\* Filing a call.
LEMMA RegisterInv ==
    ASSUME AssemblyInv, NEW c \in Calls, Register(c)
    PROVE  AssemblyInv'
BY DEF AssemblyInv, AssemblyTypeOK, WithinBounds, OnlyWaitersHold,
       AccountingExact, Held, HeldOf, Register

\* A part, taken or refused.
LEMMA AddPartInv ==
    ASSUME AssemblyInv, NEW c \in Calls, NEW n \in Nat, AddPart(c, n)
    PROVE  AssemblyInv'
<1> USE DEF AssemblyInv, AssemblyTypeOK
<1>0. UNCHANGED <<issued, pending, replies>>
  BY DEF AddPart
<1>1. CASE UNCHANGED <<body, failure, assembled>>
  BY <1>0, <1>1 DEF WithinBounds, OnlyWaitersHold, AccountingExact, Held, HeldOf
<1>2. ASSUME NEW cause \in {"tooLarge", "budget"}, FailCall(c, cause)
      PROVE  AssemblyInv'
  <2>1. /\ body' = [body EXCEPT ![c] = 0]
        /\ assembled' = assembled - body[c]
        /\ failure' = [failure EXCEPT ![c] = cause]
    BY <1>2 DEF FailCall
  <2>2. /\ body' \in [Calls -> Nat] /\ assembled' \in Int
        /\ WithinBounds' /\ AccountingExact'
    BY <2>1, ReleaseKeepsAccounting
  <2>3. AssemblyTypeOK'
    BY <1>0, <2>1, <2>2 DEF Failures
  <2>4. OnlyWaitersHold'
    BY <1>0, <2>1 DEF OnlyWaitersHold
  <2>5. QED
    BY <2>2, <2>3, <2>4
<1>3. CASE /\ Collecting(c)
           /\ body[c] + n <= BodyLimit
           /\ assembled + n <= Budget
           /\ body' = [body EXCEPT ![c] = @ + n]
           /\ assembled' = assembled + n
           /\ UNCHANGED failure
  <2>1. body' \in [Calls -> Nat] /\ assembled' \in Int
    BY <1>3
  <2>2. AssemblyTypeOK'
    BY <1>0, <1>3, <2>1
  <2>3. WithinBounds'
    BY <1>3 DEF WithinBounds
  <2>4. OnlyWaitersHold'
    BY <1>0, <1>3 DEF OnlyWaitersHold, Collecting
  <2>5. AccountingExact'
    BY <1>3, HeldAppend DEF AccountingExact, Held
  <2>6. QED
    BY <2>2, <2>3, <2>4, <2>5
<1>4. QED
  BY <1>1, <1>2, <1>3 DEF AddPart

\* The final frame of a call.
LEMMA CompleteInv ==
    ASSUME AssemblyInv, NEW c \in Calls, NEW n \in Nat, NEW err \in BOOLEAN,
           Complete(c, n, err)
    PROVE  AssemblyInv'
<1> USE DEF AssemblyInv, AssemblyTypeOK
<1>0. UNCHANGED <<issued, pending>>
  BY DEF Complete
<1>1. CASE c \notin pending
  <2>1. UNCHANGED <<body, failure, assembled, replies>>
    BY <1>1 DEF Complete
  <2>2. QED
    BY <1>0, <2>1 DEF WithinBounds, OnlyWaitersHold, AccountingExact, Held, HeldOf
<1>2. CASE c \in pending
  <2>1. /\ assembled' = assembled - body[c]
        /\ body' = [body EXCEPT ![c] = 0]
        /\ failure' = [failure EXCEPT ![c] = "none"]
        /\ replies' = [replies EXCEPT
                         ![c] = IF @ = NoReply THEN Answer(c, n, err) ELSE @]
    BY <1>2 DEF Complete
  <2>2. /\ body' \in [Calls -> Nat] /\ assembled' \in Int
        /\ WithinBounds' /\ AccountingExact'
    BY <2>1, ReleaseKeepsAccounting
  <2>3. Answer(c, n, err) \in Replies
    BY DEF Answer, Replies, ErrorReply, BodyReply, Failures
  <2>4. AssemblyTypeOK'
    BY <1>0, <2>1, <2>2, <2>3 DEF Failures
  <2>5. OnlyWaitersHold'
    BY <1>0, <2>1 DEF OnlyWaitersHold
  <2>6. QED
    BY <2>2, <2>4, <2>5
<1>3. QED
  BY <1>1, <1>2

\* A caller that leaves.
LEMMA ForgetInv ==
    ASSUME AssemblyInv, NEW c \in Calls, Forget(c)
    PROVE  AssemblyInv'
<1> USE DEF AssemblyInv, AssemblyTypeOK
<1>1. /\ pending' = pending \ {c}
      /\ assembled' = assembled - body[c]
      /\ body' = [body EXCEPT ![c] = 0]
      /\ failure' = [failure EXCEPT ![c] = "none"]
      /\ replies' = [replies EXCEPT ![c] = NoReply]
      /\ UNCHANGED issued
  BY DEF Forget
<1>2. /\ body' \in [Calls -> Nat] /\ assembled' \in Int
      /\ WithinBounds' /\ AccountingExact'
  BY <1>1, ReleaseKeepsAccounting
<1>3. AssemblyTypeOK'
  BY <1>1, <1>2 DEF Failures, Replies, NoReply
<1>4. OnlyWaitersHold'
  BY <1>1 DEF OnlyWaitersHold
<1>5. QED
  BY <1>2, <1>3, <1>4

\* Every step of the table.
LEMMA AssemblyStepInv ==
    ASSUME AssemblyInv, [AssemblyNext]_assemblyVars
    PROVE  AssemblyInv'
<1>1. CASE UNCHANGED assemblyVars
  BY <1>1 DEF AssemblyInv, AssemblyTypeOK, WithinBounds, OnlyWaitersHold,
              AccountingExact, Held, HeldOf, assemblyVars
<1>2. CASE AssemblyNext
  <2>1. 0..MaxChunk \subseteq Nat
    BY BoundsNat
  <2>2. QED
    BY <1>2, <2>1, RegisterInv, AddPartInv, CompleteInv, ForgetInv
       DEF AssemblyNext
<1>3. QED
  BY <1>1, <1>2

\* Whatever frames an agent sends, the byte counter of its tunnel is exact,
\* stays within assemblyBudget, and is zero for every call nobody waits on.
THEOREM AssemblyAccounting == AssemblySpec => []AssemblyInv
BY AssemblyInitInv, AssemblyStepInv, PTL DEF AssemblySpec

\* The type invariant of the correlation table, in every reachable state.
THEOREM AssemblyTypeCorrect == AssemblySpec => []AssemblyTypeOK
<1>1. AssemblyInv => AssemblyTypeOK
  BY DEF AssemblyInv
<1>2. QED
  BY <1>1, AssemblyAccounting, PTL

\* t.assembled equals the bytes held, so forgetting every call leaves zero, and
\* only calls somebody waits on hold any.
THEOREM AssemblyExact == AssemblySpec => []TableExact
<1>1. AssemblyInv => TableExact
  BY DEF AssemblyInv, TableExact
<1>2. QED
  BY <1>1, AssemblyAccounting, PTL

\* The memory one agent can make the server hold is bounded by assemblyBudget.
THEOREM AssemblyBounded == AssemblySpec => []WithinBounds
<1>1. AssemblyInv => WithinBounds
  BY DEF AssemblyInv
<1>2. QED
  BY <1>1, AssemblyAccounting, PTL
=============================================================================
