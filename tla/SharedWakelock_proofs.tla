------------------------ MODULE SharedWakelock_proofs ------------------------
(***************************************************************************)
(* Proofs about SharedWakelock, for every set of posters, every set of     *)
(* batch sizes and every bound.                                            *)
(*                                                                         *)
(* The inductive invariant is the conjunction of the type invariant, the   *)
(* counting argument (CountCoversClaims) and HeldWhileReferenced.  The     *)
(* promise WakeEventsProtected follows: a wake-up event on its way has a   *)
(* reference, and a reference has the wake lock.                           *)
(*                                                                         *)
(* The last part proves that TimedWakelock, which decides by readings of   *)
(* the clock, implements SharedWakelock for every timeout.                 *)
(***************************************************************************)
EXTENDS TimedWakelock, FiniteSetTheorems, TLAPS

LockedIn(f) == {p \in Posters : f[p] = "locked"}

IInv == TypeOK /\ CountCoversClaims /\ HeldWhileReferenced
-----------------------------------------------------------------------------
(* The number of locked objects is a natural number. *)
LEMMA LockedIsFinite ==
  ASSUME NEW f
  PROVE  IsFiniteSet(LockedIn(f)) /\ Cardinality(LockedIn(f)) \in Nat
<1>1. LockedIn(f) \subseteq Posters
  BY DEF LockedIn
<1>2. IsFiniteSet(LockedIn(f))
  BY <1>1, PostersFinite, FS_Subset
<1>3. QED
  BY <1>2, FS_CardinalityType

(* Creating a locked object adds one to their number. *)
LEMMA LockedGrows ==
  ASSUME NEW f \in [Posters -> ScopeStates], NEW p \in Posters, f[p] # "locked"
  PROVE  Cardinality(LockedIn([f EXCEPT ![p] = "locked"])) = Cardinality(LockedIn(f)) + 1
<1>1. LockedIn([f EXCEPT ![p] = "locked"]) = LockedIn(f) \cup {p}
  BY DEF LockedIn
<1>2. p \notin LockedIn(f)
  BY DEF LockedIn
<1>3. QED
  BY <1>1, <1>2, LockedIsFinite, FS_AddElement

(* Destroying a locked object takes one from their number. *)
LEMMA LockedShrinks ==
  ASSUME NEW f \in [Posters -> ScopeStates], NEW p \in Posters, f[p] = "locked"
  PROVE  Cardinality(LockedIn([f EXCEPT ![p] = "none"])) = Cardinality(LockedIn(f)) - 1
<1>1. LockedIn([f EXCEPT ![p] = "none"]) = LockedIn(f) \ {p}
  BY DEF LockedIn
<1>2. p \in LockedIn(f)
  BY DEF LockedIn
<1>3. QED
  BY <1>1, <1>2, LockedIsFinite, FS_RemoveElement

(* Other changes of one object leave their number alone. *)
LEMMA LockedUnchanged ==
  ASSUME NEW f \in [Posters -> ScopeStates], NEW p \in Posters,
         NEW s \in ScopeStates, f[p] # "locked", s # "locked"
  PROVE  LockedIn([f EXCEPT ![p] = s]) = LockedIn(f)
BY DEF LockedIn

(* A timeout reset leaves no object locked. *)
LEMMA ResetUnlocks ==
  ASSUME NEW f
  PROVE  Cardinality(LockedIn([p \in Posters |->
                        IF f[p] = "locked" THEN "stale" ELSE f[p]])) = 0
<1>1. LockedIn([p \in Posters |-> IF f[p] = "locked" THEN "stale" ELSE f[p]]) = {}
  BY DEF LockedIn
<1>2. QED
  BY <1>1, FS_EmptySet
-----------------------------------------------------------------------------
(* Counting references up and down keeps the types: in particular the       *)
(* unsigned mWakelockRefCount never becomes negative.                       *)
LEMMA IncrementType ==
  ASSUME TypeOK, NEW delta \in Nat, Increment(delta)
  PROVE  refCount' \in Nat /\ held' \in BOOLEAN /\ elapsed' \in BOOLEAN
<1>1. refCount' \in Nat
  BY DEF Increment, TypeOK, WakelockTypeOK
<1>2. held' \in BOOLEAN /\ elapsed' \in BOOLEAN
  BY Zenon DEF Increment, TypeOK, WakelockTypeOK
<1>3. QED
  BY <1>1, <1>2

(* Giving references back keeps the count a natural number.                 *)
LEMMA DecrementType ==
  ASSUME TypeOK, NEW delta \in Nat, NEW stale \in BOOLEAN, Decrement(delta, stale)
  PROVE  refCount' \in Nat /\ held' \in BOOLEAN
<1>1. refCount' \in Nat
  BY DEF Decrement, TypeOK, WakelockTypeOK
<1>2. held' \in BOOLEAN
  BY Zenon DEF Decrement, TypeOK, WakelockTypeOK
<1>3. QED
  BY <1>1, <1>2

(* A history of breaches is a truth value. *)
LEMMA BreachType ==
  ASSUME NEW b, Breach(b), breached \in BOOLEAN
  PROVE  breached' \in BOOLEAN
BY Zenon DEF Breach

(* So does the reset.                                                       *)
LEMMA ResetType ==
  ASSUME TypeOK, ResetShared
  PROVE  WakelockTypeOK'
<1>1. refCount' \in Nat /\ held' \in BOOLEAN
  <2>1. refCount \in Nat /\ FALSE \in BOOLEAN /\ Decrement(refCount, FALSE)
    BY DEF TypeOK, WakelockTypeOK, ResetShared
  <2>2. QED
    BY <2>1, DecrementType
<1>2. scope' \in [Posters -> ScopeStates]
  BY DEF TypeOK, WakelockTypeOK, ResetShared, ScopeStates
<1>3. threadsRun' \in BOOLEAN /\ elapsed' \in BOOLEAN
  BY DEF TypeOK, WakelockTypeOK, ResetShared
<1>4. QED
  BY <1>1, <1>2, <1>3 DEF WakelockTypeOK

(* The proxy starts with the types. *)
LEMMA InitType ==
  ASSUME Init
  PROVE  TypeOK
<1>1. scope \in [Posters -> ScopeStates]
  BY DEF Init, WakelockInit, ScopeStates
<1>2. QED
  BY <1>1 DEF Init, TypeOK, WakelockInit, WakelockTypeOK

(* A step of SharedWakelock keeps the types, by cases on the action. *)
LEMMA TypeStep ==
  ASSUME TypeOK, [Next]_vars
  PROVE  TypeOK'
<1> USE DEF TypeOK, WakelockTypeOK
<1>1. ASSUME NEW p \in Posters, NEW lock \in BOOLEAN, CreateScoped(p, lock)
      PROVE  TypeOK'
  <2>1. scope' \in [Posters -> ScopeStates]
    BY <1>1 DEF CreateScoped, CreateScope, ScopeStates
  <2>2. refCount' \in Nat /\ held' \in BOOLEAN /\ elapsed' \in BOOLEAN
    <3>1. CASE lock
      BY <1>1, <3>1, IncrementType DEF CreateScoped, CreateScope
    <3>2. CASE ~lock
      BY <1>1, <3>2 DEF CreateScoped, CreateScope
    <3>3. QED
      BY <3>1, <3>2
  <2>3. QED
    BY <1>1, <2>1, <2>2 DEF CreateScoped, CreateScope
<1>2. ASSUME NEW p \in Posters, NEW n \in WakeCounts, NEW lost \in 0..n,
             Post(p, n, lost)
      PROVE  TypeOK'
  <2>1. n \in Nat /\ inFlight + n - lost \in Nat
    BY WakeCountsAreNat
  <2>2. refCount' \in Nat /\ held' \in BOOLEAN /\ elapsed' \in BOOLEAN
    <3>1. CASE IsLocked(p)
      BY <1>2, <2>1, <3>1, IncrementType DEF Post, CountBatch
    <3>2. CASE ~IsLocked(p)
      BY <1>2, <3>2 DEF Post
    <3>3. QED
      BY <3>1, <3>2
  <2>3. breached' \in BOOLEAN
    BY <1>2, BreachType DEF Post
  <2>4. QED
    BY <1>2, <2>1, <2>2, <2>3 DEF Post
<1>3. ASSUME NEW p \in Posters, DestroyScoped(p) PROVE TypeOK'
  <2>1. scope' \in [Posters -> ScopeStates]
    BY <1>3 DEF DestroyScoped, DestroyScope, ScopeStates
  <2>2. refCount' \in Nat /\ held' \in BOOLEAN
    <3>1. CASE IsLocked(p)
      BY <1>3, <3>1, DecrementType, (scope[p] = "stale") \in BOOLEAN
      DEF DestroyScoped, DestroyScope
    <3>2. CASE ~IsLocked(p)
      BY <1>3, <3>2 DEF DestroyScoped, DestroyScope
    <3>3. QED
      BY <3>1, <3>2
  <2>3. QED
    BY <1>3, <2>1, <2>2 DEF DestroyScoped, DestroyScope
<1>4. ASSUME NEW k \in 0..inFlight, NEW d \in 0..MaxRefs, Lose(k, d) PROVE TypeOK'
  <2>1. d \in Nat /\ FALSE \in BOOLEAN /\ inFlight - k \in Nat
    BY MaxRefsIsNat
  <2>2. refCount' \in Nat /\ held' \in BOOLEAN
    BY <1>4, <2>1, DecrementType DEF Lose
  <2>3. breached' \in BOOLEAN
    BY <1>4, BreachType DEF Lose
  <2>4. QED
    BY <1>4, <2>1, <2>2, <2>3 DEF Lose
<1>5. ASSUME NEW n \in 1..inFlight, Acknowledge(n) PROVE TypeOK'
  BY <1>5 DEF Acknowledge, wakelockVars
<1>6. ASSUME NEW n \in 1..acks, ProcessAck(n) PROVE TypeOK'
  <2>1. n \in Nat /\ FALSE \in BOOLEAN /\ acks - n \in Nat
    OBVIOUS
  <2>2. refCount' \in Nat /\ held' \in BOOLEAN
    BY <1>6, <2>1, DecrementType DEF ProcessAck
  <2>3. QED
    BY <1>6, <2>1, <2>2 DEF ProcessAck
<1>7. CASE TimeoutReset
  <2>1. breached' \in BOOLEAN
    BY <1>7, BreachType DEF TimeoutReset
  <2>2. QED
    BY <1>7, <2>1, ResetType DEF TimeoutReset
<1>8. CASE StoppedReset
  BY <1>8, ResetType DEF StoppedReset
<1>9. CASE Stop \/ Start
  BY <1>9 DEF Stop, Start
<1>10. CASE ClearSession
  BY <1>10 DEF ClearSession, wakelockVars
<1>11. CASE Tick
  BY <1>11 DEF Tick, TimePasses
<1>12. CASE UNCHANGED vars
  BY <1>12 DEF vars, wakelockVars
<1>13. QED
  BY <1>1, <1>2, <1>3, <1>4, <1>5, <1>6, <1>7, <1>8, <1>9, <1>10, <1>11, <1>12 DEF Next

(* Every variable of SharedWakelock keeps its type, whatever the posters,   *)
(* the framework and initialize() do.                                       *)
THEOREM TypeCorrect == Spec => []TypeOK
<1>1. Init => TypeOK
  BY InitType
<1>2. TypeOK /\ [Next]_vars => TypeOK'
  BY TypeStep
<1>3. QED
  BY <1>1, <1>2, PTL DEF Spec
-----------------------------------------------------------------------------
(* Taking d references away leaves at least the others, and never lets the  *)
(* lock go while one is left.                                               *)
LEMMA DecrementKeepsOthers ==
  ASSUME TypeOK, NEW d \in Nat, NEW stale \in BOOLEAN, Decrement(d, stale)
  PROVE  /\ refCount' >= refCount - d
         /\ ~threadsRun \/ stale => refCount' = refCount
         /\ refCount' <= refCount
         /\ HeldWhileReferenced => HeldWhileReferenced'
BY DEF Decrement, TypeOK, WakelockTypeOK, HeldWhileReferenced

(* A reset gives no reference and keeps the lock with the references. *)
LEMMA ResetKeepsLock ==
  ASSUME TypeOK, HeldWhileReferenced, ResetShared
  PROVE  /\ HeldWhileReferenced'
         /\ ~threadsRun => refCount' = refCount
<1>1. refCount \in Nat /\ FALSE \in BOOLEAN /\ Decrement(refCount, FALSE)
  BY DEF TypeOK, WakelockTypeOK, ResetShared
<1>2. QED
  BY <1>1, DecrementKeepsOthers

(* The lock goes with the last reference only: one step of the inductive    *)
(* invariant, by cases on the action.                                       *)
LEMMA HeldStep ==
  ASSUME TypeOK, HeldWhileReferenced, [Next]_vars
  PROVE  HeldWhileReferenced'
<1> USE DEF TypeOK, WakelockTypeOK
<1>1. ASSUME NEW p \in Posters, NEW lock \in BOOLEAN, CreateScoped(p, lock)
      PROVE  HeldWhileReferenced'
  BY <1>1 DEF CreateScoped, CreateScope, Increment, HeldWhileReferenced
<1>2. ASSUME NEW p \in Posters, NEW n \in WakeCounts, NEW lost \in 0..n,
             Post(p, n, lost)
      PROVE  HeldWhileReferenced'
  BY <1>2, WakeCountsAreNat DEF Post, CountBatch, Increment, HeldWhileReferenced
<1>3. ASSUME NEW p \in Posters, DestroyScoped(p) PROVE HeldWhileReferenced'
  <2>1. CASE IsLocked(p)
    BY <1>3, <2>1, DecrementKeepsOthers, (scope[p] = "stale") \in BOOLEAN
    DEF DestroyScoped, DestroyScope
  <2>2. CASE ~IsLocked(p)
    BY <1>3, <2>2 DEF DestroyScoped, DestroyScope, HeldWhileReferenced
  <2>3. QED
    BY <2>1, <2>2
<1>4. ASSUME NEW k \in 0..inFlight, NEW d \in 0..MaxRefs, Lose(k, d)
      PROVE  HeldWhileReferenced'
  <2>1. d \in Nat /\ FALSE \in BOOLEAN
    BY MaxRefsIsNat
  <2>2. QED
    BY <1>4, <2>1, DecrementKeepsOthers DEF Lose
<1>5. ASSUME NEW n \in 1..inFlight, Acknowledge(n) PROVE HeldWhileReferenced'
  BY <1>5 DEF Acknowledge, wakelockVars, HeldWhileReferenced
<1>6. ASSUME NEW n \in 1..acks, ProcessAck(n) PROVE HeldWhileReferenced'
  <2>1. n \in Nat /\ FALSE \in BOOLEAN
    OBVIOUS
  <2>2. QED
    BY <1>6, <2>1, DecrementKeepsOthers DEF ProcessAck
<1>7. CASE TimeoutReset \/ StoppedReset
  BY <1>7, ResetKeepsLock DEF TimeoutReset, StoppedReset
<1>8. CASE Stop \/ Start \/ ClearSession \/ Tick \/ UNCHANGED vars
  BY <1>8 DEF Stop, Start, ClearSession, Tick, TimePasses, vars, wakelockVars,
              HeldWhileReferenced
<1>9. QED
  BY <1>1, <1>2, <1>3, <1>4, <1>5, <1>6, <1>7, <1>8 DEF Next

(* The references cover the claims: one step of the inductive invariant. *)
LEMMA CountStep ==
  ASSUME TypeOK, CountCoversClaims, HeldWhileReferenced, [Next]_vars
  PROVE  CountCoversClaims'
<1> USE DEF TypeOK, WakelockTypeOK
<1>. DEFINE L == Cardinality(Locked)
<1>a. L \in Nat /\ L' \in Nat /\ Locked = LockedIn(scope) /\ Locked' = LockedIn(scope')
  <2>1. Locked = LockedIn(scope) /\ Locked' = LockedIn(scope')
    BY DEF Locked, LockedIn
  <2>2. QED
    BY <2>1, LockedIsFinite
<1>b. ~breached => refCount >= L + inFlight + acks
  BY DEF CountCoversClaims
<1>c. SUFFICES ASSUME ~breached' PROVE refCount' >= L' + inFlight' + acks'
  BY DEF CountCoversClaims
<1> HIDE DEF L
<1>1. ASSUME NEW p \in Posters, NEW lock \in BOOLEAN, CreateScoped(p, lock)
      PROVE  refCount' >= L' + inFlight' + acks'
  <2>1. CASE lock /\ threadsRun
    <3>1. scope' = [scope EXCEPT ![p] = "locked"] /\ scope[p] = "none"
      BY <1>1, <2>1 DEF CreateScoped, CreateScope
    <3>2. L' = L + 1
      BY <1>a, <3>1, LockedGrows DEF L
    <3>3. QED
      BY <1>1, <1>a, <1>b, <1>c, <2>1, <3>2 DEF CreateScoped, CreateScope, Increment
  <2>2. CASE ~(lock /\ threadsRun)
    <3>1. scope' = [scope EXCEPT ![p] = "unlocked"] /\ scope[p] = "none"
      BY <1>1, <2>2 DEF CreateScoped, CreateScope
    <3>2. L' = L
      BY <1>a, <3>1, LockedUnchanged DEF L, ScopeStates
    <3>3. QED
      BY <1>1, <1>a, <1>b, <1>c, <2>2, <3>2 DEF CreateScoped, CreateScope, Increment
  <2>3. QED
    BY <2>1, <2>2
<1>2. ASSUME NEW p \in Posters, NEW n \in WakeCounts, NEW lost \in 0..n,
             Post(p, n, lost)
      PROVE  refCount' >= L' + inFlight' + acks'
  <2>1. L' = L /\ acks' = acks /\ inFlight' = inFlight + n - lost /\ ~breached
    BY <1>2, <1>a, <1>c DEF L, Post, Breach
  <2>2. CASE IsLocked(p) /\ threadsRun
    BY <1>2, <1>a, <1>b, <2>1, <2>2, WakeCountsAreNat DEF Post, CountBatch, Increment
  <2>3. CASE ~(IsLocked(p) /\ threadsRun)
    <3>1. refCount' = refCount /\ ~(n > lost)
      BY <1>2, <1>c, <2>3 DEF Post, CountBatch, Increment, Breach
    <3>2. QED
      BY <1>a, <1>b, <2>1, <3>1, WakeCountsAreNat
  <2>4. QED
    BY <2>2, <2>3
<1>3. ASSUME NEW p \in Posters, DestroyScoped(p)
      PROVE  refCount' >= L' + inFlight' + acks'
  <2>1. inFlight' = inFlight /\ acks' = acks /\ ~breached
    BY <1>3, <1>c DEF DestroyScoped
  <2>2. scope' = [scope EXCEPT ![p] = "none"]
    BY <1>3 DEF DestroyScoped, DestroyScope
  <2>3. CASE scope[p] = "locked"
    <3>1. L' = L - 1
      BY <1>a, <2>2, <2>3, LockedShrinks DEF L
    <3>2. 1 \in Nat /\ FALSE \in BOOLEAN /\ Decrement(1, FALSE)
      BY <1>3, <2>3 DEF DestroyScoped, DestroyScope, IsLocked
    <3>3. refCount' >= refCount - 1 /\ refCount' \in Nat
      BY <3>2, DecrementKeepsOthers, DecrementType
    <3>4. QED
      BY <1>a, <1>b, <2>1, <3>1, <3>3
  <2>4. CASE scope[p] # "locked"
    <3>1. L' = L
      BY <1>a, <2>2, <2>4, LockedUnchanged DEF L, ScopeStates
    <3>2. refCount' = refCount
      BY <1>3, <2>4 DEF DestroyScoped, DestroyScope, Decrement, IsLocked, ScopeStates
    <3>3. QED
      BY <1>b, <2>1, <3>1, <3>2
  <2>5. QED
    BY <2>3, <2>4
<1>4. ASSUME NEW k \in 0..inFlight, NEW d \in 0..MaxRefs, Lose(k, d)
      PROVE  refCount' >= L' + inFlight' + acks'
  <2>1. L' = L /\ acks' = acks /\ inFlight' = inFlight - k /\ ~breached
    BY <1>4, <1>a, <1>c DEF L, Lose, Breach
  <2>2. d \in Nat /\ FALSE \in BOOLEAN /\ k \in Nat
    BY MaxRefsIsNat
  <2>3. refCount' >= refCount - d /\ (~threadsRun => refCount' = refCount)
        /\ refCount' \in Nat
    BY <1>4, <2>2, DecrementKeepsOthers, DecrementType DEF Lose
  <2>4. ~threadsRun \/ d <= k
    BY <1>4, <1>c, <2>2 DEF Lose, Breach
  <2>5. QED
    BY <1>a, <1>b, <2>1, <2>2, <2>3, <2>4
<1>5. ASSUME NEW n \in 1..inFlight, Acknowledge(n)
      PROVE  refCount' >= L' + inFlight' + acks'
  BY <1>5, <1>a, <1>b, <1>c DEF L, Acknowledge, wakelockVars
<1>6. ASSUME NEW n \in 1..acks, ProcessAck(n)
      PROVE  refCount' >= L' + inFlight' + acks'
  <2>1. L' = L /\ acks' = acks - n /\ inFlight' = inFlight /\ ~breached
    BY <1>6, <1>a, <1>c DEF L, ProcessAck
  <2>2. n \in Nat /\ FALSE \in BOOLEAN
    OBVIOUS
  <2>3. refCount' >= refCount - n /\ refCount' \in Nat
    BY <1>6, <2>2, DecrementKeepsOthers, DecrementType DEF ProcessAck
  <2>4. QED
    BY <1>a, <1>b, <2>1, <2>2, <2>3
<1>7. CASE TimeoutReset \/ StoppedReset
  <2>1. L' = 0 /\ inFlight' = inFlight /\ acks' = acks /\ ResetShared
    BY <1>7, <1>a, ResetUnlocks DEF L, TimeoutReset, StoppedReset, ResetShared
  <2>2. CASE TimeoutReset
    <3>1. inFlight' = 0 /\ acks' = 0
      <4>1. ~(inFlight + acks > 0)
        BY <2>2, <1>c, Zenon DEF TimeoutReset, Breach
      <4>2. QED
        BY <2>1, <4>1
    <3>2. refCount' \in Nat
      BY <2>1, ResetType
    <3>3. QED
      BY <2>1, <3>1, <3>2
  <2>3. CASE StoppedReset
    <3>1. refCount' = refCount /\ ~breached
      BY <1>c, <2>1, <2>3, ResetKeepsLock DEF StoppedReset
    <3>2. QED
      BY <1>a, <1>b, <2>1, <3>1
  <2>4. QED
    BY <1>7, <2>2, <2>3
<1>8. CASE ClearSession
  <2>1. L' = 0
    BY <1>8, <1>a, FS_EmptySet DEF L, ClearSession, wakelockVars
  <2>2. QED
    BY <1>8, <2>1 DEF ClearSession, wakelockVars
<1>9. CASE Stop \/ Start \/ Tick \/ UNCHANGED vars
  <2>1. L' = L /\ ~breached
    BY <1>9, <1>a, <1>c DEF L, Stop, Start, Tick, TimePasses, vars, wakelockVars
  <2>2. QED
    BY <1>9, <1>b, <2>1 DEF Stop, Start, Tick, TimePasses, vars, wakelockVars
<1>10. QED
  BY <1>1, <1>2, <1>3, <1>4, <1>5, <1>6, <1>7, <1>8, <1>9 DEF Next

(* The inductive invariant holds in every reachable state. *)
THEOREM Inductive == Spec => []IInv
<1>1. Init => CountCoversClaims /\ HeldWhileReferenced
  <2> SUFFICES ASSUME Init PROVE CountCoversClaims /\ HeldWhileReferenced
    OBVIOUS
  <2>1. Locked = {}
    BY DEF Init, WakelockInit, Locked
  <2>2. Cardinality(Locked) = 0
    BY <2>1, FS_EmptySet
  <2>3. QED
    BY <2>2 DEF Init, WakelockInit, CountCoversClaims, HeldWhileReferenced
<1>2. TypeOK /\ CountCoversClaims /\ HeldWhileReferenced /\ [Next]_vars
      => CountCoversClaims' /\ HeldWhileReferenced'
  BY CountStep, HeldStep
<1>3. QED
  BY <1>1, <1>2, TypeCorrect, PTL DEF Spec, IInv

(* Every claim on the wake lock has a reference, whatever the order of      *)
(* posts, losses, acknowledgements and calls of initialize().               *)
THEOREM ClaimsCounted == Spec => []CountCoversClaims
<1>1. IInv => CountCoversClaims
  BY DEF IInv
<1>2. QED
  BY <1>1, Inductive, PTL

(* The kernel wake lock is held while a reference is counted. *)
THEOREM ReferencesHold == Spec => []HeldWhileReferenced
<1>1. IInv => HeldWhileReferenced
  BY DEF IInv
<1>2. QED
  BY <1>1, Inductive, PTL

(* The promise of the wake lock: the device does not sleep while a wake-up  *)
(* event is on its way or being handled, unless references were taken away  *)
(* unearned since the last initialize().                                    *)
THEOREM Protected == Spec => []WakeEventsProtected
<1>1. IInv => WakeEventsProtected
  <2> SUFFICES ASSUME IInv, ~breached, inFlight + acks > 0 PROVE held
    BY DEF WakeEventsProtected
  <2>1. Cardinality(Locked) \in Nat
    <3>1. Locked = LockedIn(scope)
      BY DEF Locked, LockedIn
    <3>2. QED
      BY <3>1, LockedIsFinite
  <2>2. refCount > 0
    BY <2>1 DEF IInv, CountCoversClaims, TypeOK, WakelockTypeOK
  <2>3. QED
    BY <2>2 DEF IInv, HeldWhileReferenced
<1>2. QED
  BY <1>1, Inductive, PTL

(* Nobody forgets to release the lock: it is not held without a reference,  *)
(* provided that no batch without wake-up events is posted under a locked   *)
(* object, the assumption HalProxyCallback.cpp:52-55 asserts.               *)
THEOREM NeverForgotten == Spec => []HeldOnlyIfReferenced
<1>1. Init => HeldOnlyIfReferenced
  BY DEF Init, WakelockInit, HeldOnlyIfReferenced
<1>2. TypeOK /\ HeldOnlyIfReferenced /\ [Next]_vars => HeldOnlyIfReferenced'
  <2> SUFFICES ASSUME TypeOK, [Next]_vars, 0 \notin WakeCounts, held => refCount > 0
               PROVE  held' => refCount' > 0
    BY DEF HeldOnlyIfReferenced
  <2> USE DEF TypeOK, WakelockTypeOK
  <2>a. ASSUME NEW d \in Nat, NEW stale \in BOOLEAN, Decrement(d, stale)
        PROVE  held' => refCount' > 0
    <3> SUFFICES ASSUME held' PROVE refCount' > 0
      OBVIOUS
    <3>1. CASE threadsRun /\ refCount > 0 /\ ~stale
      <4>1. d < refCount
        BY <2>a, <3>1, Zenon DEF Decrement
      <4>2. QED
        BY <2>a, <3>1, <4>1 DEF Decrement
    <3>2. CASE ~(threadsRun /\ refCount > 0 /\ ~stale)
      <4>1. refCount' = refCount /\ held' = held
        BY <2>a, <3>2 DEF Decrement
      <4>2. QED
        BY <4>1
    <3>3. QED
      BY <3>1, <3>2
  <2>c. ASSUME NEW n \in Nat, n > 0, Increment(n) PROVE held' => refCount' > 0
    <3>1. CASE threadsRun
      BY <2>c, <3>1 DEF Increment
    <3>2. CASE ~threadsRun
      <4>1. refCount' = refCount /\ held' = held
        BY <2>c, <3>2 DEF Increment
      <4>2. QED
        BY <4>1
    <3>3. QED
      BY <3>1, <3>2
  <2>b. ASSUME ResetShared PROVE held' => refCount' > 0
    <3>1. refCount \in Nat /\ FALSE \in BOOLEAN /\ Decrement(refCount, FALSE)
      BY <2>b DEF ResetShared
    <3>2. QED
      BY <2>a, <3>1
  <2>1. ASSUME NEW p \in Posters, NEW lock \in BOOLEAN, CreateScoped(p, lock)
        PROVE  held' => refCount' > 0
    <3>1. CASE lock
      BY <2>1, <2>c, <3>1 DEF CreateScoped, CreateScope
    <3>2. CASE ~lock
      BY <2>1, <3>2 DEF CreateScoped, CreateScope
    <3>3. QED
      BY <3>1, <3>2
  <2>2. ASSUME NEW p \in Posters, NEW n \in WakeCounts, NEW lost \in 0..n,
               Post(p, n, lost)
        PROVE  held' => refCount' > 0
    <3>1. n \in Nat /\ n > 0
      BY WakeCountsAreNat
    <3>2. CASE IsLocked(p)
      BY <2>2, <2>c, <3>1, <3>2 DEF Post, CountBatch
    <3>3. CASE ~IsLocked(p)
      BY <2>2, <3>3 DEF Post
    <3>4. QED
      BY <3>2, <3>3
  <2>3. ASSUME NEW p \in Posters, DestroyScoped(p) PROVE held' => refCount' > 0
    <3>1. CASE IsLocked(p)
      BY <2>3, <2>a, <3>1, (scope[p] = "stale") \in BOOLEAN
      DEF DestroyScoped, DestroyScope
    <3>2. CASE ~IsLocked(p)
      BY <2>3, <3>2 DEF DestroyScoped, DestroyScope
    <3>3. QED
      BY <3>1, <3>2
  <2>4. ASSUME NEW k \in 0..inFlight, NEW d \in 0..MaxRefs, Lose(k, d)
        PROVE  held' => refCount' > 0
    <3>1. d \in Nat /\ FALSE \in BOOLEAN
      BY MaxRefsIsNat
    <3>2. QED
      BY <2>4, <2>a, <3>1 DEF Lose
  <2>5. ASSUME NEW n \in 1..acks, ProcessAck(n) PROVE held' => refCount' > 0
    <3>1. n \in Nat /\ FALSE \in BOOLEAN
      OBVIOUS
    <3>2. QED
      BY <2>5, <2>a, <3>1 DEF ProcessAck
  <2>6. CASE TimeoutReset \/ StoppedReset
    BY <2>6, <2>b DEF TimeoutReset, StoppedReset
  <2>7. ASSUME NEW n \in 1..inFlight, Acknowledge(n) PROVE held' => refCount' > 0
    BY <2>7 DEF Acknowledge, wakelockVars
  <2>8. CASE Stop \/ Start \/ ClearSession \/ Tick \/ UNCHANGED vars
    BY <2>8 DEF Stop, Start, ClearSession, Tick, TimePasses, vars, wakelockVars
  <2>9. QED
    BY <2>1, <2>2, <2>3, <2>4, <2>5, <2>6, <2>7, <2>8 DEF Next
<1>3. QED
  BY <1>1, <1>2, TypeCorrect, PTL DEF Spec
-----------------------------------------------------------------------------
(* The times and what SharedWakelock keeps of them.  The reset is later     *)
(* than the creation of the objects it outdates because more than Timeout   *)
(* passed since the last of them was created.                               *)
TimesType ==
  /\ now \in Nat /\ startTime \in Nat /\ resetTime \in Nat
  /\ startTime <= now /\ resetTime <= now
  /\ createdAt \in [Posters -> Nat]
  /\ deadline \in Nat \cup {NotReading, Forever}
  /\ since \in Nat /\ since <= now

ElapsedAgrees == refCount > 0 => (elapsed <=> DidTimeout)

ScopesAgree ==
  \A p \in Posters :
    /\ scope[p] = "locked" => resetTime <= createdAt[p] /\ createdAt[p] <= startTime
    /\ scope[p] = "stale" => createdAt[p] < resetTime

TimesInv == TimesType /\ ElapsedAgrees /\ ScopesAgree

(* Where the invariant holds, deciding by the times is deciding by elapsed  *)
(* and scope: a timed step is a step of SharedWakelock or a stutter.        *)
LEMMA TimedStepIsStep ==
  ASSUME TypeOK, TimesInv, [TimedNext]_timedVars
  PROVE  [Next]_vars
<1>1. ASSUME NEW p \in Posters, NEW lock \in BOOLEAN, TimedCreate(p, lock) PROVE Next
  BY <1>1 DEF TimedCreate, Next
<1>2. ASSUME NEW p \in Posters, NEW n \in WakeCounts, NEW lost \in 0..n,
             TimedPost(p, n, lost)
      PROVE  Next
  BY <1>2 DEF TimedPost, Next
<1>3. ASSUME NEW p \in Posters, TimedDestroy(p) PROVE Next
  <2>1. IsLocked(p) => (TakenByReset(p) <=> scope[p] = "stale")
    BY DEF TimesInv, TimesType, ScopesAgree, TakenByReset, IsLocked
  <2>2. IsLocked(p) => (Decrement(1, TakenByReset(p)) <=> Decrement(1, scope[p] = "stale"))
    BY <2>1 DEF Decrement
  <2>3. DestroyScoped(p)
    BY <1>3, <2>2 DEF TimedDestroy, DestroyScoped, DestroyScope
  <2>4. QED
    BY <2>3 DEF Next
<1>4. ASSUME NEW k \in 0..inFlight, NEW d \in 0..MaxRefs, TimedLose(k, d) PROVE Next
  BY <1>4 DEF TimedLose, Next
<1>5. ASSUME NEW n \in 1..inFlight, TimedAcknowledge(n) PROVE Next
  BY <1>5 DEF TimedAcknowledge, Next
<1>6. ASSUME NEW n \in 1..acks, ReadAck(n) PROVE Next
  BY <1>6 DEF ReadAck, Next
<1>7. CASE Expire
  <2>1. elapsed
    BY <1>7 DEF Expire, TimesInv, ElapsedAgrees
  <2>2. TimeoutReset
    BY <1>7, <2>1 DEF Expire, TimeoutReset
  <2>3. QED
    BY <2>2 DEF Next
<1>8. CASE TimedStop \/ TimedStoppedReset \/ TimedClearSession \/ TimedStart
  BY <1>8 DEF TimedStop, TimedStoppedReset, TimedClearSession, TimedStart, Next
<1>9. CASE Advance
  <2>1. CASE elapsed' = elapsed
    BY <1>9, <2>1 DEF Advance, vars, wakelockVars
  <2>2. CASE elapsed' # elapsed
    <3>1. ~elapsed /\ refCount > 0 /\ elapsed' = TRUE
      BY <1>9, <2>2, Zenon DEF Advance, TypeOK, WakelockTypeOK
    <3>2. Tick
      BY <1>9, <3>1 DEF Advance, Tick, TimePasses
    <3>3. QED
      BY <3>2 DEF Next
  <2>3. QED
    BY <2>1, <2>2
<1>10. CASE BeginRead \/ ReadEnds \/ UNCHANGED timedVars
  BY <1>10 DEF BeginRead, ReadEnds, timedVars
<1>11. QED
  BY <1>1, <1>2, <1>3, <1>4, <1>5, <1>6, <1>7, <1>8, <1>9, <1>10 DEF TimedNext, TimedStep

(* Counting references at now, or not at all, keeps the agreement.          *)
LEMMA IncrementAgrees ==
  ASSUME TypeOK, TimesInv, NEW counted \in BOOLEAN, NEW delta \in Nat,
         NoteStart(counted), now' = now, deadline' = deadline,
         IF counted THEN Increment(delta) ELSE UNCHANGED <<refCount, held, elapsed>>
  PROVE  /\ startTime' \in Nat /\ startTime <= startTime' /\ startTime' <= now'
         /\ ElapsedAgrees'
<1> USE DEF TypeOK, WakelockTypeOK, TimesInv, TimesType
<1>1. CASE counted /\ threadsRun
  <2>1. startTime' = now /\ elapsed' = FALSE
    BY <1>1 DEF NoteStart, Increment
  <2>2. ~DidTimeout'
    BY <2>1, TimesAreNat DEF DidTimeout
  <2>3. QED
    BY <2>1, <2>2, TimesAreNat DEF ElapsedAgrees, NotReading, Forever
<1>2. CASE ~(counted /\ threadsRun)
  <2>1. startTime' = startTime /\ elapsed' = elapsed /\ refCount' = refCount
    BY <1>2 DEF NoteStart, Increment
  <2>2. DidTimeout' <=> DidTimeout
    BY <2>1 DEF DidTimeout
  <2>3. QED
    BY <2>1, <2>2 DEF ElapsedAgrees
<1>3. QED
  BY <1>1, <1>2

(* Giving references back keeps the agreement.                              *)
LEMMA DecrementAgrees ==
  ASSUME TypeOK, TimesInv, NEW delta \in Nat, NEW stale, Decrement(delta, stale),
         now' = now, startTime' = startTime, elapsed' = elapsed
  PROVE  ElapsedAgrees'
<1>1. refCount' > 0 => refCount > 0
  BY DEF Decrement, TypeOK, WakelockTypeOK
<1>2. DidTimeout' <=> DidTimeout
  BY DEF DidTimeout
<1>3. QED
  BY <1>1, <1>2 DEF TimesInv, ElapsedAgrees

(* A reset outdates every object counted before. *)
LEMMA ResetAgrees ==
  ASSUME TypeOK, TimesInv, ResetShared, resetTime' = now,
         now' = now, startTime' = startTime, createdAt' = createdAt, deadline' = deadline,
         since' = since,
         \A p \in Posters : scope[p] = "locked" => createdAt[p] < now
  PROVE  TimesInv'
<1>1. ElapsedAgrees'
  BY DecrementAgrees DEF ResetShared, TypeOK, WakelockTypeOK
<1>2. ScopesAgree'
  <2> SUFFICES ASSUME NEW p \in Posters
               PROVE  /\ scope'[p] # "locked"
                      /\ scope'[p] = "stale" => createdAt[p] < now
    BY DEF ScopesAgree
  <2>1. scope'[p] = IF scope[p] = "locked" THEN "stale" ELSE scope[p]
    BY DEF ResetShared
  <2>2. CASE scope[p] = "locked"
    BY <2>1, <2>2
  <2>3. CASE scope[p] # "locked"
    BY <2>1, <2>3 DEF TimesInv, TimesType, ScopesAgree
  <2>4. QED
    BY <2>2, <2>3
<1>3. TimesType'
  BY DEF TimesInv, TimesType
<1>4. QED
  BY <1>1, <1>2, <1>3 DEF TimesInv

(* The times keep agreeing: one step of the invariant.                      *)
LEMMA TimesStep ==
  ASSUME TypeOK, TimesInv, [TimedNext]_timedVars
  PROVE  TimesInv'
<1> USE DEF TimesInv, TimesType, TypeOK, WakelockTypeOK
<1>1. ASSUME NEW p \in Posters, NEW lock \in BOOLEAN, TimedCreate(p, lock)
      PROVE  TimesInv'
  <2>1. IF lock THEN Increment(1) ELSE UNCHANGED <<refCount, held, elapsed>>
    BY <1>1 DEF TimedCreate, CreateScoped, CreateScope
  <2>2. /\ startTime' \in Nat /\ startTime <= startTime' /\ startTime' <= now'
        /\ ElapsedAgrees'
    BY <1>1, <2>1, IncrementAgrees DEF TimedCreate
  <2>3. scope' = [scope EXCEPT ![p] = IF lock /\ threadsRun THEN "locked" ELSE "unlocked"]
    BY <1>1 DEF TimedCreate, CreateScoped, CreateScope
  <2>4. createdAt' = IF lock /\ threadsRun THEN [createdAt EXCEPT ![p] = now] ELSE createdAt
    BY <1>1 DEF TimedCreate
  <2>5. lock /\ threadsRun => startTime' = now
    BY <1>1 DEF TimedCreate, NoteStart
  <2>6. UNCHANGED <<now, resetTime, deadline, since>>
    BY <1>1 DEF TimedCreate
  <2>7. ScopesAgree'
    <3> SUFFICES ASSUME NEW q \in Posters
                 PROVE  /\ scope'[q] = "locked" =>
                               resetTime <= createdAt'[q] /\ createdAt'[q] <= startTime'
                        /\ scope'[q] = "stale" => createdAt'[q] < resetTime
      BY <2>6 DEF ScopesAgree
    <3>1. CASE q = p /\ lock /\ threadsRun
      BY <2>2, <2>3, <2>4, <2>5, <3>1
    <3>2. CASE q = p /\ ~(lock /\ threadsRun)
      BY <2>3, <3>2
    <3>3. CASE q # p
      <4>1. scope'[q] = scope[q] /\ createdAt'[q] = createdAt[q]
        BY <2>3, <2>4, <3>3
      <4>2. QED
        BY <2>2, <4>1 DEF ScopesAgree
    <3>4. QED
      BY <3>1, <3>2, <3>3
  <2>8. createdAt' \in [Posters -> Nat]
    BY <2>4
  <2>9. QED
    BY <2>2, <2>6, <2>7, <2>8
<1>2. ASSUME NEW p \in Posters, NEW n \in WakeCounts, NEW lost \in 0..n,
             TimedPost(p, n, lost)
      PROVE  TimesInv'
  <2>1. n \in Nat /\ IsLocked(p) \in BOOLEAN
    BY WakeCountsAreNat DEF IsLocked
  <2>2. IF IsLocked(p) THEN Increment(n) ELSE UNCHANGED <<refCount, held, elapsed>>
    BY <1>2 DEF TimedPost, Post, CountBatch
  <2>3. /\ startTime' \in Nat /\ startTime <= startTime' /\ startTime' <= now'
        /\ ElapsedAgrees'
    BY <1>2, <2>1, <2>2, IncrementAgrees DEF TimedPost
  <2>4. scope' = scope /\ UNCHANGED <<now, resetTime, createdAt, deadline, since>>
    BY <1>2 DEF TimedPost, Post
  <2>5. ScopesAgree'
    BY <2>3, <2>4 DEF ScopesAgree
  <2>6. QED
    BY <2>3, <2>4, <2>5
<1>3. ASSUME NEW p \in Posters, TimedDestroy(p) PROVE TimesInv'
  <2>1. /\ scope' = [scope EXCEPT ![p] = "none"]
        /\ createdAt' = [createdAt EXCEPT ![p] = 0]
        /\ UNCHANGED <<elapsed, now, startTime, resetTime, deadline, since>>
    BY <1>3 DEF TimedDestroy
  <2>2. ElapsedAgrees'
    <3>1. CASE IsLocked(p)
      BY <1>3, <2>1, <3>1, DecrementAgrees DEF TimedDestroy
    <3>2. CASE ~IsLocked(p)
      BY <1>3, <2>1, <3>2 DEF TimedDestroy, ElapsedAgrees, DidTimeout
    <3>3. QED
      BY <3>1, <3>2
  <2>3. ScopesAgree'
    <3> SUFFICES ASSUME NEW q \in Posters
                 PROVE  /\ scope'[q] = "locked" =>
                               resetTime <= createdAt'[q] /\ createdAt'[q] <= startTime
                        /\ scope'[q] = "stale" => createdAt'[q] < resetTime
      BY <2>1 DEF ScopesAgree
    <3>1. CASE q = p
      BY <2>1, <3>1
    <3>2. CASE q # p
      BY <2>1, <3>2 DEF ScopesAgree
    <3>3. QED
      BY <3>1, <3>2
  <2>4. createdAt' \in [Posters -> Nat]
    BY <2>1
  <2>5. QED
    BY <2>1, <2>2, <2>3, <2>4
<1>4. ASSUME NEW k \in 0..inFlight, NEW d \in 0..MaxRefs, TimedLose(k, d)
      PROVE  TimesInv'
  <2>1. UNCHANGED <<elapsed, scope, now, startTime, resetTime, createdAt, deadline, since>>
    BY <1>4 DEF TimedLose, Lose, timeVars
  <2>2. ElapsedAgrees'
    <3>1. d \in Nat
      BY MaxRefsIsNat
    <3>2. Decrement(d, FALSE)
      BY <1>4, Zenon DEF TimedLose, Lose
    <3>3. QED
      BY <2>1, <3>1, <3>2, DecrementAgrees
  <2>3. QED
    BY <2>1, <2>2 DEF ScopesAgree
<1>5. ASSUME NEW n \in 1..acks, ReadAck(n) PROVE TimesInv'
  <2>1. UNCHANGED <<elapsed, scope, now, startTime, resetTime, createdAt>>
        /\ deadline' = NotReading /\ since' \in {now, since}
    BY <1>5 DEF ReadAck, ProcessAck
  <2>2. ElapsedAgrees'
    <3>1. n \in Nat
      OBVIOUS
    <3>2. Decrement(n, FALSE)
      BY <1>5, Zenon DEF ReadAck, ProcessAck
    <3>3. QED
      BY <2>1, <3>1, <3>2, DecrementAgrees
  <2>3. QED
    BY <2>1, <2>2 DEF ScopesAgree
<1>6. CASE Expire
  <2>1. \A p \in Posters : scope[p] = "locked" => createdAt[p] < now
    BY <1>6, TimesAreNat DEF Expire, DidTimeout, ScopesAgree
  <2>2. QED
    BY <1>6, <2>1, ResetAgrees DEF Expire
<1>7. CASE TimedStoppedReset
  BY <1>7, ResetAgrees DEF TimedStoppedReset, StoppedReset, IsLocked
<1>8. CASE BeginRead
  <2>1. UNCHANGED <<refCount, elapsed, scope, now, startTime, resetTime, createdAt, since>>
    BY <1>8 DEF BeginRead, vars, wakelockVars
  <2>2. deadline' \in Nat \cup {Forever}
    BY <1>8, TimesAreNat DEF BeginRead, DidTimeout, ReadDeadlines, TimeLeft, Forever
  <2>3. QED
    BY <2>1, <2>2 DEF ElapsedAgrees, DidTimeout, ScopesAgree
<1>9. CASE ReadEnds
  <2>1. UNCHANGED <<refCount, elapsed, scope, now, startTime, resetTime, createdAt, since>>
        /\ deadline' = NotReading
    BY <1>9 DEF ReadEnds, vars, wakelockVars
  <2>2. QED
    BY <2>1 DEF ElapsedAgrees, DidTimeout, ScopesAgree
<1>10. CASE Advance
  <2>1. UNCHANGED <<refCount, scope, startTime, resetTime, createdAt, deadline, since>>
        /\ now' = now + 1
    BY <1>10 DEF Advance
  <2>2. DidTimeout => DidTimeout'
    BY <2>1, TimesAreNat DEF DidTimeout
  <2>3. elapsed' = (elapsed \/ (refCount > 0 /\ DidTimeout'))
    BY <1>10, <2>1 DEF Advance, DidTimeout
  <2>4. ElapsedAgrees'
    BY <2>1, <2>2, <2>3 DEF ElapsedAgrees
  <2>5. QED
    BY <2>1, <2>4 DEF ScopesAgree
<1>11. CASE TimedStart
  <2>1. UNCHANGED <<refCount, elapsed, scope, now, startTime, resetTime, createdAt, deadline>>
        /\ since' = now
    BY <1>11 DEF TimedStart, Start
  <2>2. QED
    BY <2>1 DEF ElapsedAgrees, DidTimeout, ScopesAgree
<1>12. CASE (\E n \in 1..inFlight : TimedAcknowledge(n)) \/ TimedStop
            \/ TimedClearSession \/ UNCHANGED timedVars
  <2>1. UNCHANGED <<refCount, elapsed, scope, timeVars>>
    BY <1>12 DEF TimedAcknowledge, Acknowledge, TimedStop, Stop, TimedClearSession,
                 ClearSession, timedVars, vars, wakelockVars
  <2>2. QED
    BY <2>1 DEF timeVars, ElapsedAgrees, DidTimeout, ScopesAgree
<1>13. QED
  BY <1>1, <1>2, <1>3, <1>4, <1>5, <1>6, <1>7, <1>8, <1>9, <1>10, <1>11, <1>12
  DEF TimedNext, TimedStep

(* Deciding by the clock keeps the types and the agreement, whatever the    *)
(* timeout.                                                                 *)
THEOREM TimesInvariant == TimedSpec => [](TypeOK /\ TimesInv)
<1>1. Init => TypeOK
  BY InitType
<1>2. TimedInit => Init
  BY DEF TimedInit
<1>3. TimedInit => TimesInv
  BY TimesAreNat DEF TimedInit, Init, WakelockInit, TimesInv, TimesType, ElapsedAgrees,
                     ScopesAgree, NotReading, Forever
<1>4. TypeOK /\ TimesInv /\ [TimedNext]_timedVars => TypeOK' /\ TimesInv'
  BY TimedStepIsStep, TypeStep, TimesStep
<1>5. QED
  BY <1>1, <1>2, <1>3, <1>4, PTL DEF TimedSpec

(* The time that SharedWakelock abstracts from makes no difference to it:   *)
(* initial states map to initial states, steps to steps or stutters.        *)
THEOREM TimesImplement == TimedSpec => ImplementsSharedWakelock
<1>1. TimedInit => Init
  BY DEF TimedInit
<1>2. TypeOK /\ TimesInv /\ [TimedNext]_timedVars => [Next]_vars
  BY TimedStepIsStep
<1>3. QED
  BY <1>1, <1>2, TimesInvariant, PTL DEF TimedSpec, ImplementsSharedWakelock, Spec

(* How late handleWakelocks is.  While it reads, the clock is past the end  *)
(* of the read by its lag at most; between two reads it is past the timeout *)
(* by the lag that the read began with and the lag of now.                  *)
ReadLag == deadline \in Nat => now <= deadline + lag
WaitLag ==
  deadline = NotReading /\ refCount > 0 =>
    now <= startTime + Timeout + MaxLag + lag \/ now <= since + lag

LagInv ==
  /\ lag \in 0..MaxLag
  /\ deadline <= startTime + Timeout + MaxLag
  /\ threadsRun => ReadLag /\ WaitLag

(* What the steps of the posters and of the framework have in common. *)
QuietStep ==
  /\ UNCHANGED <<now, deadline, since>>
  /\ startTime <= startTime'
  /\ threadsRun' => threadsRun
  /\ threadsRun /\ refCount' > 0 => refCount > 0 \/ startTime' = now

LEMMA QuietSteps ==
  ASSUME TypeOK, TimesInv, TimedStep
  PROVE  QuietStep \/ BeginRead \/ ReadEnds \/ TimedStart \/ Advance
           \/ \E n \in 1..acks : ReadAck(n)
<1> USE DEF QuietStep, TypeOK, WakelockTypeOK, TimesInv, TimesType
<1>1. ASSUME NEW p \in Posters, NEW lock \in BOOLEAN, TimedCreate(p, lock) PROVE QuietStep
  <2>1. IF lock THEN Increment(1) ELSE UNCHANGED <<refCount, held, elapsed>>
    BY <1>1 DEF TimedCreate, CreateScoped, CreateScope
  <2>2. UNCHANGED <<now, deadline, since, threadsRun>> /\ NoteStart(lock)
    BY <1>1 DEF TimedCreate, CreateScoped, CreateScope
  <2>3. QED
    BY <2>1, <2>2 DEF NoteStart, Increment
<1>2. ASSUME NEW p \in Posters, NEW n \in WakeCounts, NEW lost \in 0..n, TimedPost(p, n, lost)
      PROVE  QuietStep
  <2>1. IF IsLocked(p) THEN Increment(n) ELSE UNCHANGED <<refCount, held, elapsed>>
    BY <1>2 DEF TimedPost, Post, CountBatch
  <2>2. UNCHANGED <<now, deadline, since, threadsRun>> /\ NoteStart(IsLocked(p))
    BY <1>2 DEF TimedPost, Post
  <2>3. QED
    BY <2>1, <2>2 DEF NoteStart, Increment
<1>3. ASSUME NEW p \in Posters, TimedDestroy(p) PROVE QuietStep
  <2>1. UNCHANGED <<now, deadline, since, threadsRun, startTime>>
    BY <1>3 DEF TimedDestroy
  <2>2. refCount' > 0 => refCount > 0
    BY <1>3 DEF TimedDestroy, Decrement
  <2>3. QED
    BY <2>1, <2>2
<1>4. ASSUME NEW k \in 0..inFlight, NEW d \in 0..MaxRefs, TimedLose(k, d) PROVE QuietStep
  <2>1. UNCHANGED <<now, deadline, since, threadsRun, startTime>>
    BY <1>4 DEF TimedLose, Lose, timeVars
  <2>2. Decrement(d, FALSE)
    BY <1>4, Zenon DEF TimedLose, Lose
  <2>3. d \in Nat
    BY MaxRefsIsNat
  <2>4. refCount' > 0 => refCount > 0
    BY <2>2, <2>3 DEF Decrement
  <2>5. QED
    BY <2>1, <2>4
<1>5. CASE Expire \/ TimedStoppedReset
  BY <1>5 DEF Expire, TimedStoppedReset, StoppedReset, ResetShared, Decrement
<1>6. CASE (\E n \in 1..inFlight : TimedAcknowledge(n)) \/ TimedStop \/ TimedClearSession
  BY <1>6 DEF TimedAcknowledge, Acknowledge, TimedStop, Stop, TimedClearSession,
              ClearSession, timeVars, wakelockVars
<1>7. QED
  BY <1>1, <1>2, <1>3, <1>4, <1>5, <1>6 DEF TimedStep

(* The lag bounds the delay: one step. *)
LEMMA LagStep ==
  ASSUME TypeOK, TimesInv, TimesInv', LagInv, [TimedNext]_timedVars
  PROVE  LagInv'
<1> USE TimesAreNat DEF TypeOK, WakelockTypeOK, TimesInv, TimesType, LagInv, NotReading, Forever
<1>1. CASE UNCHANGED timedVars
  BY <1>1 DEF timedVars, timeVars, vars, wakelockVars, ReadLag, WaitLag
<1>2. CASE TimedNext
  <2> USE <1>2 DEF TimedNext, Schedule
  <2>1. CASE QuietStep
    <3>1. ~BeginRead
      BY <2>1 DEF QuietStep, BeginRead, ReadDeadlines, TimeLeft, DidTimeout
    <3>2. lag' \in 0..MaxLag
      BY <2>1 DEF QuietStep
    <3>3. ASSUME threadsRun' PROVE ReadLag' /\ WaitLag'
      BY <2>1, <3>1, <3>3 DEF QuietStep, ReadLag, WaitLag, Runnable
    <3>4. QED
      BY <2>1, <3>2, <3>3 DEF QuietStep
  <2>2. CASE BeginRead
    <3>1. /\ UNCHANGED <<now, startTime, since, threadsRun>>
          /\ deadline' # Forever =>
               now <= deadline' /\ deadline' <= startTime + Timeout + MaxLag
          /\ deadline' # NotReading
      <4>1. CASE TimeLeft = 0
        BY <2>2, <4>1 DEF BeginRead, ReadDeadlines, vars, wakelockVars
      <4>2. CASE TimeLeft # 0
        <5>1. TimeLeft \in Nat /\ now + TimeLeft = startTime + Timeout
          BY <2>2 DEF BeginRead, DidTimeout, TimeLeft
        <5>2. deadline' \in now + TimeLeft .. now + TimeLeft + MaxLag
          BY <2>2, <4>2 DEF BeginRead, ReadDeadlines
        <5>3. QED
          BY <2>2, <5>1, <5>2 DEF BeginRead, vars, wakelockVars
      <4>3. QED
        BY <4>1, <4>2
    <3>2. lag' \in 0..MaxLag
      BY <3>1
    <3>3. deadline' # NotReading /\ (deadline' # Forever => now' <= deadline')
      BY <3>1
    <3>4. \A d, l, n \in Nat : n <= d => n <= d + l
      OBVIOUS
    <3>5. lag' \in Nat /\ now' \in Nat /\ Forever \notin Nat
      <4>1. 0..MaxLag \subseteq Nat
        OBVIOUS
      <4>2. lag' \in Nat
        BY <3>2, <4>1, Zenon
      <4>3. QED
        BY <3>1, <4>2
    <3>6. ReadLag'
      BY <3>3, <3>4, <3>5, Zenon DEF ReadLag
    <3>7. WaitLag'
      BY <3>3 DEF WaitLag
    <3>8. deadline' <= startTime' + Timeout + MaxLag
      BY <3>1, <3>3
    <3>9. QED
      BY <3>2, <3>6, <3>7, <3>8
  <2>3. CASE ReadEnds \/ \E n \in 1..acks : ReadAck(n)
    <3>1. /\ UNCHANGED <<now, startTime, threadsRun>> /\ deadline' = NotReading
          /\ deadline # NotReading
          /\ threadsRun => acks > 0 \/ (deadline # Forever /\ now >= deadline)
          /\ since' = since \/ since' = now
          /\ threadsRun /\ deadline = Forever => since' = now
      <4>1. CASE ReadEnds
        BY <4>1 DEF ReadEnds, vars, wakelockVars
      <4>2. ASSUME NEW n \in 1..acks, ReadAck(n)
            PROVE  /\ UNCHANGED <<now, startTime, threadsRun>> /\ deadline' = NotReading
                   /\ deadline # NotReading
                   /\ acks > 0
                   /\ since' = IF deadline = Forever THEN now ELSE since
        BY <4>2 DEF ReadAck, ProcessAck
      <4>3. QED
        BY <2>3, <4>1, <4>2
    <3>2. ~BeginRead
      BY <3>1 DEF BeginRead
    <3>3. lag' \in 0..MaxLag
      BY <3>1
    <3>4. ASSUME threadsRun' PROVE WaitLag'
      <4> SUFFICES ASSUME refCount' > 0
                   PROVE  now <= startTime + Timeout + MaxLag + lag' \/ now <= since' + lag'
        BY <3>1 DEF WaitLag
      <4>1. Runnable /\ Runnable'
        BY <3>1, <3>4 DEF Runnable
      <4>2. lag' = lag
        BY <3>1, <3>2, <4>1
      <4>3. CASE deadline = Forever
        BY <3>1, <3>3, <3>4, <4>3
      <4>4. CASE deadline \in Nat
        <5>1. now <= deadline + lag
          BY <3>1, <3>4, <4>4 DEF ReadLag
        <5>2. now <= startTime + Timeout + MaxLag + lag
          BY <5>1, <4>4
        <5>3. QED
          BY <4>2, <5>2
      <4>5. QED
        BY <3>1, <4>3, <4>4
    <3>5. QED
      BY <3>1, <3>3, <3>4 DEF ReadLag
  <2>4. CASE TimedStart
    BY <2>4 DEF TimedStart, Start, ReadLag, WaitLag
  <2>5. CASE Advance
    <3>1. /\ UNCHANGED <<refCount, threadsRun, deadline, startTime, since, acks>>
          /\ now' = now + 1
      BY <2>5 DEF Advance
    <3>2. ~BeginRead
      BY <3>1 DEF BeginRead
    <3>3. Runnable => Runnable'
      BY <3>1 DEF Runnable
    <3>4. lag' \in 0..MaxLag /\ (Runnable => lag' = lag + 1)
      BY <3>1, <3>2, <3>3
    <3>5. ASSUME threadsRun PROVE ReadLag' /\ WaitLag'
      BY <3>1, <3>4, <3>5 DEF ReadLag, WaitLag, Runnable
    <3>6. QED
      BY <3>1, <3>4, <3>5
  <2>6. QED
    BY <2>1, <2>2, <2>3, <2>4, <2>5, QuietSteps
<1>3. QED
  BY <1>1, <1>2

(* The references are taken back when their time is up, whatever the        *)
(* timeout and whatever the posters do meanwhile: the thread is late by     *)
(* what it is kept waiting before and after one read.  The time is counted  *)
(* from the last reference, from the start of the threads, or from the end  *)
(* of a read without a timeout.                                             *)
THEOREM LockReleasedInTime == TimedSpec => []ReleasedInTime
<1>1. TimedInit => LagInv
  BY TimesAreNat DEF TimedInit, Init, WakelockInit, LagInv, ReadLag, WaitLag, NotReading
<1>2. TypeOK /\ TimesInv /\ TimesInv' /\ LagInv /\ [TimedNext]_timedVars => LagInv'
  BY LagStep
<1>3. TypeOK /\ TimesInv /\ LagInv => ReleasedInTime
  BY TimesAreNat DEF TypeOK, WakelockTypeOK, TimesInv, TimesType, LagInv, ReadLag, WaitLag,
                     ReleasedInTime, NotReading, Forever
<1>4. QED
  BY <1>1, <1>2, <1>3, TimesInvariant, PTL DEF TimedSpec

(* What is proved of SharedWakelock holds with the clock, for any timeout.  *)
THEOREM PromisesWithClock ==
  TimedSpec => [](WakeEventsProtected /\ HeldOnlyIfReferenced)
<1>1. ImplementsSharedWakelock => Spec
  BY DEF ImplementsSharedWakelock
<1>2. QED
  BY <1>1, TimesImplement, Protected, NeverForgotten, PTL
=============================================================================
