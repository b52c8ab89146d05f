------------------------------ MODULE Wakelock ------------------------------
(***************************************************************************)
(* The reference count of the shared wake lock of the sensors HAL proxy    *)
(* (src/sensors/HalProxy.cpp): the state guarded by mWakelockMutex and the *)
(* three operations on it.  The module has no next-state relation: the     *)
(* modules that EXTEND it conjoin these operators in their actions.        *)
(*                                                                         *)
(* Time is abstracted to what the code compares: whether more than         *)
(* kWakelockTimeoutNs passed since mWakelockTimeoutStartTime, and whether  *)
(* a scoped wake lock was created before mWakelockTimeoutResetTime.  That  *)
(* the clock readings themselves decide the same is in TimedWakelock.      *)
(***************************************************************************)
EXTENDS Integers, FiniteSets

CONSTANT Posters        \* the threads that post sensor events to the proxy

ASSUME PostersFinite == IsFiniteSet(Posters)

VARIABLES
  threadsRun,   \* mThreadsRun
  refCount,     \* mWakelockRefCount
  held,         \* is the kernel wake lock kWakelockName acquired?
  elapsed,      \* getTimeNow() - mWakelockTimeoutStartTime > kWakelockTimeoutNs
  scope         \* the ScopedWakelock object of each poster, see ScopeStates

wakelockVars == <<threadsRun, refCount, held, elapsed, scope>>

(* "unlocked" and "locked" are the values of ScopedWakelock::mLocked; a     *)
(* locked object created before the last timeout reset is "stale".          *)
ScopeStates == {"none", "unlocked", "locked", "stale"}

Locked == {p \in Posters : scope[p] = "locked"}

IsLocked(p) == scope[p] \in {"locked", "stale"}

WakelockTypeOK ==
  /\ threadsRun \in BOOLEAN
  /\ refCount \in Nat
  /\ held \in BOOLEAN
  /\ elapsed \in BOOLEAN
  /\ scope \in [Posters -> ScopeStates]

WakelockInit ==
  /\ threadsRun = FALSE
  /\ refCount = 0
  /\ held = FALSE
  /\ elapsed = FALSE
  /\ scope = [p \in Posters |-> "none"]

(* incrementRefCountAndMaybeAcquireWakelock, without its caller's token *)
Increment(delta) ==
  IF threadsRun
  THEN /\ held' = (held \/ refCount = 0)
       /\ elapsed' = FALSE
       /\ refCount' = refCount + delta
  ELSE UNCHANGED <<held, elapsed, refCount>>

(* Two plausible bugs of Decrement, for the mutants of PROJECT.json: the    *)
(* lock goes one reference early, or only when delta is exactly the count.  *)
MutantDecrementEarly(delta, stale) ==
  IF threadsRun /\ refCount > 0 /\ ~stale
  THEN /\ refCount' = IF delta < refCount THEN refCount - delta ELSE 0
       /\ held' = (held /\ delta + 1 < refCount)
  ELSE UNCHANGED <<refCount, held>>

MutantDecrementExact(delta, stale) ==
  IF threadsRun /\ refCount > 0 /\ ~stale
  THEN /\ refCount' = IF delta < refCount THEN refCount - delta ELSE 0
       /\ held' = (held /\ delta # refCount)
  ELSE UNCHANGED <<refCount, held>>

(* decrementRefCountAndMaybeReleaseWakelock; stale says that the caller's   *)
(* timeoutStart is older than mWakelockTimeoutResetTime                     *)
Decrement(delta, stale) ==
  IF threadsRun /\ refCount > 0 /\ ~stale
  THEN /\ refCount' = IF delta < refCount THEN refCount - delta ELSE 0
       /\ held' = (held /\ delta < refCount)
  ELSE UNCHANGED <<refCount, held>>

(* resetSharedWakelock *)
ResetShared ==
  /\ Decrement(refCount, FALSE)
  /\ scope' = [p \in Posters |->
                 IF scope[p] = "locked" THEN "stale" ELSE scope[p]]
  /\ UNCHANGED <<threadsRun, elapsed>>

(* createScopedWakelock: the constructor of ScopedWakelock keeps the        *)
(* result of the increment as mLocked                                       *)
CreateScope(p, lock) ==
  /\ scope[p] = "none"
  /\ scope' = [scope EXCEPT ![p] = IF lock /\ threadsRun
                                   THEN "locked" ELSE "unlocked"]
  /\ IF lock THEN Increment(1) ELSE UNCHANGED <<refCount, held, elapsed>>
  /\ UNCHANGED threadsRun

(* ~ScopedWakelock gives the reference of a locked object back *)
DestroyScope(p) ==
  /\ scope[p] # "none"
  /\ scope' = [scope EXCEPT ![p] = "none"]
  /\ IF IsLocked(p) THEN Decrement(1, scope[p] = "stale")
                    ELSE UNCHANGED <<refCount, held>>
  /\ UNCHANGED <<threadsRun, elapsed>>

(* the clock passes mWakelockTimeoutStartTime + kWakelockTimeoutNs *)
TimePasses ==
  /\ refCount > 0
  /\ ~elapsed
  /\ elapsed' = TRUE
  /\ UNCHANGED <<threadsRun, refCount, held, scope>>
=============================================================================
