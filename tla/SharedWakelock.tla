--------------------------- MODULE SharedWakelock ---------------------------
(***************************************************************************)
(* What the shared wake lock of the sensors HAL proxy promises, by counts  *)
(* only: while a wake-up event is on its way to the framework, or was read *)
(* and not yet acknowledged, the wake lock is held.  The events themselves *)
(* and the threads that move them are in EventDelivery, which refines this *)
(* module.                                                                 *)
(*                                                                         *)
(* The code gives up the promise in a few places on purpose or by          *)
(* oversight (see Breach in each action): the history variable breached    *)
(* records that one of them happened since the last initialize().          *)
(***************************************************************************)
EXTENDS Wakelock

CONSTANTS
  WakeCounts,   \* the numbers of wake-up events a posted batch may have
  MaxRefs       \* bound: wake-up events and references at one time

ASSUME WakeCountsAreNat == WakeCounts \subseteq Nat
ASSUME MaxRefsIsNat == MaxRefs \in Nat

VARIABLES
  inFlight,     \* wake-up events accepted and neither lost nor acknowledged
  acks,         \* wake-up events acknowledged in mWakeLockQueue, not processed
  breached      \* references were taken away that an event still needed

vars == <<wakelockVars, inFlight, acks, breached>>

Init ==
  /\ WakelockInit
  /\ inFlight = 0
  /\ acks = 0
  /\ breached = FALSE

Breach(b) == breached' = (breached \/ b)

(* a sub-HAL creates the ScopedWakelock of the batch it is about to post *)
CreateScoped(p, lock) ==
  /\ refCount < MaxRefs
  /\ CreateScope(p, lock)
  /\ UNCHANGED <<inFlight, acks, breached>>

(* the references a batch of n wake-up events counts *)
CountBatch(n) == Increment(n)

(* postEventsToMessageQueue accepts n wake-up events, but lost of them find *)
(* no room.  Their references are counted only under a locked object and    *)
(* while the threads run.                                                   *)
Post(p, n, lost) ==
  /\ scope[p] # "none"
  /\ refCount + n <= MaxRefs
  /\ IF IsLocked(p) THEN CountBatch(n) ELSE UNCHANGED <<refCount, held, elapsed>>
  /\ UNCHANGED <<threadsRun, scope>>
  /\ Breach(n > lost /\ ~(IsLocked(p) /\ threadsRun))
  /\ inFlight + acks + n <= MaxRefs
  /\ inFlight' = inFlight + n - lost
  /\ acks' = acks

(* the ScopedWakelock goes out of scope when postEvents returns *)
DestroyScoped(p) ==
  /\ DestroyScope(p)
  /\ UNCHANGED <<inFlight, acks, breached>>

(* k events on their way are dropped and d references are given back *)
Lose(k, d) ==
  /\ UNCHANGED <<threadsRun, elapsed, scope>>
  /\ Decrement(d, FALSE)
  /\ Breach(threadsRun /\ d > k)
  /\ k <= inFlight
  /\ inFlight' = inFlight - k
  /\ acks' = acks

(* the framework acknowledges n events it has read and handled *)
Acknowledge(n) ==
  /\ UNCHANGED <<wakelockVars, breached>>
  /\ n <= inFlight
  /\ inFlight' = inFlight - n
  /\ acks' = acks + n

(* handleWakelocks reads an acknowledgement from mWakeLockQueue *)
ProcessAck(n) ==
  /\ UNCHANGED <<threadsRun, elapsed, scope, breached>>
  /\ Decrement(n, FALSE)
  /\ n <= acks
  /\ acks' = acks - n
  /\ inFlight' = inFlight

(* handleWakelocks finds that no event came for kWakelockTimeoutNs *)
TimeoutReset ==
  /\ threadsRun /\ refCount > 0 /\ elapsed
  /\ ResetShared
  /\ Breach(inFlight + acks > 0)
  /\ UNCHANGED <<inFlight, acks>>

(* stopThreads, first statement *)
Stop ==
  /\ threadsRun
  /\ threadsRun' = FALSE
  /\ UNCHANGED <<refCount, held, elapsed, scope, inFlight, acks, breached>>

(* resetSharedWakelock with mThreadsRun false: handleWakelocks after its    *)
(* loop, and initializeCommon after stopThreads                             *)
StoppedReset ==
  /\ ~threadsRun
  /\ ResetShared
  /\ UNCHANGED <<inFlight, acks, breached>>

(* initializeCommon replaces the queues: what was in them is forgotten *)
ClearSession ==
  /\ ~threadsRun
  /\ Locked = {}
  /\ UNCHANGED wakelockVars
  /\ breached' = FALSE
  /\ inFlight' = 0
  /\ acks' = 0

(* initializeCommon sets mThreadsRun and starts the threads *)
Start ==
  /\ ~threadsRun
  /\ threadsRun' = TRUE
  /\ UNCHANGED <<refCount, held, elapsed, scope, inFlight, acks, breached>>

Tick == TimePasses /\ UNCHANGED <<inFlight, acks, breached>>

Next ==
  \/ \E p \in Posters, lock \in BOOLEAN : CreateScoped(p, lock)
  \/ \E p \in Posters, n \in WakeCounts : \E lost \in 0..n : Post(p, n, lost)
  \/ \E p \in Posters : DestroyScoped(p)
  \/ \E k \in 0..inFlight, d \in 0..MaxRefs : Lose(k, d)
  \/ \E n \in 1..inFlight : Acknowledge(n)
  \/ \E n \in 1..acks : ProcessAck(n)
  \/ TimeoutReset \/ Stop \/ StoppedReset \/ ClearSession \/ Start \/ Tick

Spec == Init /\ [][Next]_vars
-----------------------------------------------------------------------------
(* Every variable has its type: the counts stay natural although the code  *)
(* subtracts from an unsigned mWakelockRefCount.                            *)
TypeOK ==
  /\ WakelockTypeOK
  /\ inFlight \in Nat
  /\ acks \in Nat
  /\ breached \in BOOLEAN

(* The count covers every claim on the wake lock: one reference for each    *)
(* scoped wake lock and one for each wake-up event that the framework has   *)
(* not finished with (HalProxy.cpp, postEventsToMessageQueue and            *)
(* handleWakelocks), unless the code took references away unearned.         *)
CountCoversClaims ==
  ~breached => refCount >= Cardinality(Locked) + inFlight + acks

(* A counted reference always has the kernel wake lock behind it: no order  *)
(* of increments, decrements and timeout resets releases the lock early.    *)
HeldWhileReferenced == refCount > 0 => held

(* The promise of the wake lock: the device stays awake while a wake-up     *)
(* event is in a queue or being handled by the framework.                   *)
WakeEventsProtected == ~breached /\ inFlight + acks > 0 => held

(* When every batch posted under a locked object has a wake-up event, the   *)
(* lock is never held without a reference: nobody forgets to release it.    *)
HeldOnlyIfReferenced == (0 \notin WakeCounts) => (held => refCount > 0)
=============================================================================
