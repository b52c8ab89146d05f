--------------------------- MODULE TimedWakelock ---------------------------
(***************************************************************************)
(* The shared wake lock of the sensors HAL proxy with the clock that       *)
(* src/sensors/HalProxy.cpp reads: mWakelockTimeoutStartTime, the time of  *)
(* the last reset, the time each ScopedWakelock was created, and the       *)
(* blocking read of handleWakelocks, which lasts for what is left of       *)
(* kWakelockTimeoutNs.  The wake lock thread is never kept waiting for the  *)
(* processor or a mutex for more than MaxLag readings of the clock.        *)
(*                                                                         *)
(* The code decides by these times only.  What SharedWakelock keeps        *)
(* instead, elapsed and the stale objects in scope, are history variables  *)
(* here: no action reads elapsed or tells "stale" from "locked".  The      *)
(* module implements SharedWakelock, so deciding by them is the same.      *)
(***************************************************************************)
EXTENDS SharedWakelock

CONSTANTS
  Timeout,      \* kWakelockTimeoutNs
  MaxLag,       \* the longest time the wake lock thread can run and does not
  MaxTime       \* bound: the last reading of the clock

ASSUME TimesAreNat == {Timeout, MaxLag, MaxTime} \subseteq Nat

VARIABLES
  now,          \* getTimeNow()
  startTime,    \* mWakelockTimeoutStartTime
  resetTime,    \* mWakelockTimeoutResetTime
  createdAt,    \* ScopedWakelock::mCreatedAtTimeNs of each poster's object
  deadline,     \* when the read of handleWakelocks gives up, or NotReading, Forever
  lag,          \* for how long handleWakelocks could have gone on
  since         \* history: when it was last started, or had to wait without a timeout

NotReading == -2    \* handleWakelocks is not in readBlocking
Forever == -1       \* it is, without a timeout

timeVars == <<now, startTime, resetTime, createdAt, deadline, since>>
timedVars == <<vars, timeVars, lag>>

TimedInit ==
  /\ Init
  /\ now = 0 /\ startTime = 0 /\ resetTime = 0
  /\ createdAt = [p \in Posters |-> 0]
  /\ deadline = NotReading /\ lag = 0 /\ since = 0

(* incrementRefCountAndMaybeAcquireWakelock notes the time it counts at *)
NoteStart(counted) ==
  startTime' = IF counted /\ threadsRun THEN now ELSE startTime

TimedCreate(p, lock) ==
  /\ CreateScoped(p, lock)
  /\ NoteStart(lock)
  /\ createdAt' = IF lock /\ threadsRun THEN [createdAt EXCEPT ![p] = now] ELSE createdAt
  /\ UNCHANGED <<now, resetTime, deadline, since>>

TimedPost(p, n, lost) ==
  /\ Post(p, n, lost)
  /\ NoteStart(IsLocked(p))
  /\ UNCHANGED <<now, resetTime, createdAt, deadline, since>>

(* timeoutStart < mWakelockTimeoutResetTime; the mutant has <=, by which an *)
(* object created in the nanosecond of the reset keeps its reference        *)
MutantTakenByReset(p) == createdAt[p] <= resetTime
TakenByReset(p) == createdAt[p] < resetTime

TimedDestroy(p) ==
  /\ scope[p] # "none"
  /\ scope' = [scope EXCEPT ![p] = "none"]
  /\ IF IsLocked(p) THEN Decrement(1, TakenByReset(p)) ELSE UNCHANGED <<refCount, held>>
  /\ createdAt' = [createdAt EXCEPT ![p] = 0]      \* it goes with the object
  /\ UNCHANGED <<threadsRun, elapsed, inFlight, acks, breached, now, startTime, resetTime,
                 deadline, since>>

TimedLose(k, d) == Lose(k, d) /\ UNCHANGED timeVars
TimedAcknowledge(n) == Acknowledge(n) /\ UNCHANGED timeVars

(* sharedWakelockDidTimeout *)
DidTimeout == now - startTime > Timeout
TimeLeft == Timeout - (now - startTime)

(* handleWakelocks takes all references back ... *)
Expire ==
  /\ threadsRun /\ refCount > 0 /\ deadline = NotReading
  /\ DidTimeout
  /\ ResetShared
  /\ resetTime' = now
  /\ Breach(inFlight + acks > 0)
  /\ UNCHANGED <<inFlight, acks, now, startTime, createdAt, deadline, since>>

(* ... or reads mWakeLockQueue for the time that is left; readBlocking      *)
(* takes 0 for no timeout.  The time is computed with the mutex held and    *)
(* the read begins later: it ends later, too.                               *)
MutantReadDeadlines == IF TimeLeft = 0 THEN {Forever} ELSE now + Timeout .. now + Timeout + MaxLag
ReadDeadlines == IF TimeLeft = 0 THEN {Forever} ELSE now + TimeLeft .. now + TimeLeft + MaxLag

BeginRead ==
  /\ threadsRun /\ refCount > 0 /\ deadline = NotReading
  /\ ~DidTimeout
  /\ deadline' \in ReadDeadlines
  /\ UNCHANGED <<vars, now, startTime, resetTime, createdAt, since>>

ReadAck(n) ==
  /\ deadline # NotReading
  /\ ProcessAck(n)
  /\ deadline' = NotReading
  /\ since' = IF deadline = Forever THEN now ELSE since
  /\ UNCHANGED <<now, startTime, resetTime, createdAt>>

(* the time is up, or stopThreads wrote a 0 *)
ReadEnds ==
  /\ deadline # NotReading
  /\ ~threadsRun \/ (deadline # Forever /\ now >= deadline)
  /\ deadline' = NotReading
  /\ UNCHANGED <<vars, now, startTime, resetTime, createdAt, since>>

TimedStop == Stop /\ UNCHANGED timeVars

(* The threads were stopped and joined in between, so the clock is past the *)
(* reading at which a scoped wake lock was created.                         *)
TimedStoppedReset ==
  /\ deadline = NotReading
  /\ \A p \in Posters : IsLocked(p) => createdAt[p] < now
  /\ StoppedReset
  /\ resetTime' = now
  /\ UNCHANGED <<now, startTime, createdAt, deadline, since>>

TimedClearSession == deadline = NotReading /\ ClearSession /\ UNCHANGED timeVars
TimedStart ==
  /\ deadline = NotReading
  /\ Start
  /\ since' = now
  /\ UNCHANGED <<now, startTime, resetTime, createdAt, deadline>>

(* the clock moves on *)
Advance ==
  /\ now < MaxTime
  /\ now' = now + 1
  /\ elapsed' = (elapsed \/ (refCount > 0 /\ now' - startTime > Timeout))
  /\ UNCHANGED <<threadsRun, refCount, held, scope, inFlight, acks, breached,
                 startTime, resetTime, createdAt, deadline, since>>

(* handleWakelocks waits for nothing: neither for a reference nor in a read *)
Runnable ==
  /\ threadsRun
  /\ IF deadline = NotReading
     THEN refCount > 0
     ELSE acks > 0 \/ (deadline # Forever /\ now >= deadline)

(* It does not stay runnable for more than MaxLag without beginning a read. *)
Schedule ==
  /\ lag' = IF Runnable /\ Runnable' /\ ~BeginRead THEN lag + now' - now ELSE 0
  /\ lag' <= MaxLag

TimedStep ==
  \/ \E p \in Posters, lock \in BOOLEAN : TimedCreate(p, lock)
  \/ \E p \in Posters, n \in WakeCounts : \E lost \in 0..n : TimedPost(p, n, lost)
  \/ \E p \in Posters : TimedDestroy(p)
  \/ \E k \in 0..inFlight, d \in 0..MaxRefs : TimedLose(k, d)
  \/ \E n \in 1..inFlight : TimedAcknowledge(n)
  \/ \E n \in 1..acks : ReadAck(n)
  \/ Expire \/ BeginRead \/ ReadEnds
  \/ TimedStop \/ TimedStoppedReset \/ TimedClearSession \/ TimedStart \/ Advance

TimedNext == TimedStep /\ Schedule

TimedSpec == TimedInit /\ [][TimedNext]_timedVars
-----------------------------------------------------------------------------
(* Comparing the times decides what SharedWakelock says: the reset takes    *)
(* references only after kWakelockTimeoutNs without a new one, and a scoped  *)
(* wake lock gives back exactly the reference that no reset took, whatever   *)
(* happens at equal readings of the clock (HalProxy.cpp:646-662,719-720).   *)
ImplementsSharedWakelock == Spec

(* The references are taken back when kWakelockTimeoutNs passed since the   *)
(* last one was counted, however the posters move mWakelockTimeoutStartTime *)
(* on while handleWakelocks uses the time left it computed before it         *)
(* released the mutex (HalProxy.cpp:624-635).  The thread is late by what it *)
(* is kept waiting before and after one read, no more.  References that      *)
(* outlive initialize() (HalProxy.cpp:215,706) go when the threads run       *)
(* again.  The exception is a read that began with no time left, while it    *)
(* lasts (HalProxy.cpp:650-653).                                             *)
ReleasedInTime ==
  threadsRun /\ refCount > 0 /\ deadline # Forever =>
    \/ now <= startTime + Timeout + 2 * MaxLag
    \/ now <= since + MaxLag
=============================================================================
