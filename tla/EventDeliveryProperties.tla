----------------------- MODULE EventDeliveryProperties -----------------------
(***************************************************************************)
(* What must hold of EventDelivery.                                        *)
(***************************************************************************)
EXTENDS EventDelivery

(* Every variable has its type and the queues respect their capacities. *)
TypeOK ==
  /\ WakelockTypeOK
  /\ fmq \in Seq([id : Nat, wake : BOOLEAN]) /\ Len(fmq) <= QueueSize
  /\ wakeQueue \in Seq(Nat)
  /\ unacked \in Nat
  /\ pending \in Seq([events : Seq([id : Nat, wake : BOOLEAN]), wake : Nat])
  /\ sizePending \in Nat
  /\ writer \in LoopStates \cup {"writing", "written"}
  /\ wlThread \in LoopStates \cup {"reading", "untimed"}
  /\ rpc \in {"idle", "drain", "notifyWakelock", "notifyWriter", "join", "disable", "start"}
  /\ toDisable \subseteq Posters
  /\ post \in [Posters -> {"idle", "triggered", "scoped", "checked", "holding", "posted"}]
  /\ enabled \in [Posters -> BOOLEAN]
  /\ batch \in [Posters -> Batches \cup {<<>>}]
  /\ {nextId, begun, inits} \subseteq Nat
  /\ breached \in BOOLEAN

Ascending(events) == \A i, j \in DOMAIN events : i < j => events[i].id < events[j].id
Before(earlier, later) ==
  \A i \in DOMAIN earlier, j \in DOMAIN later : earlier[i].id < later[j].id

(* Events reach the framework in the order in which                         *)
(* postEventsToMessageQueue accepted them, although they travel by two      *)
(* ways: directly into the FMQ, or over the pending queue that the writer   *)
(* empties in chunks without holding the mutex.                             *)
InOrder ==
  /\ Ascending(fmq)
  /\ \A i \in DOMAIN Unwritten :
       /\ Ascending(Unwritten[i]) /\ Before(fmq, Unwritten[i])
       /\ \A j \in DOMAIN Unwritten : i < j => Before(Unwritten[i], Unwritten[j])

(* mSizePendingWriteEventsQueue, which the posters compare with the limit,  *)
(* is the number of pending events and never passes the limit, whatever the *)
(* writer has written, given up or erased meanwhile (HalProxy.cpp:603-612). *)
PendingAccounting ==
  /\ sizePending = Total([i \in DOMAIN pending |-> DOMAIN pending[i].events])
  /\ sizePending <= MaxPending

(* While the threads run, no thread sleeps on its condition variable with   *)
(* its predicate true: a notification of a poster is never lost.            *)
NoLostNotification ==
  threadsRun => /\ writer = "parked" => pending = <<>>
                /\ wlThread = "parked" => refCount = 0

(* past the check of mThreadsRun, on the way to the queues *)
InPost(p) == post[p] \in {"checked", "holding"}

Unlocked(p) == InPost(p) /\ NumWakeups(batch[p]) > 0 /\ ~IsLocked(p)

(* The assertion of HalProxyCallback.cpp:47-50: wake-up events are posted    *)
(* under a locked ScopedWakelock only.                                      *)
AssertedLocked == \A p \in Posters : ~Unlocked(p)

(* The same of the posters that are silent once they are disabled, whatever *)
(* a one-shot sensor and initialize() do beside them.                       *)
WakeEventsLocked == \A p \in Posters \ OneShot : ~Unlocked(p)

(* The assertion of HalProxyCallback.cpp:52-55: a batch without wake-up     *)
(* events is posted under an unlocked ScopedWakelock.                       *)
NoWakeEventsUnlocked ==
  \A p \in Posters :
    InPost(p) /\ NumWakeups(batch[p]) = 0 => ~IsLocked(p)

(* The threads are stopped and joined before the queues they use without a  *)
(* mutex are replaced, and no poster is inside postEventsToMessageQueue but *)
(* for a one-shot sensor, which may post after it was disabled.             *)
QueuesReplacedAlone ==
  rpc = "disable" /\ toDisable = {} =>
    /\ writer = "off" /\ wlThread = "off"
    /\ \A p \in Posters \ OneShot : ~InPost(p)

Ids(events) == {events[i].id : i \in DOMAIN events}
Live == Ids(fmq) \cup UNION {Ids(Unwritten[i]) : i \in DOMAIN Unwritten}

(* An accepted event leaves the queues only because the framework read it,  *)
(* the framework left the FMQ full for kPendingWriteTimeoutNs, or           *)
(* initialize() dropped it: the chunks of a long batch are never skipped.   *)
NeverSilentlyLost ==
  [][Live \subseteq Live' \/ FrameworkRead \/ WriteFails \/ DrainQueues \/ ReplaceQueues]_<<fmq, pending, writer>>

(* The wake lock behaves as SharedWakelock promises: a queued event is one  *)
(* in an FMQ, pending, or read and not acknowledged.                        *)
SW == INSTANCE SharedWakelock WITH
        WakeCounts <- {NumWakeups(b) : b \in {c \in Batches : NeedsLock(c)}},
        MaxRefs    <- (MaxEvents + 1) * MaxBatches,
        inFlight   <- InFlight,
        acks       <- Acknowledged

ImplementsSharedWakelock == SW!Spec

(* A batch that a sub-HAL began to post is posted.  A poster waits for       *)
(* mWakelockMutex with mEventQueueWriteMutex and its mRunMutex held          *)
(* (HalProxy.cpp:667-669,698), and the writer, other posters and             *)
(* disableAllSensors wait for those: everybody who has one gives it back,    *)
(* also the wake lock thread, whose read may last for ever.                  *)
PostersFinish == \A p \in Posters : post[p] = "scoped" ~> post[p] = "idle"

(* stopThreads may wait for ever for a thread that missed its notification: *)
(* see InitializeReturns.                                                   *)
JoinsForEver == [](rpc = "join")

(* The pending events are written, given up or dropped by initialize(), even *)
(* when the framework never reads: a full FMQ does not stop the writer.     *)
PendingDrains == sizePending > 0 ~> sizePending = 0 \/ JoinsForEver

(* When the sensors fall silent the device can sleep again, even when the   *)
(* framework never acknowledges and when references outlive initialize(),   *)
(* which resets them while mThreadsRun is false.  The exception is a read   *)
(* that began with no time left and is never answered (HalProxy.cpp:650).   *)
WakelockReleased ==
  held ~> \/ ~held
          \/ JoinsForEver
          \/ [](wlThread = "untimed" /\ wakeQueue = <<>>)

(* initialize() returns: the threads it stops do stop. *)
InitializeReturns == rpc # "idle" ~> rpc = "idle"
=============================================================================
