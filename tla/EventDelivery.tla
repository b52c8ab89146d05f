--------------------------- MODULE EventDelivery ---------------------------
(***************************************************************************)
(* How the sensors HAL proxy moves events from the sub-HALs to the         *)
(* framework (src/sensors/HalProxy.cpp, HalProxyCallback.cpp).             *)
(*                                                                         *)
(* Threads: the posters (one per sub-HAL callback thread, or per sensor    *)
(* for the sensors of src/sensors/Sensor.cpp), mPendingWritesThread        *)
(* (writer), mWakelockThread (wlThread) and the only binder thread of the  *)
(* service (rpc), which runs initialize() and activate().  The framework   *)
(* is the environment: it reads the event FMQ and acknowledges wake-up     *)
(* events, or never does.                                                  *)
(*                                                                         *)
(* A condition variable is waited on in two steps: a thread at "parking"   *)
(* found its predicate false, holds the mutex and is not yet blocked; a    *)
(* thread at "parked" is blocked and has released the mutex.               *)
(***************************************************************************)
EXTENDS Wakelock, Sequences

CONSTANTS
  Batches,      \* event batches: sequences of Kinds
  OneShot,      \* the posters that are run loops of UdfpsSensor/SingleTapSensor
  QueueSize,    \* mEventQueue->getQuantumCount()
  MaxPending,   \* kMaxSizePendingWriteEventsQueue
  MaxEvents,    \* bound: events in a batch
  MaxAcks,      \* bound: entries of mWakeLockQueue
  MaxBatches,   \* bound: batches posted
  MaxInits      \* bound: calls of initialize()

(* "nopick" is an event of a PICK_UP_GESTURE sensor, a wake-up sensor, whose *)
(* scalar is not 1                                                          *)
Kinds == {"plain", "wake", "nopick"}

ASSUME BatchesAreEvents == Batches \subseteq {b \in Seq(Kinds) : Len(b) \in 1 .. MaxEvents}
ASSUME OneShotArePosters == OneShot \subseteq Posters
ASSUME SizesArePositive ==
  /\ {QueueSize, MaxPending} \subseteq Nat \ {0}
  /\ {MaxEvents, MaxAcks, MaxBatches, MaxInits} \subseteq Nat

VARIABLES
  \* the queues between the proxy and the framework
  fmq,          \* mEventQueue: sequence of events [id, wake]
  wakeQueue,    \* mWakeLockQueue: sequence of acknowledged counts
  unacked,      \* wake-up events the framework read and did not acknowledge
  \* the proxy, guarded by mEventQueueWriteMutex
  pending,      \* mPendingWriteEventsQueue: sequence of [events, wake]
  sizePending,  \* mSizePendingWriteEventsQueue
  \* program counters
  writer,       \* handlePendingWrites
  wlThread,     \* handleWakelocks
  rpc,          \* initializeCommon
  toDisable,    \* the sensors disableAllSensors has not reached yet
  post,         \* each poster
  \* the posters' sensors
  enabled,      \* is the poster's sensor activated?
  batch,        \* the batch the poster is posting
  \* history and bounds
  nextId,       \* events accepted or filtered so far
  begun,        \* batches begun so far
  inits,        \* calls of initialize() so far
  breached      \* see SharedWakelock

queueVars   == <<fmq, wakeQueue, unacked>>
pendingVars == <<pending, sizePending>>
sensorVars  == <<enabled, batch>>
countVars   == <<nextId, begun, inits>>
vars == <<wakelockVars, queueVars, pendingVars, writer, wlThread, rpc, toDisable,
          post, sensorVars, countVars, breached>>

LoopStates == {"off", "top", "parking", "parked"}

Init ==
  /\ WakelockInit
  /\ fmq = <<>> /\ wakeQueue = <<>> /\ unacked = 0
  /\ pending = <<>> /\ sizePending = 0
  /\ writer = "off" /\ wlThread = "off" /\ rpc = "idle" /\ toDisable = {}
  /\ post = [p \in Posters |-> "idle"]
  /\ enabled = [p \in Posters |-> FALSE]
  /\ batch = [p \in Posters |-> <<>>]
  /\ nextId = 0 /\ begun = 0 /\ inits = 0
  /\ breached = FALSE
-----------------------------------------------------------------------------
(* Mutexes: a thread keeps one across two steps while it is "parking", and a *)
(* poster keeps mEventQueueWriteMutex while it waits for mWakelockMutex.     *)
EventMutexFree == writer # "parking" /\ \A p \in Posters : post[p] # "holding"

MutantWakelockMutexFree == wlThread \notin {"parking", "reading", "untimed"}  \* kept by the read
WakelockMutexFree == wlThread # "parking"

Woken(thread) == IF thread = "parked" THEN "top" ELSE thread

(* mWakelockCV is notified when the first reference is counted *)
MutantNotifyIfAcquired(counted) ==      \* notified for a later reference only
  wlThread' = IF counted /\ threadsRun /\ refCount > 0
              THEN Woken(wlThread) ELSE wlThread

NotifyIfAcquired(counted) ==
  wlThread' = IF counted /\ threadsRun /\ refCount = 0
              THEN Woken(wlThread) ELSE wlThread

WakeIndexes(events) == {i \in DOMAIN events : events[i].wake}
Wakes(events) == Cardinality(WakeIndexes(events))

Drop(s, n) == SubSeq(s, n + 1, Len(s))

(* How many elements the sets of a sequence have together.  A sum or a fold *)
(* over the sequence would say the same, but is defined by recursion.       *)
Total(sets) == Cardinality(UNION {{i} \X sets[i] : i \in DOMAIN sets})

(* processEvents drops the events of a PICK_UP_GESTURE sensor that are no   *)
(* pick-up, and counts the wake-up events that are left                     *)
ProcessEvents(b) ==
  LET kept[n \in 0 .. Len(b)] ==
        IF n = 0 THEN <<>>
        ELSE IF b[n] = "nopick" THEN kept[n - 1]
        ELSE Append(kept[n - 1], [id |-> nextId + n, wake |-> b[n] = "wake"])
  IN  kept[Len(b)]

NumWakeups(b) == Cardinality({i \in DOMAIN b : b[i] = "wake"})

(* the sub-HAL locks the batches of its wake-up sensors *)
NeedsLock(b) == \E i \in DOMAIN b : b[i] # "plain"
-----------------------------------------------------------------------------
(* The posters *)

(* poll() of UdfpsSensor::run returns with the sensor's event, mRunMutex is *)
(* not yet locked again                                                     *)
Trigger(p) ==
  /\ p \in OneShot /\ enabled[p] /\ post[p] = "idle"
  /\ post' = [post EXCEPT ![p] = "triggered"]
  /\ UNCHANGED <<wakelockVars, queueVars, pendingVars, writer, wlThread, rpc,
                 toDisable, sensorVars, countVars, breached>>

(* a poster takes mRunMutex and creates the ScopedWakelock of a batch; a    *)
(* one-shot sensor disables itself and does not look whether it was enabled *)
Begin(p) ==
  /\ IF p \in OneShot THEN post[p] = "triggered" ELSE post[p] = "idle" /\ enabled[p]
  /\ begun < MaxBatches
  /\ WakelockMutexFree
  /\ \E b \in Batches :
       /\ batch' = [batch EXCEPT ![p] = b]
       /\ CreateScope(p, NeedsLock(b))
       /\ NotifyIfAcquired(NeedsLock(b))
  /\ enabled' = [enabled EXCEPT ![p] = enabled[p] /\ p \notin OneShot]
  /\ post' = [post EXCEPT ![p] = "scoped"]
  /\ begun' = begun + 1
  /\ UNCHANGED <<queueVars, pendingVars, writer, rpc, toDisable, nextId, inits, breached>>

(* HalProxyCallbackBase::postEvents returns early when the threads stopped *)
CheckRunning(p) ==
  /\ post[p] = "scoped"
  /\ post' = [post EXCEPT ![p] = IF threadsRun THEN "checked" ELSE "posted"]
  /\ UNCHANGED <<wakelockVars, queueVars, pendingVars, writer, wlThread, rpc,
                 toDisable, sensorVars, countVars, breached>>

(* the events that go directly into the FMQ: none while others are pending, *)
(* so that they cannot overtake                                             *)
Room == QueueSize - Len(fmq)
MutantDirectWrite(events) == IF Len(events) < Room THEN Len(events) ELSE Room
MutantDirectWriteUnbounded(events) == IF pending # <<>> THEN 0 ELSE Len(events)
DirectWrite(events) ==
  IF pending # <<>> THEN 0 ELSE IF Len(events) < Room THEN Len(events) ELSE Room

(* the limit of the pending queue *)
MutantFits(left) == sizePending <= MaxPending
Fits(left) == sizePending + Len(left) <= MaxPending

(* postEventsToMessageQueue locks mEventQueueWriteMutex ... *)
LockEvents(p) ==
  /\ post[p] = "checked"
  /\ EventMutexFree
  /\ post' = [post EXCEPT ![p] = "holding"]
  /\ UNCHANGED <<wakelockVars, queueVars, pendingVars, writer, wlThread, rpc,
                 toDisable, sensorVars, countVars, breached>>

(* ... and with it, for a locked object, mWakelockMutex to count the events *)
PostEvents(p) ==
  LET events     == ProcessEvents(batch[p])
      numWakeups == NumWakeups(batch[p])
      numToWrite == DirectWrite(events)
      left       == Drop(events, numToWrite)
  IN  /\ post[p] = "holding"
      /\ IsLocked(p) => WakelockMutexFree
      /\ IF IsLocked(p) THEN Increment(numWakeups)
                        ELSE UNCHANGED <<refCount, held, elapsed>>
      /\ NotifyIfAcquired(IsLocked(p))
      /\ fmq' = fmq \o SubSeq(events, 1, numToWrite)
      /\ IF left # <<>> /\ Fits(left)
         THEN /\ pending' = Append(pending, [events |-> left, wake |-> numWakeups])
              /\ sizePending' = sizePending + Len(left)
              /\ writer' = Woken(writer)
         ELSE UNCHANGED <<pendingVars, writer>>
      /\ nextId' = nextId + Len(batch[p])
      /\ breached' = \/ breached
                     \/ /\ numWakeups > (IF Fits(left) THEN 0 ELSE Wakes(left))
                        /\ ~(IsLocked(p) /\ threadsRun)
      /\ post' = [post EXCEPT ![p] = "posted"]
      /\ UNCHANGED <<threadsRun, scope, wakeQueue, unacked, rpc, toDisable,
                     sensorVars, begun, inits>>

(* postEvents returns: the ScopedWakelock is destroyed, mRunMutex released *)
Finish(p) ==
  /\ post[p] = "posted"
  /\ WakelockMutexFree
  /\ DestroyScope(p)
  /\ post' = [post EXCEPT ![p] = "idle"]
  /\ batch' = [batch EXCEPT ![p] = <<>>]
  /\ UNCHANGED <<queueVars, pendingVars, writer, wlThread, rpc, toDisable, enabled,
                 countVars, breached>>
-----------------------------------------------------------------------------
(* mPendingWritesThread: handlePendingWrites *)

FrontBatch == Head(pending)
NumToWrite == IF Len(FrontBatch.events) < QueueSize THEN Len(FrontBatch.events) ELSE QueueSize

(* what of each pending batch is neither in the FMQ nor given up *)
Unwritten ==
  [i \in DOMAIN pending |-> IF i = 1 /\ writer = "written"
                            THEN Drop(FrontBatch.events, NumToWrite)
                            ELSE pending[i].events]

(* the wake-up events that are pending, in the FMQ, or were read and not    *)
(* acknowledged, and those whose acknowledgement was not processed          *)
InFlight == Wakes(fmq) + Total([i \in DOMAIN Unwritten |-> WakeIndexes(Unwritten[i])]) + unacked
Acknowledged == Total([i \in DOMAIN wakeQueue |-> 1 .. wakeQueue[i]])

WriterTop ==
  /\ writer = "top"
  /\ EventMutexFree
  /\ writer' = CASE ~threadsRun     -> "off"
                 [] threadsRun /\ pending = <<>>  -> "parking"
                 [] threadsRun /\ pending # <<>>  -> "writing"
  /\ UNCHANGED <<wakelockVars, queueVars, pendingVars, wlThread, rpc, toDisable,
                 post, sensorVars, countVars, breached>>

WriterPark ==
  /\ writer = "parking"
  /\ writer' = "parked"
  /\ UNCHANGED <<wakelockVars, queueVars, pendingVars, wlThread, rpc, toDisable,
                 post, sensorVars, countVars, breached>>

(* writeBlocking succeeds, the event mutex is not held *)
WriteOk ==
  /\ writer = "writing"
  /\ Len(fmq) + NumToWrite <= QueueSize
  /\ fmq' = fmq \o SubSeq(FrontBatch.events, 1, NumToWrite)
  /\ writer' = "written"
  /\ UNCHANGED <<wakelockVars, wakeQueue, unacked, pendingVars, wlThread, rpc,
                 toDisable, post, sensorVars, countVars, breached>>

(* the references given back for a chunk that could not be written *)
LostReferences ==
  IF FrontBatch.wake > 0 /\ Len(FrontBatch.events) > QueueSize
  THEN Wakes(SubSeq(FrontBatch.events, 1, QueueSize))
  ELSE FrontBatch.wake

(* writeBlocking finds no room for kPendingWriteTimeoutNs: the chunk is lost *)
MutantWriteFails == FALSE               \* it waits without a timeout
WriteFails ==
  /\ writer = "writing"
  /\ Len(fmq) + NumToWrite > QueueSize
  /\ WakelockMutexFree
  /\ Decrement(LostReferences, FALSE)
  /\ breached' = \/ breached
                 \/ /\ threadsRun
                    /\ LostReferences > Wakes(SubSeq(FrontBatch.events, 1, NumToWrite))
  /\ writer' = "written"
  /\ UNCHANGED <<threadsRun, elapsed, scope, queueVars, pendingVars, wlThread, rpc,
                 toDisable, post, sensorVars, countVars>>

(* the written chunk of a long batch is erased, a short batch is popped *)
MutantPopWritten == Tail(pending)
PopWritten ==
  IF Len(FrontBatch.events) > QueueSize
  THEN [pending EXCEPT ![1].events = Drop(@, QueueSize)]
  ELSE Tail(pending)

(* the event mutex is locked again: the chunk leaves the pending queue *)
FinishWrite ==
  /\ writer = "written"
  /\ EventMutexFree
  /\ sizePending' = sizePending - NumToWrite
  /\ pending' = PopWritten
  /\ writer' = "top"
  /\ UNCHANGED <<wakelockVars, queueVars, wlThread, rpc, toDisable, post, sensorVars,
                 countVars, breached>>

Writer == WriterTop \/ WriterPark \/ WriteOk \/ WriteFails \/ FinishWrite
-----------------------------------------------------------------------------
(* mWakelockThread: handleWakelocks *)

WakelockRest == <<queueVars, pendingVars, writer, rpc, toDisable, post, sensorVars,
                  countVars>>

(* The predicate of mWakelockCV is evaluated under mWakelockMutex.  A read   *)
(* lasts for the time left; when none is left, it is untimed: any moment     *)
(* before the timeout may be the last one.                                   *)
WakelockTop ==
  /\ wlThread = "top" /\ threadsRun
  /\ refCount > 0 => ~elapsed
  /\ wlThread' \in IF refCount > 0 THEN {"reading", "untimed"} ELSE {"parking"}
  /\ UNCHANGED <<wakelockVars, WakelockRest, breached>>

WakelockPark ==
  /\ wlThread = "parking"
  /\ wlThread' = "parked"
  /\ UNCHANGED <<wakelockVars, WakelockRest, breached>>

(* sharedWakelockDidTimeout holds *)
WakelockTimeout ==
  /\ wlThread = "top" /\ threadsRun
  /\ refCount > 0 /\ elapsed
  /\ ResetShared
  /\ breached' = (breached \/ InFlight + Acknowledged > 0)
  /\ UNCHANGED <<wlThread, WakelockRest>>

(* readBlocking returns an acknowledgement *)
WakelockRead ==
  /\ wlThread \in {"reading", "untimed"} /\ wakeQueue # <<>>
  /\ wakeQueue' = Tail(wakeQueue)
  /\ Decrement(Head(wakeQueue), FALSE)
  /\ wlThread' = "top"
  /\ UNCHANGED <<threadsRun, elapsed, scope, fmq, unacked, pendingVars, writer, rpc,
                 toDisable, post, sensorVars, countVars, breached>>

(* readBlocking times out, unless it is untimed *)
MutantWakelockWaits == FALSE            \* it waits without a timeout
MutantWakelockReadTimeout ==            \* its result is ignored
  /\ wlThread = "reading" /\ wakeQueue = <<>>
  /\ Decrement(1, FALSE)
  /\ wlThread' = "top"
  /\ UNCHANGED <<threadsRun, elapsed, scope, WakelockRest, breached>>

WakelockReadTimeout ==
  /\ wlThread = "reading" /\ wakeQueue = <<>>
  /\ wlThread' = "top"
  /\ UNCHANGED <<wakelockVars, WakelockRest, breached>>

(* the loop ends *)
WakelockExit ==
  /\ wlThread = "top" /\ ~threadsRun
  /\ ResetShared
  /\ wlThread' = "off"
  /\ UNCHANGED <<WakelockRest, breached>>

WakelockThread == \/ WakelockTop \/ WakelockPark \/ WakelockTimeout
                  \/ WakelockRead \/ WakelockReadTimeout \/ WakelockExit
-----------------------------------------------------------------------------
(* The binder thread: activate() and initialize() *)

(* Sensor::activate takes mRunMutex, which a poster keeps while it posts *)
MutantRunMutexFree(p) == TRUE
RunMutexFree(p) == post[p] \in {"idle", "triggered"}

Activate(p, enable) ==
  /\ rpc = "idle" /\ inits > 0
  /\ RunMutexFree(p)
  /\ enabled[p] # enable
  /\ enabled' = [enabled EXCEPT ![p] = enable]
  /\ UNCHANGED <<wakelockVars, queueVars, pendingVars, writer, wlThread, rpc,
                 toDisable, post, batch, countVars, breached>>

RpcRest == <<pendingVars, post, sensorVars, nextId, begun>>

(* initialize(), stopThreads: mThreadsRun.store(false) *)
StopThreads ==
  /\ rpc = "idle" /\ inits < MaxInits
  /\ threadsRun' = FALSE
  /\ inits' = inits + 1
  /\ rpc' = "drain"
  /\ UNCHANGED <<refCount, held, elapsed, scope, queueVars, writer, wlThread,
                 toDisable, RpcRest, breached>>

(* stopThreads reads the event queue empty and acknowledges 0 events, so    *)
(* that no thread stays blocked on an FMQ                                   *)
DrainQueues ==
  /\ rpc = "drain"
  /\ fmq' = <<>>
  /\ wakeQueue' = IF inits > 1 /\ Len(wakeQueue) < MaxAcks
                  THEN Append(wakeQueue, 0) ELSE wakeQueue
  /\ rpc' = "notifyWakelock"
  /\ UNCHANGED <<wakelockVars, unacked, writer, wlThread, toDisable, RpcRest, inits,
                 breached>>

NotifyWakelock ==
  /\ rpc = "notifyWakelock"
  /\ wlThread' = Woken(wlThread)
  /\ rpc' = "notifyWriter"
  /\ UNCHANGED <<wakelockVars, queueVars, writer, toDisable, RpcRest, inits, breached>>

NotifyWriter ==
  /\ rpc = "notifyWriter"
  /\ writer' = Woken(writer)
  /\ rpc' = "join"
  /\ UNCHANGED <<wakelockVars, queueVars, wlThread, toDisable, RpcRest, inits, breached>>

(* both threads joined; resetSharedWakelock; disableAllSensors begins *)
JoinThreads ==
  /\ rpc = "join"
  /\ writer = "off" /\ wlThread = "off"
  /\ ResetShared
  /\ toDisable' = Posters
  /\ rpc' = "disable"
  /\ UNCHANGED <<queueVars, writer, wlThread, RpcRest, inits, breached>>

DisableSensor(p) ==
  /\ rpc = "disable" /\ p \in toDisable
  /\ RunMutexFree(p)
  /\ enabled' = [enabled EXCEPT ![p] = FALSE]
  /\ toDisable' = toDisable \ {p}
  /\ UNCHANGED <<wakelockVars, queueVars, pendingVars, writer, wlThread, rpc, post,
                 batch, countVars, breached>>

(* the pending queue is cleared and both FMQs are replaced *)
ReplaceQueues ==
  /\ rpc = "disable" /\ toDisable = {}
  /\ pending' = <<>> /\ sizePending' = 0
  /\ fmq' = <<>> /\ wakeQueue' = <<>> /\ unacked' = 0
  /\ breached' = FALSE
  /\ rpc' = "start"
  /\ UNCHANGED <<wakelockVars, writer, wlThread, toDisable, post, sensorVars, countVars>>

StartThreads ==
  /\ rpc = "start"
  /\ threadsRun' = TRUE
  /\ writer' = "top" /\ wlThread' = "top"
  /\ rpc' = "idle"
  /\ UNCHANGED <<refCount, held, elapsed, scope, queueVars, toDisable, RpcRest, inits,
                 breached>>

Initialize == \/ DrainQueues \/ NotifyWakelock \/ NotifyWriter \/ JoinThreads
              \/ (\E p \in Posters : DisableSensor(p))
              \/ ReplaceQueues \/ StartThreads
-----------------------------------------------------------------------------
(* The framework and the clock *)

FrameworkRead ==
  /\ fmq # <<>>
  /\ fmq' = Tail(fmq)
  /\ unacked' = unacked + (IF Head(fmq).wake THEN 1 ELSE 0)
  /\ UNCHANGED <<wakelockVars, wakeQueue, pendingVars, writer, wlThread, rpc,
                 toDisable, post, sensorVars, countVars, breached>>

FrameworkAck ==
  /\ Len(wakeQueue) < MaxAcks
  /\ \E n \in 1..unacked :
       /\ unacked' = unacked - n
       /\ wakeQueue' = Append(wakeQueue, n)
  /\ UNCHANGED <<wakelockVars, fmq, pendingVars, writer, wlThread, rpc, toDisable,
                 post, sensorVars, countVars, breached>>

Tick ==
  /\ TimePasses
  /\ UNCHANGED <<queueVars, pendingVars, writer, wlThread, rpc, toDisable, post,
                 sensorVars, countVars, breached>>

Poster(p) == Begin(p) \/ CheckRunning(p) \/ LockEvents(p) \/ PostEvents(p) \/ Finish(p)

Next ==
  \/ \E p \in Posters : Trigger(p) \/ Poster(p)
  \/ Writer \/ WakelockThread \/ Initialize \/ StopThreads
  \/ \E p \in Posters, enable \in BOOLEAN : Activate(p, enable)
  \/ FrameworkRead \/ FrameworkAck \/ Tick

(* Threads that can run do run, and time passes.  Nothing is assumed of the *)
(* framework, of the sensors and of the calls of the binder thread; a       *)
(* poster finishes what it began.  A read without a timeout may never end.  *)
Fairness ==
  /\ WF_vars(Writer) /\ WF_vars(WakelockThread) /\ WF_vars(Initialize) /\ WF_vars(Tick)
  /\ \A p \in Posters :
       WF_vars(CheckRunning(p) \/ LockEvents(p) \/ PostEvents(p) \/ Finish(p))

Spec == Init /\ [][Next]_vars
FairSpec == Spec /\ Fairness
=============================================================================
