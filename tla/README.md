# TLA+ models of the Phone (2) device tree

This directory models the programs of the device tree `android_device_nothing_phone2`
that have state and concurrency: first of all the multi-HAL proxy of the sensors
service, through which every sensor event and the wake lock of the device pass.

Modules are checked with TLC; the modules whose names end in `_proofs` are checked with TLAPS.
`PROJECT.json` lists the components, the runs, the source lines of every
definition, the hazards and the theorems.

## Inventory

| Component | State | Operations | What is hard | What makes it correct |
| --- | --- | --- | --- | --- |
| HAL proxy, shared wake lock (`sensors/HalProxy.cpp`, `HalProxyCallback.cpp`) | reference count, timeout times, kernel wake lock, scoped wake locks | increment, decrement, reset, acknowledge | references taken and given by five actors; a timeout that resets all; references of an old session | held while a wake-up event is on its way; never held for nothing for ever |
| HAL proxy, event delivery (same files) | event FMQ, pending queue and its size, wake lock FMQ, two threads, `mThreadsRun` | `postEvents`, `handlePendingWrites`, `handleWakelocks`, `initialize` | two ways into the FMQ, a mutex released in the middle of a chunk, condition variables, threads stopped and started again | order, no silent loss, limits, progress, no lost notification |
| HAL proxy, control (same files) | sub-HAL list, sensor list, dynamic sensors, operation mode, direct channel | loading of `hals.conf`, `setOperationMode`, `activate`, `configDirectReport`, `onDynamicSensors(Dis)connected`; `batch`, `flush`, `injectSensorData` and `registerDirectChannel` only forward | libraries that fail to load shift indexes, rollback after a failing sub-HAL, a sub-HAL index in a signed handle, dynamic sensors used from other threads | all sub-HALs in the same mode; a call reaches the sub-HAL and the sensor of its handle; the list names the sensors there are |
| One-shot sensors (`sensors/Sensor.cpp`, `Sensor.h`) | `mIsEnabled`, `mMode`, `mStopThread`, wait pipe, run thread | constructor, `activate`, `setOperationMode`, `run`, destructor | a poll without the mutex, interrupted over a pipe that may fill up; constructor and destructor race with the thread | one event per activation, no missed change, the finger is reported, calls return |
| Sensors sub-HAL (`sensors/SensorsSubHal.cpp`, `SensorsSubHal.h`) | map of sensors, `mCallback`, `mCurrentOperationMode` | constructor, `activate`, `setOperationMode`, `initialize`, `postEvents` | `mCallback` is replaced without a mutex while threads post through it; a call waits for every posting sensor | nobody posts while the callback is replaced; data injection is not disturbed; calls return |
| Fingerprint HAL (`fingerprint/BiometricsFingerprint.cpp`) | client callback, device, HBM and touch driver | RPC calls, `notify` of the vendor thread, `onFingerDown/Up` | two threads without a common mutex; messages that arrive while the constructor is in `openHal`; codes at the edges of their ranges; a process that dies with the light on | light and touch sensor agree, and are on only for a finger; no message meets a null device or a replaced client; errors can be told apart |
| Dirac effect (`ParanoidDiracEffectService`) | the audio effect, callbacks, foreground service | `updateRouting`, `updateVolume`, `release`, boot | callbacks after release, calls that throw, an audio server that dies without telling | the effect follows the route and volume; no effect without the service |
| Feature flags (`nothing-fwk`) | bit set | `isSupport` | mask width | index in range |
| Scripts (`scripts`, `extract-files.py`) | files | sorting and checksum updates | none | same entries, in order |
| Configuration, overlays, init scripts | - | - | - | not programs of this repository |

The components of the sensors service work together like this. The framework's binder
calls arrive one after the other (`service.cpp` configures one RPC thread). A sub-HAL posts
a batch with a `ScopedWakelock`, which counts one reference while the batch is
posted; the proxy counts one more for each wake-up event; the events go to the FMQ or to
the pending queue, which `mPendingWritesThread` empties with blocking writes. The framework reads the FMQ
and writes the number of wake-up events it handled into the wake lock FMQ, from which
`mWakelockThread` takes references back, or takes them all back after
`kWakelockTimeoutNs`. `initialize()` stops both threads, disables all sensors, replaces
the queues and starts everything again.

`HalProxy.h`, `ScopedWakelock`, the FMQ, `libpower` and the framework are not in the
repository; they are modelled from the way the code uses them and marked external.
In particular `ScopedWakelock::mLocked` is taken to be the result of
`incrementRefCountAndMaybeAcquireWakelock`, which returns `false` while the threads are stopped.

## Modules

| Module | Models | State and actions |
| --- | --- | --- |
| `Wakelock` | the members guarded by `mWakelockMutex` | operators `Increment`, `Decrement`, `ResetShared`, `CreateScope`, `DestroyScope`, named for the functions they stand for; no next-state relation |
| `SharedWakelock` | the promise of the wake lock by counts only; the abstract specification | `inFlight` wake-up events, `acks` acknowledged but not processed; an action per operation on the count |
| `TimedWakelock` | the wake lock with the clock readings the code compares; implements `SharedWakelock` | `startTime`, `resetTime`, `createdAt` and the `deadline` of the blocking read of `handleWakelocks`; the actions of `SharedWakelock` decided by these times, `BeginRead`, `ReadAck`, `ReadEnds`, and `Advance` for the clock; `lag` and `Schedule` bound how long the wake lock thread is kept from running |
| `SharedWakelock_proofs` | theorems about `SharedWakelock` and `TimedWakelock` | |
| `EventDelivery` | threads, queues and `initialize()` of the proxy | a program counter per thread (`post`, `writer`, `wlThread`, `rpc`); an action per stretch of code between two points where another thread can interfere; `postEvents` takes its two mutexes in two steps (`LockEvents`, `PostEvents`) |
| `EventDeliveryProperties` | the properties of `EventDelivery` and its refinement mapping to `SharedWakelock` | |
| `EventQueues_proofs` | lemmas about queues of events, for values and not for states: counting, splitting, order | |
| `EventDelivery_proofs` | theorems about `EventDelivery`, and the refinement of `SharedWakelock` | |
| `SensorContract` | what a sensor promises its sub-HAL: the abstract specification of a sensor | `phase` (resting, watching, posting) beside the members `enabled` and `mode`, and `call`, the write to the wait pipe that is under way; an action per kind of step. `Return` of that write is not promised |
| `OneShotSensor` | `UdfpsSensor` and `SingleTapSensor`, which differ in the file they poll and its format (`class`) | a program counter for the run thread and one for the binder thread; implements `SensorContract`, in which `Phase` is what its owner can tell of the run thread |
| `OneShotSensor_proofs` | theorems about `OneShotSensor`, and the safety part of the refinement of `SensorContract` | |
| `SensorsSubHal` | `SensorsSubHal` over any number of sensors | every sensor is an instance of `SensorContract`; the binder thread walks over the map one sensor per step, and goes on when that sensor's call returned |
| `SensorsSubHal_proofs` | theorems about `SensorsSubHal` | |
| `SensorHandle` | sensor handles as signed integers of any width: `IndexSize` values of the index times `LocalSize` local handles | operators `SetSubHalIndex`, `ExtractSubHalIndex`, `ClearSubHalIndex`, named for the functions |
| `ProxyControl` | the proxy's sub-HAL list, sensor list, forwarded calls, operation mode, direct channel, dynamic sensors | what the proxy keeps, what each sub-HAL really does (`subMode`, `enabled`, `reports`, `attached`), what the framework believes (`known`, `wanted`); a sub-HAL goes by its library, and `Index` is its place among those that could be loaded; one action per binder call, one per statement of `initialize()` about dynamic sensors, two per dynamic callback (under the mutex, after it) |
| `ProxyControl_proofs` | theorems about `SensorHandle` and `ProxyControl` | |
| `Fingerprint` | `BiometricsFingerprint`, and the life of its process | `binder` and `notify`, the places of its two threads; an action per stretch between two writes the other thread can see |
| `Fingerprint_proofs` | theorems about `Fingerprint` | |
| `DiracEffect` | `DiracService` and `DiracHelper` | a helper per start of the service; an action per entry point on the main thread, and the audio system |
| `DiracEffect_proofs` | theorems about `DiracEffect` | |
| `MCTimedWakelock`, `MCEventDelivery`, `MCProxyControl`, `MCFingerprint` | instances for TLC | |

Composition: `SharedWakelock` and `EventDelivery` extend `Wakelock`; `TimedWakelock` extends `SharedWakelock`;
`EventDeliveryProperties` instantiates `SharedWakelock` with the events of its queues counted. The
posters in `OneShot` of `EventDelivery` are the run loops that `OneShotSensor` models in detail:
`Trigger` is the return of `poll()`, `Begin` the moment the mutex is locked again.
`SensorsSubHal` composes sensors that keep `SensorContract`, which `OneShotSensor` is shown to implement, so that what holds of
the sub-HAL rests on the code of the sensors and not on a guess about them. `ProxyControl` extends `SensorHandle`; it and
`EventDelivery` model the same `initialize()` from two sides, which share no variable but the sensors that are enabled.

Abstractions:

- An event is its kind (`wake`, `plain`, or the filtered `nopick`) and the number of its
  acceptance. Payloads, handles and time stamps do not influence the delivery.
- The size of the pending queue and the numbers of wake-up events on their way are sums over queues. `EventDelivery` states them as
  cardinalities of sets of pairs (`Total`), because a sum by recursion cannot be reasoned about here; `ProcessEvents`, the loop over
  a batch, is a recursive function, about which induction over its length is possible. `MaxEvents` bounds a batch: it is what the bounds of the refinement, such as the
  largest count a history can reach (`MaxRefs`), are made of.
- Time is what the code compares: `elapsed` for the wake lock timeout, and for a scoped wake lock
  whether it is older than the last reset (`stale`). The clock may pass the timeout at any moment. `TimedWakelock` has the
  readings themselves, keeps `elapsed` and `stale` as history variables that no guard reads, and shows that both decide alike, also when several things happen at
  one reading. It assumes one thing of the clock: it moves between the creation of a scoped wake lock and a reset after the threads were joined.
- In `TimedWakelock` the time left is computed at one reading and the read begins up to `MaxLag` readings later, which prolongs it (`ReadDeadlines`). While the wake lock
  thread can run, it begins the next read within `MaxLag` in all (`Schedule`): that is the delay by the processor and by mutexes.
  A read that begins with no time left has no deadline (`Forever`; `untimed` in `EventDelivery`).
- `Increment` reads `mThreadsRun` in the step that takes `mWakelockMutex`, though the code reads it just before (`HalProxy.cpp:697-698`). A one-shot sensor that
  is delayed just there while `initialize()` runs could count a reference after the reset, which would go with the next timeout like the references that outlive `initialize()`; the model leaves this order out.
- A mutex is free unless a thread is at a place where it keeps it: a poster keeps `mEventQueueWriteMutex` at `holding`, where it waits for `mWakelockMutex`. A wait on a condition variable has two
  steps: the predicate was found false with the mutex held (`parking`), and the thread sleeps (`parked`).
- `writeBlocking` fails only if the FMQ has no room. Sub-HALs finish a post before their
  `activate(false)` returns, as `Sensor::activate` does with `mRunMutex`.
- The sub-HALs' own `initialize` and a failing `createEventFlag` are not part of `StartThreads`.
- Reading the uninitialized `mStopThread` and calling the virtual `run()` from the
  base constructor are choices of `Init` in `OneShotSensor`. So is the class. `readFpState` parses a buffer nobody
  initialized when the file gives no byte: it returns either value then. `stop` may also be set by the constructor (`built` is
  false then), and `behind` says that the wall clock is before the last sample, which only the base class looks at.
- `SensorsSubHal`: `late` holds the sensors that were in `poll()` when a call made them inactive; the code lets each of them post one
  more event, and the properties allow it. A step of a loop over the map waits for that sensor's `mRunMutex` only. Calls for handles
  that are not in the map return early.
- `ProxyControl`: a binder call to the sub-HALs is one step, as the binder thread makes one call at a time and the sub-HALs' own
  threads only touch dynamic sensors. A sub-HAL loses the direct reports and the mode of the old session when it is initialized,
  as the code expects of it, and its other state stays until it is changed. The integers of `SensorHandle` have the width the constants give; a shift is
  a multiplication, an or of a clear index an addition. The sensor list of a sub-HAL is a set: nothing in the proxy depends on its order,
  because the direct channel sub-HAL is the first with flags whichever of its sensors comes first. The framework checks the direct flags of a sensor before
  it starts or stops a report; without that check a stop for a sensor without flags would stop the sensor of the direct channel sub-HAL with the same local handle.
- `ProxyControl` has three history variables. `misdirected` holds the local handles of direct reports that were asked of a dynamic sensor and went to
  another sub-HAL. `astray` holds the sub-HALs that refused the rollback of a mode or were not reached by a failing `initialize()`:
  the code does not order them again, so nothing is promised of them. `raced` is set when a dynamic callback that already updated the map
  overlaps `clear()` or the replacement of the callback in `initialize()`; both happen without `mDynamicSensorsMutex`, and the framework and the map may then
  disagree for the rest of the run.
- `Fingerprint`: the vendor HAL sends one message at a time from one thread, as the hardware API asks. `overlapped` is set while the writes of a thread that switches on
  and of one that switches off are mixed; then light and sensor may disagree until the next switch. The framework calls finger
  functions only on a device it got from `setNotify` and while it is registered. `Die` ends the process at any step: init starts it again with
  an empty object, while the light stays as it is and the touch sensor stays or is reset by the vendor's library. `died` is set until the light is switched again;
  `finger` says whether `onFingerDown` was the framework's last word, and `answer` holds the last error of the device and the status it was translated to. An errno is its number.
- `DiracEffect`: `updateRouting` is one step, since all entry points run on the main thread; a call that throws in its middle is the
  branch `GiveUp`, which releases whatever was set up. An effect whose audio server died throws at the first call. `since` counts updates since the last trouble.
  The volume is the code's quotient times a common denominator.

The variable `breached` records that references were taken from an event that still needed them:
the timeout reset with events outstanding; a failed write that gives more references back than it lost
wake-up events (`WriteFails`: the count of the whole batch is used although part of it was written before);
wake-up events posted under an unlocked object or with the threads stopped. It is
cleared by `initialize()`. The promise of the wake lock is a promise while `breached` is false.

## Runs

| Run | Bounds | Shows |
| --- | --- | --- |
| `shared_wakelock` | 2 posters, batches of 1 and 2 wake-up events, 2 references, a timeout of 2, a delay of 1, clock readings 0 to 5 | the promises of the wake lock, that deciding by the clock is what `SharedWakelock` says, and that the lock is given back in time (`ReleasedInTime`); two posters interleave, a batch with two events is enough for partial losses and acknowledgements; with these times a reset can happen after a read began at each amount of time left, and objects are created before, at and after the reading of the reset |
| `event_delivery` | a vendor's poster and a one-shot sensor, 2 batches of 1 or 2 events, FMQ of 1, pending limit 2, 1 acknowledgement, 2 calls of `initialize()` | order, accounting, notifications, losses; batches are longer than the FMQ, are split, chunked and dropped at the limit, and the second `initialize()` meets every state of the threads; every step is a step of `SharedWakelock` or leaves its counts alone |
| `event_delivery_liveness` | a vendor's poster, the same queues, 2 calls of `initialize()` | posters finish, the pending queue drains, the wake lock is released; the second `initialize()` meets a poster at every place of a post, with references that outlive it, and a read without a timeout |
| `one_shot_sensor` | 4 calls, 2 touches, a pipe of 2 bytes, any poll may fail, both classes, any outcome of the constructor | the interrupt protocol and `SensorContract`; four calls let a second activation overtake the end of the first, and more calls than bytes fill the pipe, so that a call blocks in it |
| `sensors_sub_hal` | 2 sensors, no other bound | the callback, data injection, calls that wait for a posting sensor or for the pipe; with two sensors one can post while the loop is at the other |
| `proxy_control` | any subset of the 2 libraries of `hals.conf` loads, four static sensors with local handles that are equal across the sub-HALs, handles of 2 + 2 bits, one static and one dynamic handle with index bits already set, two dynamic sensors that come together, one of them with direct flags and the local handle of a static one, negative handles from the framework, 2 calls of `initialize()` | loading, modes, enabling, dynamic sensors and direct reports; two sub-HALs are enough for a rollback and for an index that is not the place in `hals.conf`, and 2 index bits for an index with the sign bit set |
| `fingerprint` | 1 client, 2 messages with codes next to each boundary, 4 calls, 3 answers of the device, 1 death | the null device, the client, both switches, translation of errors and answers; two messages let one be handled in each phase of the constructor and of the binder calls, and four calls are a registration, a finger, its end and one more |
| `dirac_effect` | volumes 0 to 5, 3 starts, 4 changes, 2 troubles | late callbacks of two released helpers, both sides of the pivot, a second failure while the first is being repaired |
| `initialize_hangs` | 1 poster, 2 calls of `initialize()` | finding 1 |
| `wake_event_unlocked` | 1 one-shot poster, 1 batch, 2 calls | finding 2 |
| `pick_up_locked` | 1 poster, 1 batch | finding 3 |
| `ghost_sensor` | as `proxy_control`, 1 call of `initialize()` | finding 4 |

`shared_wakelock` uses the symmetry of the posters, which no property tells apart. Deadlock is not checked where
the bounds on batches, calls and touches end the behaviours.

Fairness. `EventDelivery` assumes that each thread that can take a step takes one, that a poster finishes what it
began, that `initialize()` goes on once called, and that time passes. Nothing is assumed of the framework: it may never
read and never acknowledge. A read without a timeout (`untimed`) has no step that ends it but an acknowledgement or `stopThreads`, so fairness does not end it.
`OneShotSensor` assumes the run thread and the binder thread go on; a write to a full pipe is no step. `SensorsSubHal` assumes that a call that began
goes on and an event that is being posted gets posted (which `SensorContract` promises and `OneShotSensor` implements), but not that the pipe takes the byte (`Return`), `Fingerprint` that a thread that
began a call or a message goes on; `ProxyControl` and `DiracEffect` have safety properties only and assume nothing. The scheduler
of the system and the finite timeouts of the blocking calls justify this, and where a call has no timeout there is no fairness: `WakelockReleased`
and `CallsReturn` name the calls that may never return, and promise the rest. Weak fairness is enough: no thread waits for
a mutex that others take again and again for ever, because the batches are bounded; `WakelockReleased` is
therefore a statement about sensors that fall silent. A stream of wake-up events refreshes the timeout with every event and may
hold the lock for as long as it lasts.

## Findings

1. `stopThreads` notifies without the mutexes (`HalProxy.cpp:537,549-550`). A thread that has evaluated its predicate and
   is about to sleep misses the notification, and `initialize()` joins it for ever (`initialize_hangs`).
2. `UdfpsSensor::run` does not check `mIsEnabled` after `poll()` (`Sensor.cpp:325`). Its event passes `disableAllSensors`, and may be
   posted after `initialize()` with a scoped wake lock created before: an unlocked wake-up event (`wake_event_unlocked`).
3. The `PICK_UP_GESTURE` filter (`HalProxyCallback.cpp:73`) leaves a locked batch without wake-up events, against the
   assertion below it (`pick_up_locked`).
4. `countNumWakeupEvents` looks up flags with `mSensors[sensorHandle]` (`HalProxy.cpp:754`). For a dynamic sensor this inserts an empty
   sensor, which `getSensorsList` gives to the framework with handle 0, and which `debug` counts among the non-dynamic sensors (`ghost_sensor`).

Weaknesses that contradict no statement of the repository are guards of the properties, and so documented by them: the destructor of a one-shot
sensor interrupts the poll before it sets `mStopThread`, and its join does not return when the thread used the interrupt up in between
(`DestructorReturns`); dynamic sensors keep their direct flags, and a direct report for one may reach a sensor of another
sub-HAL (`DirectReportsReachOwner`); the light stays on when the process dies (`LightNeedsFinger`); a constructor that cannot
open its file may leave its thread asleep with `mStopThread` set (`ChangeNeverMissed`); a blocking read that begins when exactly `kWakelockTimeoutNs` passed
has no time left, which `readBlocking` takes for no timeout, and lasts until the framework or `stopThreads` writes
(`Forever` in `ReleasedInTime`, `untimed` in `WakelockReleased`); a call blocks in a full wait pipe that nobody reads, `activate` with `mRunMutex` held
(`ModeChangeReturns`, `CallsReturn`). The hazards of `PROJECT.json` say which of them a property only exempts, and none is listed as covering such a case.

## Proofs

The proofs hold for every value of the constants that the named assumptions allow: the posters are a finite set, the bounds and sizes are
natural numbers (a queue or a pipe has at least one place), a batch is a sequence of events, a message is one the vendor HAL may send, and the volume range has
a pivot. Of the sub-HALs they ask that a sub-HAL names no two sensors alike, static or dynamic, and no dynamic one 0, as it numbers its sensors from 1 (`SensorsSubHal.cpp:35`); of the framework, that it
uses no handle of a dynamic sensor it was never told of (`SensorsAreNumbered`); and that there are no more libraries than a positive handle has indexes for (`HandlesHaveRoom`: 128 for the code's 8 bits). TLC evaluates these assumptions on every run.

`SharedWakelock_proofs` proves for every finite set of posters, every set of batch sizes and every bound:

- `TypeCorrect`: the count is a natural number, although it is decremented from many places;
- `ClaimsCounted`: the count covers the locked objects, the events on their way and the acknowledgements not processed (`CountCoversClaims`);
- `ReferencesHold`: a reference has the kernel wake lock (`HeldWhileReferenced`; the run repeats only the promise that follows from these three);
- `Protected`: a wake-up event on its way has the wake lock, which follows from the two before;
- `NeverForgotten`: the lock is not held without a reference, if no batch without wake-up events is posted under a locked object.

The inductive invariant `IInv` is `TypeOK /\ CountCoversClaims /\ HeldWhileReferenced`. `WakeEventsProtected` is not inductive: an event
could keep the lock with no reference of its own until somebody else's decrement releases it; the count is needed.
`CountStep` goes through the actions; the number of locked objects changes by one in `CreateScoped` and `DestroyScoped` and
becomes 0 in a reset, which are lemmas about finite sets.

Of `TimedWakelock` it proves, for every timeout:

- `TimesImplement`: it implements `SharedWakelock`, so that nothing is lost by abstracting from the time. The invariant `TimesInv` (`TimesInvariant`) relates the readings to what
  `SharedWakelock` keeps of them: `elapsed` is a comparison of readings while a reference is counted (`ElapsedAgrees`), and a locked object was created between the last reset and the last increment, a stale one before the
  reset (`ScopesAgree`). That a timeout reset is later than every object it outdates, though `decrementRefCountAndMaybeReleaseWakelock` compares with `<`, holds because more than `kWakelockTimeoutNs` passed since the last of
  them was created; an object created at the reading of the reset itself is not outdated. `TimedStepIsStep` then maps the steps: `Expire` to `TimeoutReset`, `ReadAck` to `ProcessAck`, `Advance` to `Tick` or a stutter, `BeginRead` and `ReadEnds` to stutters;
- `LockReleasedInTime`: `ReleasedInTime`, from the invariant `LagInv`. The start time moves on while a read uses the time left it computed before, so the property is not inductive: it needs that
  a deadline is at most `Timeout + MaxLag` after a start time that never goes back, that the thread is late by at most `lag` after its deadline (`ReadLag`), and that between two reads it is late
  by what the last read was and by `lag` (`WaitLag`). `QuietSteps` disposes of the posters and the framework, which change neither the clock nor the read;
- `PromisesWithClock`: by the refinement the promises proved of `SharedWakelock` hold with the clock.

`EventDelivery_proofs` proves all safety properties of `EventDelivery` that the runs check, for any posters, batches, sizes and limits, and that it implements `SharedWakelock`. The inductive
invariant `DeliveryInv` (`DeliveryInvariant`) has five parts, each of which needs those before it:

- `QueueInv`: types and accounting (`TypesCorrect`, `PendingAccounted`). `sizePending` is only right because the writer, which looked at the front of the queue
  before it released the mutex, finds the same front when it locks it again: others append, and `initialize()` clears the queue only after the join;
- `SleepInv`: a thread at `parking` or `parked` has nothing to do, whether or not the threads run (`NotificationsKept`);
- `RestartInv`: what has stopped and who is silent at each stage of `initialize()` (`QueuesUnshared`);
- `ScopeInv`: what the scoped wake lock of a poster is worth (`WakeEventsUnderLock`). A poster that is not one-shot cannot straddle `initialize()`, which
  `RestartInv` says; a one-shot sensor can, which is finding 2;
- `OrderInv`: the FMQ and what waits behind it are in order of acceptance (`EventsInOrder`). While the writer is at `written`, the chunk at the front is in both, and counts once.

`EventsNeverSilentlyLost` is the action property `NeverSilentlyLost`, from the same invariant.

`SharedWakelockImplemented` is the refinement `ImplementsSharedWakelock`. The initial states map to initial states, and a step maps to a step or a stutter:

| `EventDelivery` | `SharedWakelock` |
| --- | --- |
| `Begin`, `Finish` | `CreateScoped`, `DestroyScoped` |
| `PostEvents` | `Post`, of the wake-up events that stay and those that are dropped at the limit, or a stutter when the batch has no sensor that needs the lock |
| `WriteFails`, `DrainQueues` | `Lose`, with and without the references of the events that go |
| `FrameworkAck`, `WakelockRead` | `Acknowledge`, `ProcessAck`, or a stutter for the acknowledgement of nothing that `DrainQueues` wrote |
| `WakelockTimeout`, `WakelockExit`, `JoinThreads` | `TimeoutReset`, `StoppedReset` |
| `StopThreads`, `ReplaceQueues`, `StartThreads`, `Tick` | `Stop` (the first time a stutter), `ClearSession`, `Start`, `Tick` |
| all others, `LockEvents` among them | stutter: they leave alone what `InFlight` counts, or move events between its places |

The lemmas named `Counts...` say what each step does to `InFlight` and `Acknowledged`. `SharedWakelock` bounds what it counts, so the proof needs that
the detailed model never passes the bound: `BoundInv` and `WakeInv` (`BoundsInvariant`), in which each batch begun stands for one reference of its object
and `MaxEvents` of its events. By `DeviceStaysAwake` the theorem `Protected` then holds of the events in the queues themselves.

`EventQueues_proofs` holds the lemmas on values that these proofs share: how `Total` and `Wakes` change when a queue grows, shrinks or is split, what
`ProcessEvents` keeps, and when queues are in order. `SetInduction` is induction over the natural numbers for a set, derived from the
well-foundedness of `<`; it carries the lemma about the recursive function in `ProcessEvents`.

`OneShotSensor_proofs` proves for every pipe size and every number of calls and touches, for both classes, both outcomes of the constructor and both `run()`:

- `TypeCorrect`: the pipe never holds more than its size, and no byte is read from an empty one;
- `OneReportPerActivation`: `OneEventPerActivation`. It is not inductive: a sensor that is disabled while it polls may still post, so the activation that
  let it poll is owed until the thread leaves the poll (`Owed`);
- `NoChangeMissed`: `ChangeNeverMissed`. A thread that polls has a pipe, and takes a byte only if `poll()` reported one (`PollInv`), so a byte written after a change
  stays until the thread sees it; `Born` says what cannot happen before the constructor returned;
- `ContractKept`: every step is a step of `SensorContract` or a stutter, which is `ImplementsContract` without the fairness of `Posted`.
  `RunLoop` is `Watch`, `Sample` or a stutter, `HandlePoll` is `Report` or `Rest`, `PostEvent` is `Posted`, `FinishActivate` and
  `InterruptPoll` are `Return`, `StopThread` is `Destroy`. It needs that the run thread is not between its mutex operations while `activate` keeps the mutex for the pipe (`Exclusive`).

`SensorsSubHal_proofs` proves for any number of sensors, of either class:

- `CallbackSafe`: `CallbackReplacedAlone`, from the invariant `QInv`. Before the first session every sensor is disabled and at rest; a sensor
  that the loop of `disableAllSensors` has passed is disabled, and is at rest or late;
- `InjectionSafe`: `InjectionUndisturbed`, from the invariant `MInv`: a sensor that the loop of `setOperationMode(DATA_INJECTION)` has passed is in that mode, and is at rest or late.

Neither property is inductive, because nothing in it keeps a resting sensor from starting to watch: the invariants say why it cannot.
The type invariant `TypeInv` is proved on the way. Both need no assumption on the constant; they rest on the safety part of `SensorContract`, which
`ContractKept` proves of the code of a sensor.

`Fingerprint_proofs` proves for every set of clients and messages, and for every bound:

- `ClientFollowsDevice`: the inductive invariant `CInv` of the client callback. That a message is handled only with an open device does not follow from
  the null check alone: it needs that the constructor ended before anybody registered, and that a vendor HAL which sends messages
  accepted the callback, so that `openHal` returned the device;
- `DeviceNeverNull` and `ClientStays`, its consequences for `NullDeviceUnused` and for `ClientStaysRegistered`, which no run repeats;
- `LightAgrees`: `LightAgreesWithSensor` from the inductive `LInv`, which says for each place of the two threads which of the two switches is already written;
- `LightOnlyForFinger`: `LightNeedsFinger` from the inductive `FInv`, which says at which places of the binder thread the light may still be on for a finger that went;
- `TypeCorrect` and `ErrorsToldApart`: `TypeOK` and `ErrorsTellable` from the inductive `MInv`: between the callback and the light the client was told the translation of
  the message that is being handled. The lemmas `ToldFits`, `ErrorToldApart` and `OkMeansOk` say of the translations what the run checks at the boundaries, for all integers.

`DiracEffect_proofs` proves for every volume range, every number of starts, changes and troubles:

- `EffectOwned`: `OnlyRunningServiceHasEffect`, and `EffectFollows`: `EffectFollowsRoute`;
- `TypeCorrect`: `TypeOK`. The normalized volume stays in the range of the effect, by arithmetic on the quotient of the code (`NormalizedInRange`).

The inductive invariant `DiracInv` adds for each helper what it knows of its effect (`HelperInv`): `isEffectEnabled` is null exactly without an effect and agrees with an effect that is alive; an effect
that died was not updated since; a helper before its start is untouched, and every helper but the current one is released.

`ProxyControl_proofs` proves for any libraries, any subset of them that loads, any sensors, static and dynamic, any number of calls of `initialize()`, and any width of the two parts of a handle:

- `HandleGivesBack` and `HandleIsMadeOf`: a handle and the pair of its index and its local handle determine each other, in signed arithmetic of the width of `int32_t`, and a
  negative handle never has a valid index. `NamesAreRight` carries this to sub-HALs: a handle that the proxy made leads to the sub-HAL it was made for;
- `ModesKept`: `ModesAgree`, for any number of sub-HALs, failures and refused rollbacks;
- `ActiveAsAsked`: `EnabledAsAsked`, `DynamicSensorsKept`: `DynamicSensorsAgree`, and `ReportsReachOwner`: `DirectReportsReachOwner`;
- `TypeCorrect`: `TypeOK`.

None of them is inductive. The inductive invariant `ControlInv` (`ControlInvariant`) has a part for each piece of state and says how they hang together:
`SensorInv` that the list holds every static sensor under its own handle, besides the empty entries of finding 4, and that a direct flag belongs to the direct channel sub-HAL; `CallInv` that what a
sub-HAL announces in a callback is attached, or was detached, until it returns; `DynamicInv` that the framework and `mDynamicSensors` differ by exactly what a callback that updated the map still
has to tell (`KnownOrTold`); `EnableInv` that a wanted sensor is static, in the map, or about to be reported as gone, so that the next `initialize()` finds every active
sensor in the list or in the map and disables it: between the sessions the invariant follows the sensors through each statement of `initialize()`. It holds while no callback overlapped
`clear()` (`raced`), which is where the code gives no guarantee. `ReportInv` needs `misdirected` in the same way. TLC checked `ControlInv` on the instance of `proxy_control` before it was proved; this made
`EnabledAsAsked` an equation that holds in callbacks too.

Every safety and action property that a run checks is proved. Out of the prover's reach: the liveness properties (`PostersFinish`, `PendingDrains`, `WakelockReleased`, `FingerReported`, `DisableTakesEffect`,
`ModeChangeReturns`, `DestructorReturns`, `CallsReturn`, `LightGoesOff`) and the fairness of `Posted` in `ImplementsContract`, which need `ENABLED`.

## Plan

1. Done: `Wakelock`, `SharedWakelock` with proofs, `EventDelivery` and its refinement, `OneShotSensor`.
2. Done: `SensorHandle` and `ProxyControl`, `Fingerprint` with proofs, `DiracEffect`.
3. Done: `SensorContract` with `OneShotSensor` as its implementation and `SensorsSubHal` on top of it; loading of the libraries and direct reports
   of dynamic sensors in `ProxyControl`; requests, cancellation and the death of the process in `Fingerprint`.
4. Done: proofs about `SensorsSubHal` for any number of sensors; every safety property of `EventDelivery` and its refinement of `SharedWakelock`;
   the safety properties of `OneShotSensor` with the safety part of its refinement of `SensorContract`, those of `DiracEffect` and the rest of those of `Fingerprint`.
5. Done: lemmas about `SensorHandle` for all widths and every invariant of `ProxyControl` for any libraries and sensors.
6. Done: `TimedWakelock`, with the proof that the time abstraction of `SharedWakelock` is sound; leaves that took the provers long have a time limit of their own or were split.
7. Done: the lateness of the wake lock thread in `TimedWakelock`, the two mutexes of `postEvents` and reads without a timeout in `EventDelivery`, the blocking pipe in `SensorContract`.
8. Open: a smaller `ControlInv` where parts of it can be derived.

## Not modelled

Feature flags (`NtFeaturesUtils`: a look-up in a constant bit set) and the blob list scripts (sequential rewriting of text files by a developer): neither
has state or an order of steps to get wrong, and a model of them would repeat their string handling. Calls that change nothing:
`batch`, `flush`, `injectSensorData` and `registerDirectChannel` of the proxy and the sub-HAL, `preEnroll`, `getAuthenticatorId` and `isUdfps` of the fingerprint HAL.
`Sensor::flush`, `Sensor::batch` and `Sensor::injectEvent` post or change something only for sensors that are not one-shot or take data injection, of which the
sub-HAL has none. Vendor sub-HALs and the framework beyond the use the code makes of them; dumps (`debug`), `service.cpp` files (registration
only), `UdfpsExtension.cpp` (constants), init scripts, configuration files and overlays (data for programs that are not here).
