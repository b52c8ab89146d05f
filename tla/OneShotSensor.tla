---------------------------- MODULE OneShotSensor ----------------------------
(***************************************************************************)
(* One sensor of the sub-HAL sensors.nothing.so (src/sensors/Sensor.cpp):  *)
(* an UdfpsSensor or a SingleTapSensor.  The code of the two is the same   *)
(* but for the file they poll and the function that reads it.              *)
(*                                                                         *)
(* Its run thread sleeps on mWaitCV while the sensor is disabled, polls    *)
(* the sysfs file of the fingerprint area and the wait pipe while it is    *)
(* enabled, and posts one event.  The binder thread constructs it, enables *)
(* and disables it, changes its mode, and destroys it when the process     *)
(* ends.                                                                   *)
(*                                                                         *)
(* The thread is started by the constructor of the base class, before the  *)
(* derived object exists and with mStopThread uninitialized: which run()   *)
(* it calls and whether it stops at once is a choice of Init.              *)
(*                                                                         *)
(* batch, flush and injectEvent change nothing here: the first two are     *)
(* overridden by OneShotSensor, and its sensors take no data injection.    *)
(***************************************************************************)
EXTENDS Naturals

CONSTANTS
  PipeSize,     \* bytes the wait pipe takes before a write blocks
  MaxCalls,     \* bound: calls of activate and setOperationMode
  MaxTouches    \* bound: changes of the fingerprint area

ASSUME BoundsAreNat == PipeSize \in Nat \ {0} /\ MaxCalls \in Nat /\ MaxTouches \in Nat

VARIABLES
  \* the object
  class,        \* "UdfpsSensor" or "SingleTapSensor"
  enabled,      \* mIsEnabled
  mode,         \* mMode
  stop,         \* mStopThread
  wired,        \* is there a wait pipe?
  pipe,         \* bytes in mWaitPipeFd
  \* the run thread
  oneShot,      \* did it enter the run() of the derived class, or that of Sensor?
  run,          \* its place in the loop
  revents,      \* what the last poll() reported
  behind,       \* is the time of day before mLastSampleTimeNs?
  \* the binder thread
  binder,
  calls,
  \* the fingerprint area
  file,         \* what the sysfs file holds
  notified,     \* was the sysfs file notified since it was last read?
  touches,
  \* history
  built,        \* did the constructor open all it needs?
  activations,  \* activate(true) calls that enabled the sensor
  posts         \* events posted

objectVars == <<class, enabled, mode, stop, wired, pipe>>
runVars    == <<oneShot, run, revents, behind>>
binderVars == <<binder, calls>>
fingerVars == <<file, notified, touches>>
history    == <<built, activations, posts>>
vars == <<objectVars, runVars, binderVars, fingerVars, history>>

Modes == {"NORMAL", "DATA_INJECTION"}
Classes == {"UdfpsSensor", "SingleTapSensor"}
Contents == {"finger", "none", "nothing to read"}

NoEvents == [pipe |-> FALSE, fp |-> FALSE, failed |-> FALSE]

Init ==
  /\ class \in Classes
  /\ enabled = FALSE /\ mode = "NORMAL" /\ wired = FALSE /\ pipe = 0
  /\ stop \in BOOLEAN /\ oneShot \in BOOLEAN
  /\ run = "locked" /\ revents = NoEvents /\ behind = FALSE
  /\ binder = "constructing" /\ calls = 0
  /\ file \in Contents /\ notified = FALSE /\ touches = 0
  /\ built = FALSE /\ activations = 0 /\ posts = 0

(* mRunMutex: the run thread keeps it but while it polls or waits, activate *)
(* keeps it while it writes to the pipe                                     *)
MutantRunMutexFree == binder # "activating"     \* the thread posts without it
RunMutexFree == run \notin {"locked", "posting"} /\ binder # "activating"

Active == enabled /\ mode = "NORMAL"

MutantNotified == run                   \* mWaitCV is not notified
Notified == IF run = "waiting" THEN "woken" ELSE run
-----------------------------------------------------------------------------
(* What the sysfs file tells *)

(* a file without a byte is no touch *)
readBool == {file = "finger"}

(* sscanf parses the uninitialized buffer when read gave no byte *)
readFpState == IF file = "nothing to read" THEN BOOLEAN ELSE {file = "finger"}

FingerRead == IF class = "UdfpsSensor" THEN readFpState ELSE readBool
-----------------------------------------------------------------------------
(* The run thread *)

(* the head of the loop of run(): stop, wait, or go on; the base class      *)
(* samples when the time of day has reached the end of the period, which is *)
(* 0 as these sensors never set it                                          *)
RunLoop ==
  /\ run = "locked"
  /\ run' = CASE stop                         -> "exited"
              [] ~stop /\ ~Active             -> "waiting"
              [] ~stop /\ Active /\ oneShot   -> "polling"
              [] ~stop /\ Active /\ ~oneShot  -> IF behind THEN "sleeping" ELSE "posting"
  /\ UNCHANGED <<objectVars, oneShot, revents, behind, binderVars, fingerVars, history>>

(* the wait returns when its predicate holds *)
Wake ==
  /\ run = "woken" /\ RunMutexFree
  /\ run' = IF Active \/ stop THEN "locked" ELSE "waiting"
  /\ UNCHANGED <<objectVars, oneShot, revents, behind, binderVars, fingerVars, history>>

(* wait_for of Sensor::run has no predicate *)
SleepEnds ==
  /\ run = "sleeping" /\ RunMutexFree
  /\ run' = "locked"
  /\ UNCHANGED <<objectVars, oneShot, revents, behind, binderVars, fingerVars, history>>

(* poll() returns, mRunMutex is not held *)
PollReturns ==
  /\ run = "polling"
  /\ pipe > 0 \/ notified
  /\ revents' = [pipe |-> pipe > 0, fp |-> notified, failed |-> FALSE]
  /\ run' = "polled"
  /\ UNCHANGED <<objectVars, oneShot, behind, binderVars, fingerVars, history>>

PollFails ==
  /\ run = "polling"
  /\ revents' = [NoEvents EXCEPT !.failed = TRUE]
  /\ run' = "polled"
  /\ UNCHANGED <<objectVars, oneShot, behind, binderVars, fingerVars, history>>

(* one byte of the pipe is read when poll() reported it *)
MutantPipeRead == pipe - 1              \* it is read without a look at revents
MutantPipeUnread == pipe
PipeRead == IF revents.pipe THEN pipe - 1 ELSE pipe

(* the finger is taken: the sensor disables itself and posts *)
MutantTakeFinger == run' = "posting" /\ UNCHANGED <<pipe, enabled>>
TakeFinger == run' = "posting" /\ enabled' = FALSE /\ UNCHANGED pipe

(* mRunMutex is locked again and the result is handled: an error ends the   *)
(* loop, a finger is posted whatever happened to mIsEnabled meanwhile, and  *)
(* only otherwise one byte of the pipe is read                              *)
HandlePoll ==
  /\ run = "polled" /\ RunMutexFree
  /\ stop' = (stop \/ revents.failed)
  /\ notified' = (notified /\ ~revents.fp)
  /\ \E finger \in FingerRead :
       IF revents.fp /\ finger
       THEN TakeFinger
       ELSE /\ pipe' = PipeRead
            /\ run' = "locked"
            /\ UNCHANGED enabled
  /\ revents' = NoEvents
  /\ UNCHANGED <<class, mode, wired, oneShot, behind, binderVars, file, touches, history>>

(* mCallback->postEvents with mRunMutex held; the history stops counting    *)
(* above MaxCalls                                                           *)
PostEvent ==
  /\ run = "posting"
  /\ posts' = IF posts > MaxCalls THEN posts ELSE posts + 1
  /\ run' = IF oneShot THEN "locked" ELSE "sleeping"
  /\ UNCHANGED <<objectVars, oneShot, revents, behind, binderVars, fingerVars, built,
                 activations>>

Run == RunLoop \/ Wake \/ SleepEnds \/ PollReturns \/ HandlePoll \/ PostEvent
-----------------------------------------------------------------------------
(* The binder thread *)

(* the constructor of the derived class; when the pipe or the file cannot   *)
(* be opened it sets mStopThread, without a notification                    *)
Construct ==
  /\ binder = "constructing"
  /\ binder' = "idle"
  /\ wired' \in BOOLEAN /\ built' \in {FALSE, wired'}
  /\ stop' = (stop \/ ~built')
  /\ UNCHANGED <<class, enabled, mode, pipe, runVars, calls, fingerVars, activations, posts>>

(* a byte in the wait pipe, if there is one; a full pipe blocks *)
WritePipe == IF wired THEN pipe < PipeSize /\ pipe' = pipe + 1 ELSE UNCHANGED pipe

(* activate takes mRunMutex and interrupts the poll before it releases it *)
Activate(enable) ==
  /\ binder = "idle" /\ calls < MaxCalls /\ RunMutexFree
  /\ calls' = calls + 1
  /\ IF enabled = enable
     THEN UNCHANGED <<enabled, binder, activations>>
     ELSE /\ enabled' = enable
          /\ binder' = "activating"
          /\ activations' = IF enable THEN activations + 1 ELSE activations
  /\ UNCHANGED <<class, mode, stop, wired, pipe, runVars, fingerVars, built, posts>>

MutantFinishActivate ==                 \* the poll is not interrupted
  /\ binder = "activating"
  /\ run' = Notified
  /\ binder' = "idle"
  /\ UNCHANGED <<objectVars, oneShot, revents, behind, calls, fingerVars, history>>

FinishActivate ==
  /\ binder = "activating"
  /\ WritePipe
  /\ run' = Notified
  /\ binder' = "idle"
  /\ UNCHANGED <<class, enabled, mode, stop, wired, oneShot, revents, behind, calls, fingerVars,
                 history>>

(* setOperationMode interrupts the poll after it released mRunMutex, also   *)
(* when the mode did not change                                             *)
SetOperationMode(m) ==
  /\ binder = "idle" /\ calls < MaxCalls /\ RunMutexFree
  /\ calls' = calls + 1
  /\ mode' = m
  /\ run' = IF m # mode THEN Notified ELSE run
  /\ binder' = "interrupting"
  /\ UNCHANGED <<class, enabled, stop, wired, pipe, oneShot, revents, behind, fingerVars, history>>

InterruptPoll ==
  /\ binder \in {"interrupting", "destroying"}
  /\ WritePipe
  /\ binder' = IF binder = "interrupting" THEN "idle" ELSE "stopping"
  /\ UNCHANGED <<class, enabled, mode, stop, wired, runVars, calls, fingerVars, history>>

(* ~UdfpsSensor interrupts the poll, then ~Sensor stops and joins the thread *)
Destroy ==
  /\ binder = "idle"
  /\ binder' = "destroying"
  /\ UNCHANGED <<objectVars, runVars, calls, fingerVars, history>>

MutantStopThread ==                     \* the waiting thread is not notified
  /\ binder = "stopping" /\ RunMutexFree
  /\ stop' = TRUE
  /\ enabled' = FALSE
  /\ binder' = "joining"
  /\ UNCHANGED <<class, mode, wired, pipe, runVars, calls, fingerVars, history>>

StopThread ==
  /\ binder = "stopping" /\ RunMutexFree
  /\ stop' = TRUE
  /\ enabled' = FALSE
  /\ run' = Notified
  /\ binder' = "joining"
  /\ UNCHANGED <<class, mode, wired, pipe, oneShot, revents, behind, calls, fingerVars, history>>

Join ==
  /\ binder = "joining" /\ run = "exited"
  /\ binder' = "destroyed"
  /\ UNCHANGED <<objectVars, runVars, calls, fingerVars, history>>

Binder == Construct \/ FinishActivate \/ InterruptPoll \/ StopThread \/ Join
-----------------------------------------------------------------------------
(* the driver notifies the sysfs file when a finger comes or goes *)
Touch ==
  /\ touches < MaxTouches
  /\ touches' = touches + 1
  /\ file' \in Contents \ {file}
  /\ notified' = TRUE
  /\ UNCHANGED <<objectVars, runVars, binderVars, history>>

(* the time of day is set to before the last sample, or catches up with it *)
ClockJumps ==
  /\ ~oneShot /\ posts > 0
  /\ behind' = ~behind
  /\ UNCHANGED <<objectVars, oneShot, run, revents, binderVars, fingerVars, history>>

Next ==
  \/ Run \/ PollFails \/ Binder \/ Destroy \/ Touch \/ ClockJumps
  \/ \E enable \in BOOLEAN : Activate(enable)
  \/ \E m \in Modes : SetOperationMode(m)

(* The threads of the process run; nothing is assumed of calls and touches. *)
Fairness == WF_vars(Run) /\ WF_vars(Binder)

Spec == Init /\ [][Next]_vars /\ Fairness
-----------------------------------------------------------------------------
(* Every variable has its type. *)
TypeOK ==
  /\ class \in Classes
  /\ {enabled, stop, wired, oneShot, behind, notified, built} \subseteq BOOLEAN
  /\ mode \in Modes
  /\ pipe \in 0..PipeSize
  /\ run \in {"locked", "waiting", "woken", "sleeping", "polling", "polled", "posting", "exited"}
  /\ revents \in [pipe : BOOLEAN, fp : BOOLEAN, failed : BOOLEAN]
  /\ binder \in {"constructing", "idle", "activating", "interrupting", "destroying", "stopping",
                 "joining", "destroyed"}
  /\ file \in Contents
  /\ {calls, touches, activations, posts} \subseteq Nat

(* A one-shot sensor reports once per activation, although the event of one *)
(* activation may be posted after the next one began (Sensor.cpp:325-327).  *)
(* It needs the thread to have entered the run() of the derived class.      *)
OneEventPerActivation ==
  oneShot => posts + (IF enabled \/ run = "posting" THEN 1 ELSE 0) <= activations

(* The wait pipe and mWaitCV do what they are there for: the thread never   *)
(* stays blocked in poll() after the sensor was disabled or left the normal *)
(* mode, and never in the wait when it should poll or stop, unless its      *)
(* constructor told it to stop without a notification (Sensor.cpp:269-272). *)
ChangeNeverMissed ==
  /\ run = "polling" /\ pipe = 0 /\ binder = "idle" => Active
  /\ run = "waiting" /\ binder # "activating" => ~Active /\ (~stop \/ ~built)

(* An enabled sensor reports the finger that touches it, unless it is       *)
(* disabled, leaves the normal mode, poll() fails or the finger goes first; *)
(* a call of activate that a full pipe blocks promises nothing.             *)
FingerReported ==
  oneShot /\ Active /\ file = "finger" /\ notified /\ binder # "activating"
    ~> ~Active \/ file # "finger" \/ stop

(* A sensor that was disabled comes to rest, unless it is enabled again. *)
DisableTakesEffect ==
  binder = "idle" /\ ~enabled ~> enabled \/ run \in {"waiting", "exited"}

(* A mode change of an active sensor is never stuck in a full wait pipe:    *)
(* the thread drains the pipe as long as it polls (Sensor.cpp:328-331,352). *)
ModeChangeReturns ==
  oneShot /\ Active /\ binder = "interrupting"
    ~> binder = "idle" \/ ~Active \/ stop

(* The destructor comes to its end, although it interrupts the poll before  *)
(* it sets mStopThread (Sensor.cpp:285-287,111-117), unless the thread used *)
(* up the interrupt in between and is in poll() again.                      *)
DestructorReturns ==
  binder = "joining" /\ (run = "polling" => pipe > 0 \/ notified) ~> binder = "destroyed"

(* what the owner of the sensor can tell of its run thread *)
Phase ==
  CASE run = "posting"               -> "posting"
    [] run \in {"polling", "polled"} -> "watching"
    [] OTHER                         -> "resting"

(* the write to the wait pipe that a call of activate or setOperationMode   *)
(* has before it                                                            *)
PipeWrite == IF binder \in {"activating", "interrupting"} THEN binder ELSE "none"

(* The sensor keeps the contract on which the sub-HAL and the proxy rely.   *)
Contract == INSTANCE SensorContract WITH phase <- Phase, call <- PipeWrite

ImplementsContract == Contract!Spec
=============================================================================
