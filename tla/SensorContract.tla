---------------------------- MODULE SensorContract ----------------------------
(***************************************************************************)
(* What a sensor of sensors.nothing.so promises the sub-HAL that owns it   *)
(* (the class Sensor of src/sensors/Sensor.h): the abstract specification  *)
(* that OneShotSensor implements, and that SensorsSubHal relies on for     *)
(* each of its sensors.                                                    *)
(*                                                                         *)
(* A one-shot sensor disables itself with the event it posts.  It may do   *)
(* so after it was disabled or left the normal mode, if it was watching at *)
(* that moment, but once it rests it posts nothing before it is active     *)
(* again.  A thread that entered the run() of the base class posts again   *)
(* and again, and only while the sensor is active.                         *)
(*                                                                         *)
(* A call interrupts the poll by a byte in the wait pipe.  That it returns *)
(* is not promised: a full pipe blocks it, for good when nobody polls, and *)
(* activate holds mRunMutex meanwhile, so that the run thread stops, too.  *)
(***************************************************************************)
VARIABLES
  enabled,      \* mIsEnabled
  mode,         \* mMode
  oneShot,      \* did the thread enter the run() of the derived class?
  phase,        \* "resting", "watching" the area, or "posting" an event
  call          \* the write to the wait pipe that is under way, or "none"

vars == <<enabled, mode, oneShot, phase, call>>

Modes == {"NORMAL", "DATA_INJECTION"}
Phases == {"resting", "watching", "posting"}
Calls == {"none", "activating", "interrupting"}

Active == enabled /\ mode = "NORMAL"

Init ==
  /\ enabled = FALSE /\ mode = "NORMAL" /\ phase = "resting"
  /\ oneShot \in BOOLEAN /\ call = "none"

(* activate and setOperationMode wait for an event that is being posted;    *)
(* activate interrupts the poll when it changes something, and keeps the    *)
(* mutex until it returns, setOperationMode always and without the mutex    *)
Activate(enable) ==
  /\ call = "none" /\ phase # "posting"
  /\ enabled' = enable
  /\ call' = IF enabled = enable THEN "none" ELSE "activating"
  /\ UNCHANGED <<mode, oneShot, phase>>

SetOperationMode(m) ==
  /\ call = "none" /\ phase # "posting"
  /\ mode' = m
  /\ call' = "interrupting"
  /\ UNCHANGED <<enabled, oneShot, phase>>

(* the pipe took the byte *)
Return ==
  /\ call # "none" /\ call' = "none"
  /\ UNCHANGED <<enabled, mode, oneShot, phase>>

(* the destructor disables the sensor, with the poll already interrupted *)
Destroy ==
  /\ call = "none" /\ phase # "posting"
  /\ enabled' = FALSE
  /\ UNCHANGED <<mode, oneShot, phase, call>>

(* the run thread can have mRunMutex *)
RunMutexFree == call # "activating"

Watch ==
  /\ oneShot /\ Active /\ phase = "resting" /\ RunMutexFree
  /\ phase' = "watching"
  /\ UNCHANGED <<enabled, mode, oneShot, call>>

Rest ==
  /\ phase = "watching" /\ RunMutexFree
  /\ phase' = "resting"
  /\ UNCHANGED <<enabled, mode, oneShot, call>>

MutantReport ==                         \* it stays enabled
  /\ phase = "watching" /\ RunMutexFree
  /\ phase' = "posting"
  /\ UNCHANGED <<enabled, mode, oneShot, call>>

Report ==
  /\ phase = "watching" /\ RunMutexFree
  /\ phase' = "posting"
  /\ enabled' = FALSE
  /\ UNCHANGED <<mode, oneShot, call>>

Sample ==
  /\ ~oneShot /\ Active /\ phase = "resting" /\ RunMutexFree
  /\ phase' = "posting"
  /\ UNCHANGED <<enabled, mode, oneShot, call>>

Posted ==
  /\ phase = "posting" /\ phase' = "resting"
  /\ UNCHANGED <<enabled, mode, oneShot, call>>

(* the run thread *)
Run == Watch \/ Rest \/ Report \/ Sample \/ Posted

Next ==
  \/ \E enable \in BOOLEAN : Activate(enable)
  \/ \E m \in Modes : SetOperationMode(m)
  \/ Return \/ Destroy \/ Run

Spec == Init /\ [][Next]_vars /\ WF_vars(Posted)
=============================================================================
