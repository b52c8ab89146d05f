---------------------------- MODULE SensorsSubHal ----------------------------
(***************************************************************************)
(* The sub-HAL sensors.nothing.so (src/sensors/SensorsSubHal.cpp): a map   *)
(* of sensors, each with a run thread of its own, under one binder thread. *)
(* A sensor is what SensorContract promises of it.                         *)
(*                                                                         *)
(* The threads of the sensors run from the constructor on, when there is   *)
(* no callback yet, and post through mCallback, which initialize()         *)
(* replaces without a mutex.  The proxy disables all sensors before it     *)
(* calls initialize() and enables none until it returned.                  *)
(*                                                                         *)
(* Calls for a handle that is not in the map, batch, flush, injectEvent    *)
(* and the direct channel calls change nothing.                            *)
(***************************************************************************)
EXTENDS Naturals

CONSTANT NumSensors     \* AddSensor calls of the constructor

ASSUME SomeSensors == NumSensors \in Nat \ {0}

Handles == 1..NumSensors

VARIABLES
  \* the sub-HAL
  nextHandle,   \* mNextHandle; mSensors holds the handles before it
  callback,     \* mCallback: "null", or "set"
  currentMode,  \* mCurrentOperationMode
  \* its sensors, functions of the handle
  enabled, mode, oneShot, phase, call,
  \* the binder thread
  rpc,          \* its place
  ordered,      \* the mode that is being ordered
  todo,         \* the handles a loop over mSensors has not reached
  session,      \* did initialize() return?
  \* history
  late          \* sensors that were watching when they were told to be quiet

subHalVars == <<nextHandle, callback, currentMode>>
sensorVars == <<enabled, mode, oneShot, phase, call>>
rpcVars    == <<rpc, ordered, todo, session>>
vars == <<subHalVars, sensorVars, rpcVars, late>>

Sensor(h) == INSTANCE SensorContract WITH
  enabled <- enabled[h], mode <- mode[h], oneShot <- oneShot[h], phase <- phase[h],
  call <- call[h]

Modes == {"NORMAL", "DATA_INJECTION"}

mSensors == {h \in Handles : h < nextHandle}

Init ==
  /\ nextHandle = 1 /\ callback = "null" /\ currentMode = "NORMAL"
  /\ enabled = [h \in Handles |-> FALSE]
  /\ mode    = [h \in Handles |-> "NORMAL"]
  /\ oneShot \in [Handles -> BOOLEAN]
  /\ phase   = [h \in Handles |-> "resting"]
  /\ call    = [h \in Handles |-> "none"]
  /\ rpc = "constructing" /\ ordered = "NORMAL" /\ todo = {} /\ session = FALSE
  /\ late = {}

AddSensor ==
  /\ rpc = "constructing"
  /\ nextHandle' = nextHandle + 1
  /\ rpc' = IF nextHandle = NumSensors THEN "idle" ELSE "constructing"
  /\ UNCHANGED <<callback, currentMode, sensorVars, ordered, todo, session, late>>

(* the sensor was in poll() when the call made it inactive *)
StaysLate(h) ==
  late' = IF phase[h] = "watching" /\ ~Sensor(h)!Active' THEN late \cup {h} ELSE late \ {h}
-----------------------------------------------------------------------------
(* The threads of the sensors *)

(* a sensor posts through mCallback, which it reads without a mutex *)
Run(h) ==
  /\ h \in mSensors
  /\ \E b \in BOOLEAN : enabled' = [enabled EXCEPT ![h] = b]
  /\ \E p \in Sensor(h)!Phases : phase' = [phase EXCEPT ![h] = p]
  /\ UNCHANGED <<mode, oneShot, call>>
  /\ Sensor(h)!Run
  /\ late' = IF phase'[h] = "resting" THEN late \ {h} ELSE late
  /\ UNCHANGED <<subHalVars, rpcVars>>

postEvents(h) == Run(h) /\ phase[h] = "posting"
-----------------------------------------------------------------------------
(* The binder thread is in one call at a time, also in one of the calls it  *)
(* makes to its sensors: it waits for the wait pipe to take the byte.       *)
Returned == \A h \in Handles : call[h] = "none"

Interrupts(h) == \E c \in Sensor(h)!Calls : call' = [call EXCEPT ![h] = c]

Return(h) ==
  /\ Interrupts(h)
  /\ UNCHANGED <<enabled, mode, oneShot, phase, subHalVars, rpcVars, late>>
  /\ Sensor(h)!Return

Switch(h, enable) ==
  /\ Returned /\ Interrupts(h)
  /\ enabled' = [enabled EXCEPT ![h] = enable]
  /\ UNCHANGED <<mode, oneShot, phase>>
  /\ Sensor(h)!Activate(enable)
  /\ StaysLate(h)

Activate(h, enable) ==
  /\ rpc = "idle" /\ session /\ h \in mSensors
  /\ Switch(h, enable)
  /\ UNCHANGED <<subHalVars, rpcVars>>

(* one sensor after the other; none can fail *)
SetOperationMode(m) ==
  /\ rpc = "idle" /\ session /\ Returned
  /\ rpc' = "ordering" /\ ordered' = m /\ todo' = mSensors
  /\ UNCHANGED <<subHalVars, sensorVars, session, late>>

(* a loop over mSensors comes to h: the map is ordered *)
Reaches(h) ==
  /\ h \in todo /\ \A g \in todo : h <= g
  /\ todo' = todo \ {h}

MutantOrderSensor(h) ==                 \* without mRunMutex
  /\ rpc = "ordering" /\ Reaches(h) /\ Returned
  /\ mode' = [mode EXCEPT ![h] = ordered]
  /\ call' = [call EXCEPT ![h] = "interrupting"]
  /\ UNCHANGED <<enabled, oneShot, phase>>
  /\ StaysLate(h)
  /\ UNCHANGED <<subHalVars, rpc, ordered, session>>

OrderSensor(h) ==
  /\ rpc = "ordering" /\ Reaches(h) /\ Returned /\ Interrupts(h)
  /\ mode' = [mode EXCEPT ![h] = ordered]
  /\ UNCHANGED <<enabled, oneShot, phase>>
  /\ Sensor(h)!SetOperationMode(ordered)
  /\ StaysLate(h)
  /\ UNCHANGED <<subHalVars, rpc, ordered, session>>

OrderingEnds ==
  /\ rpc = "ordering" /\ todo = {} /\ Returned
  /\ currentMode' = ordered
  /\ rpc' = "idle" /\ session' = TRUE
  /\ UNCHANGED <<nextHandle, callback, sensorVars, ordered, todo, late>>

(* the proxy initializes the sub-HAL for the framework that just started *)
ProxyInitializes ==
  /\ rpc = "idle" /\ Returned
  /\ rpc' = "disabling" /\ todo' = mSensors /\ session' = FALSE
  /\ UNCHANGED <<subHalVars, sensorVars, ordered, late>>

MutantDisableSensor(h) ==               \* only the sensors the proxy believes enabled
  /\ rpc = "disabling" /\ Reaches(h)
  /\ Returned
  /\ IF enabled[h] THEN Switch(h, FALSE) ELSE UNCHANGED <<sensorVars, late>>
  /\ UNCHANGED <<subHalVars, rpc, ordered, session>>

DisableSensor(h) ==
  /\ rpc = "disabling" /\ Reaches(h)
  /\ Switch(h, FALSE)
  /\ UNCHANGED <<subHalVars, rpc, ordered, session>>

BeginInitialize ==
  /\ rpc = "disabling" /\ todo = {} /\ Returned
  /\ rpc' = "assigning"
  /\ UNCHANGED <<subHalVars, sensorVars, ordered, todo, session, late>>

(* initialize(): the callback is replaced, then the mode is set *)
SetCallback ==
  /\ rpc = "assigning"
  /\ callback' = "set"
  /\ rpc' = "ordering" /\ ordered' = "NORMAL" /\ todo' = mSensors
  /\ UNCHANGED <<nextHandle, currentMode, sensorVars, session, late>>

Call ==
  \/ AddSensor \/ OrderingEnds \/ BeginInitialize \/ SetCallback
  \/ \E h \in Handles : OrderSensor(h) \/ DisableSensor(h)

Next ==
  \/ Call \/ ProxyInitializes
  \/ \E h \in Handles :
       \/ Run(h) \/ Return(h)
       \/ \E enable \in BOOLEAN : Activate(h, enable)
  \/ \E m \in Modes : SetOperationMode(m)

(* A call goes on, and an event that is being posted gets posted; that a    *)
(* wait pipe takes a byte is not promised.                                  *)
Fairness == WF_vars(Call) /\ \A h \in Handles : WF_vars(postEvents(h))

Spec == Init /\ [][Next]_vars /\ Fairness
-----------------------------------------------------------------------------
(* No sensor posts through mCallback before it has a value, and none while  *)
(* initialize() replaces it, although their threads run from the            *)
(* constructor on and no mutex guards it: but for a sensor that was in      *)
(* poll() when the proxy disabled it (SensorsSubHal.cpp:142,147-149).       *)
CallbackReplacedAlone ==
  \A h \in Handles : phase[h] = "posting" =>
    /\ callback # "null"
    /\ rpc = "assigning" => h \in late

(* When setOperationMode(DATA_INJECTION) returned, no sensor posts events   *)
(* of its own until the mode is set again, but for the one event of a       *)
(* sensor that was in poll() when the mode reached it                       *)
(* (SensorsSubHal.cpp:49-55, Sensor.cpp:309,325).                           *)
InjectionUndisturbed ==
  rpc = "idle" /\ currentMode = "DATA_INJECTION" =>
    \A h \in Handles : phase[h] = "posting" => h \in late

(* A call of the proxy returns, although it waits for every sensor that is  *)
(* just posting, and mRunMutex promises a waiting thread no turn.  What can *)
(* keep it for ever is a thread that entered the run() of the base class,   *)
(* or the full wait pipe of one sensor (Sensor.cpp:352), which then keeps   *)
(* the calls for all others out, too: never the order of the two calls, of  *)
(* the posting sensors and of what the loops over mSensors do meanwhile.    *)
CallsReturn ==
  (\A h \in Handles : oneShot[h]) /\ (rpc # "idle" \/ ~Returned) ~>
    \/ rpc = "idle" /\ Returned
    \/ \E h \in Handles : [](call[h] # "none")
=============================================================================
