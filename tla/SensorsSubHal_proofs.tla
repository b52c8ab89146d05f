------------------------ MODULE SensorsSubHal_proofs ------------------------
(***************************************************************************)
(* Proofs about SensorsSubHal, for any number of sensors.  A sensor whose  *)
(* call of activate or setOperationMode returned may still post the event  *)
(* of a poll() that was under way, so neither property is inductive: the   *)
(* invariants say of every sensor a loop over mSensors has passed that it  *)
(* is at rest or late, and that it is disabled, or in the other mode, so   *)
(* that it cannot leave its rest again.                                    *)
(***************************************************************************)
EXTENDS SensorsSubHal, TLAPS

TypeInv ==
  /\ nextHandle \in Nat
  /\ enabled \in [Handles -> BOOLEAN]
  /\ mode \in [Handles -> Modes]
  /\ oneShot \in [Handles -> BOOLEAN]
  /\ phase \in [Handles -> {"resting", "watching", "posting"}]
  /\ late \subseteq Handles
  /\ ordered \in Modes

Calm(h) == phase[h] # "resting" => h \in late

Asleep(h) == ~enabled[h] /\ phase[h] = "resting"

Quiet(h) == ~enabled[h] /\ Calm(h)

Muted(h) == mode[h] = "DATA_INJECTION" /\ Calm(h)

(* before the first session nothing is enabled; disableAllSensors leaves    *)
(* quiet sensors behind                                                     *)
QInv ==
  /\ \A h \in Handles \ mSensors : Asleep(h)
  /\ callback = "null" =>
       /\ ~session /\ rpc \in {"constructing", "idle", "disabling", "assigning"}
       /\ \A h \in Handles : Asleep(h)
  /\ rpc = "disabling" => \A h \in Handles \ todo : Quiet(h)
  /\ rpc = "assigning" => \A h \in Handles : Quiet(h)

(* setOperationMode(DATA_INJECTION) leaves muted sensors behind *)
MInv ==
  /\ \A h \in Handles \ mSensors : Asleep(h)
  /\ rpc = "constructing" => currentMode = "NORMAL"
  /\ rpc = "ordering" /\ ordered = "DATA_INJECTION" => \A h \in mSensors \ todo : Muted(h)
  /\ rpc = "idle" /\ currentMode = "DATA_INJECTION" => \A h \in mSensors : Muted(h)
-----------------------------------------------------------------------------
(* What a step does to the sensors *)

(* A step of a sensor's run thread leaves all other sensors and the callers *)
(* alone, and does not wake a sensor that is calm.                          *)
LEMMA RunEffect ==
  ASSUME TypeInv, NEW h \in mSensors, Run(h)
  PROVE  /\ TypeInv'
         /\ UNCHANGED <<mode, subHalVars, rpcVars>>
         /\ enabled'[h] => enabled[h]
         /\ Calm(h) /\ ~(enabled[h] /\ mode[h] = "NORMAL") => Calm(h)'
         /\ \A g \in Handles : g # h =>
              enabled'[g] = enabled[g] /\ phase'[g] = phase[g] /\ (g \in late <=> g \in late')
<1> USE DEF TypeInv, Calm, mSensors
<1>1. UNCHANGED <<mode, oneShot, subHalVars, rpcVars>>
  BY DEF Run
<1>2. PICK b \in BOOLEAN : enabled' = [enabled EXCEPT ![h] = b]
  BY DEF Run
<1>3. PICK p \in {"resting", "watching", "posting"} : phase' = [phase EXCEPT ![h] = p]
  BY DEF Run, Sensor!Phases
<1>4. late' = IF p = "resting" THEN late \ {h} ELSE late
  BY <1>3 DEF Run
<1>5. \/ enabled[h] /\ mode[h] = "NORMAL" /\ b = enabled[h]
      \/ phase[h] = "watching" /\ (b => enabled[h])
      \/ phase[h] = "posting" /\ p = "resting" /\ b = enabled[h]
  BY <1>2, <1>3 DEF Run, Sensor!Run, Sensor!Watch, Sensor!Rest, Sensor!Report, Sensor!Sample,
     Sensor!Posted, Sensor!Active
<1> QED
  BY <1>1, <1>2, <1>3, <1>4, <1>5 DEF subHalVars, rpcVars

(* A sensor that was switched off is calm.                                  *)
LEMMA SwitchEffect ==
  ASSUME TypeInv, NEW h \in Handles, NEW enable \in BOOLEAN, Switch(h, enable)
  PROVE  /\ UNCHANGED <<mode, oneShot, phase>>
         /\ enabled' = [enabled EXCEPT ![h] = enable]
         /\ late' \subseteq Handles
         /\ ~(enable /\ mode[h] = "NORMAL") => Calm(h)'
         /\ \A g \in Handles : g # h => (g \in late <=> g \in late')
<1> USE DEF TypeInv, Calm
<1>1. UNCHANGED <<mode, oneShot, phase>> /\ enabled' = [enabled EXCEPT ![h] = enable]
  BY DEF Switch
<1>2. phase[h] # "posting"
  BY DEF Switch, Sensor!Activate
<1>3. late' = IF phase[h] = "watching" /\ ~(enable /\ mode[h] = "NORMAL") THEN late \cup {h}
             ELSE late \ {h}
  BY <1>1 DEF Switch, StaysLate, Sensor!Active
<1> QED
  BY <1>1, <1>2, <1>3
-----------------------------------------------------------------------------
(* The types hold in the constructor.                                       *)
LEMMA TypeInvInit == Init => TypeInv
BY DEF Init, TypeInv, Modes

(* Every step keeps the types.                                              *)
LEMMA TypeInvStep == TypeInv /\ [Next]_vars => TypeInv'
<1> SUFFICES ASSUME TypeInv, [Next]_vars PROVE TypeInv'
  OBVIOUS
<1> USE DEF subHalVars, sensorVars, rpcVars
<1>1. ASSUME NEW h \in Handles, Run(h) PROVE TypeInv'
  BY <1>1, RunEffect DEF Run
<1>2. ASSUME NEW h \in Handles, NEW enable \in BOOLEAN, Switch(h, enable), UNCHANGED <<nextHandle, ordered>>
      PROVE TypeInv'
  BY <1>2, SwitchEffect DEF TypeInv
<1>3. ASSUME NEW h \in Handles, OrderSensor(h) PROVE TypeInv'
  BY <1>3 DEF OrderSensor, Sensor!SetOperationMode, Sensor!Modes, StaysLate, TypeInv, Modes
<1>4. CASE AddSensor
  BY <1>4 DEF AddSensor, TypeInv
<1>5. CASE OrderingEnds \/ BeginInitialize \/ SetCallback \/ ProxyInitializes \/ UNCHANGED vars
  BY <1>5 DEF OrderingEnds, BeginInitialize, SetCallback, ProxyInitializes, vars, TypeInv, Modes
<1>6. ASSUME NEW m \in Modes, SetOperationMode(m) PROVE TypeInv'
  BY <1>6 DEF SetOperationMode, TypeInv
<1>7. ASSUME NEW h \in Handles, Return(h) PROVE TypeInv'
  BY <1>7 DEF Return, TypeInv
<1> QED
  BY <1>1, <1>2, <1>3, <1>4, <1>5, <1>6, <1>7 DEF Next, Call, Activate, DisableSensor

-----------------------------------------------------------------------------
(* In the constructor no sensor is active.                                  *)
LEMMA QInvInit == Init => QInv
BY DEF Init, QInv, Asleep, Handles, mSensors

(* A sensor the loop has passed stays quiet until it ends.                  *)
LEMMA QInvStep == TypeInv /\ QInv /\ [Next]_vars => QInv'
<1> SUFFICES ASSUME TypeInv, QInv, [Next]_vars PROVE QInv'
  OBVIOUS
<1> USE DEF subHalVars, sensorVars, rpcVars, mSensors, Handles
<1>1. ASSUME NEW h \in Handles, Run(h) PROVE QInv'
  <2> h \in mSensors
    BY <1>1 DEF Run
  <2>1. UNCHANGED <<nextHandle, callback, rpc, todo, session>> /\ mSensors' = mSensors
    BY <1>1, RunEffect
  <2>2. ASSUME NEW g \in Handles, Asleep(g), g # h PROVE Asleep(g)'
    BY <1>1, <2>2, RunEffect DEF Asleep
  <2>3. ASSUME Asleep(h) PROVE FALSE
    BY <1>1, <2>3 DEF Asleep, Run, Sensor!Run, Sensor!Watch, Sensor!Rest, Sensor!Report,
       Sensor!Sample, Sensor!Posted, Sensor!Active
  <2>4. ASSUME NEW g \in Handles, Quiet(g) PROVE Quiet(g)'
    BY <1>1, <2>4, RunEffect DEF Quiet, Calm, TypeInv
  <2> QED
    BY <2>1, <2>2, <2>3, <2>4 DEF QInv
<1>2. ASSUME NEW h \in Handles, NEW enable \in BOOLEAN, Activate(h, enable) PROVE QInv'
  <2>1. Switch(h, enable) /\ rpc = "idle" /\ session /\ h \in mSensors
        /\ UNCHANGED <<subHalVars, rpcVars>>
    BY <1>2 DEF Activate
  <2>2. ASSUME NEW g \in Handles, Asleep(g), g # h PROVE Asleep(g)'
    BY <2>1, <2>2, SwitchEffect, ZenonT(60) DEF Asleep, TypeInv
  <2> QED
    BY <2>1, <2>2 DEF QInv
<1>3. ASSUME NEW h \in Handles, DisableSensor(h) PROVE QInv'
  <2>1. Switch(h, FALSE) /\ rpc = "disabling" /\ todo' = todo \ {h}
        /\ UNCHANGED <<subHalVars, rpc, ordered, session>>
    BY <1>3 DEF DisableSensor, Reaches
  <2>2. ASSUME NEW g \in Handles, Asleep(g) PROVE Asleep(g)'
    BY <2>1, <2>2, SwitchEffect DEF Asleep, TypeInv
  <2>3. ASSUME NEW g \in Handles, Quiet(g) \/ g = h PROVE Quiet(g)'
    BY <2>1, <2>3, SwitchEffect, ZenonT(60) DEF Quiet, Calm, TypeInv
  <2> QED
    BY <2>1, <2>2, <2>3 DEF QInv
<1>4. ASSUME NEW h \in Handles, OrderSensor(h) PROVE QInv'
  BY <1>4 DEF OrderSensor, QInv, Asleep
<1>5. CASE AddSensor
  BY <1>5 DEF AddSensor, QInv, Asleep, TypeInv
<1>6. CASE ProxyInitializes
  <2> \A h \in Handles \ mSensors : Quiet(h)
    BY DEF QInv, Asleep, Quiet, Calm
  <2> QED
    BY <1>6 DEF ProxyInitializes, QInv, Asleep, Quiet, Calm
<1>7. CASE BeginInitialize
  BY <1>7 DEF BeginInitialize, QInv, Asleep, Quiet, Calm
<1>8. CASE OrderingEnds \/ SetCallback \/ UNCHANGED vars
  BY <1>8 DEF OrderingEnds, SetCallback, vars, QInv, Asleep, Quiet, Calm
<1>9. ASSUME NEW m \in Modes, SetOperationMode(m) PROVE QInv'
  BY <1>9 DEF SetOperationMode, QInv, Asleep
<1>10. ASSUME NEW h \in Handles, Return(h) PROVE QInv'
  BY <1>10 DEF Return, QInv, Asleep, Quiet, Calm
<1> QED
  BY <1>1, <1>2, <1>3, <1>4, <1>5, <1>6, <1>7, <1>8, <1>9, <1>10 DEF Next, Call

(* No sensor posts through mCallback before it has a value, or while        *)
(* initialize() replaces it, unless its poll() was under way when the proxy *)
(* disabled it (SensorsSubHal.cpp:142,147-149): for any number of sensors.  *)
THEOREM CallbackSafe == Spec => []CallbackReplacedAlone
<1>1. QInv => CallbackReplacedAlone
  BY DEF QInv, CallbackReplacedAlone, Quiet, Calm, Asleep
<1> QED
  BY <1>1, TypeInvInit, TypeInvStep, QInvInit, QInvStep, PTL DEF Spec

-----------------------------------------------------------------------------
(* In the constructor all sensors are asleep and in normal mode.            *)
LEMMA MInvInit == Init => MInv
BY DEF Init, MInv, Asleep, Handles, mSensors

(* An order of data injection leaves muted sensors behind, and they stay    *)
(* muted until the next order.                                              *)
LEMMA MInvStep == TypeInv /\ MInv /\ [Next]_vars => MInv'
<1> SUFFICES ASSUME TypeInv, MInv, [Next]_vars PROVE MInv'
  OBVIOUS
<1> USE DEF subHalVars, sensorVars, rpcVars, mSensors, Handles
<1>1. ASSUME NEW h \in Handles, Run(h) PROVE MInv'
  <2> h \in mSensors
    BY <1>1 DEF Run
  <2>1. UNCHANGED <<nextHandle, currentMode, rpc, ordered, todo>> /\ mSensors' = mSensors
    BY <1>1, RunEffect
  <2>2. ASSUME NEW g \in Handles, Asleep(g), g # h PROVE Asleep(g)'
    BY <1>1, <2>2, RunEffect DEF Asleep
  <2>3. ASSUME NEW g \in Handles, Muted(g) PROVE Muted(g)'
    BY <1>1, <2>3, RunEffect DEF Muted, Calm, TypeInv
  <2> QED
    BY <2>1, <2>2, <2>3 DEF MInv
<1>2. ASSUME NEW h \in Handles, NEW enable \in BOOLEAN, Switch(h, enable),
             h \in mSensors \/ ~enable, rpc \in {"idle", "disabling"}, UNCHANGED <<subHalVars, rpc, ordered>>
      PROVE  MInv'
  <2>1. ASSUME NEW g \in Handles, Asleep(g), g # h \/ ~enable PROVE Asleep(g)'
    BY <1>2, <2>1, SwitchEffect, ZenonT(60) DEF Asleep, TypeInv
  <2>2. ASSUME NEW g \in Handles, Muted(g) PROVE Muted(g)'
    BY <1>2, <2>2, SwitchEffect DEF Muted, Calm, TypeInv
  <2> QED
    BY <1>2, <2>1, <2>2 DEF MInv
<1>4. ASSUME NEW h \in Handles, OrderSensor(h) PROVE MInv'
  <2>1. /\ rpc = "ordering" /\ mode' = [mode EXCEPT ![h] = ordered] /\ todo' = todo \ {h}
        /\ phase[h] # "posting"
        /\ UNCHANGED <<subHalVars, rpc, ordered, enabled, phase>>
    BY <1>4 DEF OrderSensor, Reaches, Sensor!SetOperationMode
  <2>2. late' = IF phase[h] = "watching" /\ ~(enabled[h] /\ mode'[h] = "NORMAL")
                THEN late \cup {h} ELSE late \ {h}
    BY <1>4, <2>1 DEF OrderSensor, StaysLate, Sensor!Active
  <2>3. ASSUME NEW g \in Handles, ordered = "DATA_INJECTION", Muted(g) \/ g = h PROVE Muted(g)'
    BY <2>1, <2>2, <2>3 DEF Muted, Calm, TypeInv
  <2> QED
    BY <2>1, <2>3 DEF MInv, Asleep
<1>5. CASE AddSensor
  BY <1>5 DEF AddSensor, MInv, Asleep, TypeInv
<1>6. CASE OrderingEnds
  BY <1>6 DEF OrderingEnds, MInv, Asleep, Muted, Calm
<1>7. CASE ProxyInitializes \/ BeginInitialize \/ SetCallback \/ UNCHANGED vars
  BY <1>7 DEF ProxyInitializes, BeginInitialize, SetCallback, vars, MInv, Asleep, Muted, Calm
<1>8. ASSUME NEW m \in Modes, SetOperationMode(m) PROVE MInv'
  BY <1>8 DEF SetOperationMode, MInv, Asleep
<1>9. ASSUME NEW h \in Handles, Return(h) PROVE MInv'
  BY <1>9 DEF Return, MInv, Asleep, Muted, Calm
<1> QED
  BY <1>1, <1>2, <1>4, <1>5, <1>6, <1>7, <1>8, <1>9 DEF Next, Call, Activate, DisableSensor

(* Data injection is not disturbed: when setOperationMode(DATA_INJECTION)   *)
(* returned, only a sensor whose poll() was under way posts, and once       *)
(* (SensorsSubHal.cpp:49-55, Sensor.cpp:325): for any number of sensors.    *)
THEOREM InjectionSafe == Spec => []InjectionUndisturbed
<1>1. MInv => InjectionUndisturbed
  BY DEF MInv, InjectionUndisturbed, Muted, Calm, Asleep
<1> QED
  BY <1>1, TypeInvInit, TypeInvStep, MInvInit, MInvStep, PTL DEF Spec
=============================================================================
