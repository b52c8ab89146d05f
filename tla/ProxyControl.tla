---------------------------- MODULE ProxyControl ----------------------------
(***************************************************************************)
(* The control side of the multi-HAL proxy (src/sensors/HalProxy.cpp): the *)
(* sub-HALs it loads, their sensor list, calls forwarded to the sub-HAL a  *)
(* handle names, the operation mode of all sub-HALs, the direct channel,   *)
(* the dynamic sensors that sub-HALs connect and disconnect from threads   *)
(* of their own, and the part of initialize() that belongs to them.        *)
(*                                                                         *)
(* A sub-HAL goes by the name of its library; its index is its place in    *)
(* the list of those that could be loaded.                                 *)
(*                                                                         *)
(* The binder thread runs one call at a time.  Its calls are one step each *)
(* but for initialize(), where the callbacks of the sub-HALs may fall      *)
(* between any two of its statements about dynamic sensors.                *)
(*                                                                         *)
(* batch, flush, injectSensorData and registerDirectChannel leave no trace *)
(* in the proxy: they are routed as activate and configDirectReport are.   *)
(***************************************************************************)
EXTENDS SensorHandle, FiniteSets, SequencesExt

CONSTANTS
  Config,         \* the libraries named by hals.conf
  SensorList,     \* for each library the sensors that getSensorsList returns
  DynamicLists,   \* for each library the sets of handles it connects together
  DirectDynamic,  \* <<library, local handle>> of the dynamic sensors with direct flags
  Strangers,      \* handles the framework uses that were never given to it
  MaxInits        \* bound: calls of initialize()

Libraries == ToSet(Config)
None == "none"      \* no sub-HAL, a null pointer

(* a signed handle has room for the indexes *)
ASSUME HandlesHaveRoom ==
  /\ Config \in Seq(Libraries) /\ IsInjective(Config) /\ None \notin Libraries
  /\ Len(Config) \in 1 .. IndexSize \div 2

(* a sub-HAL numbers its sensors from 1 (SensorsSubHal.cpp:35); a stranger  *)
(* may name a sensor of the list, but no dynamic one                        *)
ASSUME SensorsAreNumbered ==
  /\ SensorList \in [Libraries -> SUBSET [handle : Handles, direct : BOOLEAN]]
  /\ DynamicLists \in [Libraries -> SUBSET SUBSET Handles]
  /\ Strangers \subseteq Handles
  /\ \A lib \in Libraries :
       /\ \A s, t \in SensorList[lib] : s.handle = t.handle => s = t
       /\ \A l \in UNION DynamicLists[lib] :
            /\ l # 0 /\ \A s \in SensorList[lib] : s.handle # l
            /\ \A i \in 0 .. Len(Config) - 1 : SetSubHalIndex(l, i) \notin Strangers

VARIABLES
  \* the proxy
  subHals,      \* mSubHalList
  sensors,      \* mSensors: key -> handle and direct channel flag of the SensorInfo
  direct,       \* mDirectChannelSubHal
  mode,         \* mCurrentOperationMode
  dynamic,      \* the handles of mDynamicSensors
  callback,     \* mDynamicSensorsCallback: of the "current" or the "old" framework
  rpc,          \* the place of initialize() on the binder thread
  inits,
  \* the sub-HALs
  initialized,  \* those that were given a callback
  subMode,      \* the operation mode of each
  enabled,      \* <<sub-HAL, local handle>> of the active sensors
  reports,      \* the same, of the sensors with a direct report
  attached,     \* the same, of the dynamic sensors
  call,         \* the callback a thread of the sub-HAL is in
  \* the framework
  known,        \* the dynamic sensors it was told of
  wanted,       \* the sensors it enabled
  wantedReports,
  \* history
  astray,       \* sub-HALs whose last order of a mode failed or was not given
  raced,        \* did a dynamic callback overlap the end of a session?
  misdirected   \* local handles of direct reports for dynamic sensors of other sub-HALs

proxyVars == <<subHals, sensors, direct, mode, dynamic, callback>>
initVars  == <<rpc, inits>>
subVars   == <<initialized, subMode, enabled, reports, attached>>
fwkVars   == <<known, wanted, wantedReports>>
history   == <<astray, raced, misdirected>>
vars == <<proxyVars, initVars, subVars, call, fwkVars, history>>

Modes == {"NORMAL", "DATA_INJECTION"}
NoCall == [op |-> "none", handles |-> {}]
-----------------------------------------------------------------------------
(* The sub-HALs, and the sensor list in their order *)

(* a library is skipped when it is in none of the places, has no function   *)
(* that gives its sub-HAL, or gives one of another version                  *)
InitializeSubHalList ==
  {[n \in DOMAIN place |-> Config[place[n]]] : place \in
     {f \in UNION {[1 .. n -> DOMAIN Config] : n \in 0 .. Len(Config)} :
        \A m, n \in DOMAIN f : m < n => f[m] < f[n]}}

Loaded == ToSet(subHals)

Index(lib) == (CHOOSE n \in DOMAIN subHals : subHals[n] = lib) - 1

(* sensors whose handle has index bits are left out *)
ListedBy(lib) == {s \in SensorList[lib] : SubHalIndexIsClear(s.handle)}

(* the first sub-HAL with a sensor that has direct flags is the direct      *)
(* channel sub-HAL, the flags of all others are cleared                     *)
DirectChannelSubHal ==
  LET supporting == {n \in DOMAIN subHals : \E s \in ListedBy(subHals[n]) : s.direct}
  IN IF supporting = {} THEN None ELSE subHals[Min(supporting)]

MutantDirectFlag(lib, flag) == flag    \* no flags are cleared
DirectFlag(lib, flag) == flag /\ lib = direct

SensorInfos ==
  UNION {{[handle |-> SetSubHalIndex(s.handle, Index(lib)), direct |-> DirectFlag(lib, s.direct)] :
            s \in ListedBy(lib)} : lib \in Loaded}

InitializeSensorList ==
  /\ direct = DirectChannelSubHal
  /\ sensors = [h \in {info.handle : info \in SensorInfos} |->
                  CHOOSE info \in SensorInfos : info.handle = h]

Init ==
  /\ subHals \in InitializeSubHalList
  /\ InitializeSensorList
  /\ mode = "NORMAL" /\ subMode = [lib \in Libraries |-> "NORMAL"]
  /\ dynamic = {} /\ callback = "old" /\ rpc = "uninitialized" /\ inits = 0
  /\ initialized = {} /\ enabled = {} /\ reports = {} /\ attached = {}
  /\ call = [lib \in Libraries |-> NoCall]
  /\ known = {} /\ wanted = {} /\ wantedReports = {}
  /\ astray = {} /\ raced = FALSE /\ misdirected = {}
-----------------------------------------------------------------------------
(* Calls that the proxy forwards *)

IsSubHalIndexValid(h) == ExtractSubHalIndex(h) < Len(subHals)

(* the sub-HAL a handle is forwarded to, and the handle that is passed on *)
Target(h) == <<subHals[ExtractSubHalIndex(h) + 1], ClearSubHalIndex(h)>>

StaticSensors == UNION {{<<lib, s.handle>> : s \in SensorList[lib]} : lib \in Loaded}

(* a sub-HAL knows its static sensors and those that are attached *)
Exists(target) == target \in StaticSensors \cup attached

(* getSensorsList, and what the framework knows from it and from callbacks *)
Listed == {sensors[h].handle : h \in DOMAIN sensors}
KnownHandles == Listed \cup known

(* the sub-HAL answers BAD_VALUE for a sensor it does not have *)
Activate(h, enable) ==
  /\ rpc = "idle"
  /\ IsSubHalIndexValid(h) /\ Exists(Target(h))
  /\ IF enable THEN enabled' = enabled \cup {Target(h)} /\ wanted' = wanted \cup {h}
               ELSE enabled' = enabled \ {Target(h)}    /\ wanted' = wanted \ {h}
  /\ UNCHANGED <<proxyVars, initVars, initialized, subMode, reports, attached, call, known,
                 wantedReports, history>>

(* the framework looks at the direct flags of a sensor before it starts or  *)
(* stops a report; those of dynamic sensors are as their sub-HAL set them   *)
SupportsDirect(h) ==
  \/ h \in DOMAIN sensors /\ sensors[h].direct
  \/ h \in known /\ Target(h) \in DirectDynamic

(* configDirectReport passes on to the direct channel sub-HAL, whatever     *)
(* sub-HAL the handle names                                                 *)
ConfigDirectReport(h, start) ==
  /\ rpc = "idle" /\ direct # None
  /\ SupportsDirect(h) \/ (~start /\ h \in wantedReports)
  /\ IF start
     THEN /\ reports' = reports \cup {<<direct, ClearSubHalIndex(h)>>}
          /\ wantedReports' = wantedReports \cup {h}
     ELSE /\ reports' = reports \ {<<direct, ClearSubHalIndex(h)>>}
          /\ wantedReports' = wantedReports \ {h}
  /\ misdirected' = IF Target(h)[1] = direct \/ Target(h) \in StaticSensors THEN misdirected
                    ELSE misdirected \cup {ClearSubHalIndex(h)}
  /\ UNCHANGED <<proxyVars, initVars, initialized, subMode, enabled, attached, call, known,
                 wanted, astray, raced>>

(* the handle -1 stops the reports of all sensors and keeps its index, and  *)
(* so does unregisterDirectChannel                                          *)
StopDirectReports ==
  /\ rpc = "idle" /\ direct # None
  /\ reports' = {} /\ wantedReports' = {}
  /\ UNCHANGED <<proxyVars, initVars, initialized, subMode, enabled, attached, call, known,
                 wanted, history>>
-----------------------------------------------------------------------------
(* setOperationMode orders one sub-HAL after the other; the first that      *)
(* fails ends the loop and those before it are ordered back, whether they   *)
(* obey or not                                                              *)
Before(k) == {subHals[n] : n \in 1 .. (k - 1)}

MutantFlipped(k) == Before(k - 1)       \* one is left in the new mode
Flipped(k) == Before(k)

SetOperationMode(m) ==
  /\ rpc = "idle"
  /\ \/ /\ subMode' = [lib \in Libraries |-> IF lib \in Loaded THEN m ELSE subMode[lib]]
        /\ mode' = m
        /\ astray' = {}
     \/ \E failed \in DOMAIN subHals :
        \E stuck \in SUBSET Flipped(failed) :
          /\ subMode' = [lib \in Libraries |->
               IF lib \in Flipped(failed) \ stuck THEN mode
               ELSE IF lib \in Before(failed) THEN m ELSE subMode[lib]]
          /\ astray' = (astray \ Flipped(failed)) \cup stuck
          /\ UNCHANGED mode
  /\ UNCHANGED <<subHals, sensors, direct, dynamic, callback, initVars, initialized, enabled,
                 reports, attached, call, fwkVars, raced, misdirected>>
-----------------------------------------------------------------------------
(* initialize(), called by a framework that just started: it knows nothing  *)

InitializeBegins ==
  /\ rpc \in {"uninitialized", "idle"} /\ inits < MaxInits
  /\ rpc' = "disabling" /\ inits' = inits + 1
  /\ callback' = "old"                  \* the framework it belongs to is gone
  /\ known' = {} /\ wanted' = {} /\ wantedReports' = {}
  /\ UNCHANGED <<subHals, sensors, direct, mode, dynamic, subVars, call, history>>

MutantToDisable == DOMAIN sensors       \* dynamic sensors are forgotten
ToDisable == DOMAIN sensors \cup dynamic

DisableAllSensors ==
  /\ rpc = "disabling"
  /\ rpc' = "clearing"
  /\ enabled' = enabled \ {Target(h) : h \in {s \in ToDisable : IsSubHalIndexValid(s)}}
  /\ UNCHANGED <<proxyVars, inits, initialized, subMode, reports, attached, call, fwkVars,
                 history>>

InCallback == \E lib \in Loaded : call[lib].op \in {"told connected", "told disconnected"}

(* mDynamicSensors.clear(), without mDynamicSensorsMutex *)
ClearDynamicSensors ==
  /\ rpc = "clearing"
  /\ rpc' = "cleared"
  /\ dynamic' = {}
  /\ raced' = (raced \/ InCallback)
  /\ UNCHANGED <<subHals, sensors, direct, mode, callback, inits, subVars, call, fwkVars, astray,
                 misdirected>>

SetDynamicCallback ==
  /\ rpc = "cleared"
  /\ rpc' = "starting"
  /\ callback' = "current"
  /\ raced' = (raced \/ InCallback \/ dynamic # {})
  /\ UNCHANGED <<subHals, sensors, direct, mode, dynamic, inits, subVars, call, fwkVars, astray,
                 misdirected>>

(* the sub-HALs are initialized in order up to the first that fails; the    *)
(* mode of the proxy is NORMAL in any case.  A sub-HAL that is initialized  *)
(* is in normal mode and reports to no direct channel.                      *)
InitializeSubHals ==
  /\ rpc = "starting"
  /\ rpc' = "idle"
  /\ \E failed \in 1 .. (Len(subHals) + 1) :
       /\ initialized' = initialized \cup Before(failed)
       /\ subMode' = [lib \in Libraries |-> IF lib \in Before(failed) THEN "NORMAL"
                                            ELSE subMode[lib]]
       /\ reports' = {t \in reports : t[1] \notin Before(failed)}
       /\ astray' = Loaded \ Before(failed)
  /\ mode' = "NORMAL"
  /\ UNCHANGED <<subHals, sensors, direct, dynamic, callback, inits, enabled, attached, call,
                 fwkVars, raced, misdirected>>

Initialize == InitializeBegins \/ DisableAllSensors \/ ClearDynamicSensors
                \/ SetDynamicCallback \/ InitializeSubHals
-----------------------------------------------------------------------------
(* The threads of the sub-HALs *)

(* a sub-HAL connects sensors, or announces them again *)
Connect(lib, handles) ==
  /\ lib \in initialized /\ call[lib].op = "none"
  /\ call' = [call EXCEPT ![lib] = [op |-> "connect", handles |-> handles]]
  /\ attached' = attached \cup {<<lib, l>> : l \in handles}
  /\ UNCHANGED <<proxyVars, initVars, initialized, subMode, enabled, reports, fwkVars, history>>

Disconnect(lib, handles) ==
  /\ call[lib].op = "none"
  /\ \A l \in handles : <<lib, l>> \in attached
  /\ call' = [call EXCEPT ![lib] = [op |-> "disconnect", handles |-> handles]]
  /\ attached' = attached \ {<<lib, l>> : l \in handles}
  /\ enabled'  = enabled  \ {<<lib, l>> : l \in handles}
  /\ UNCHANGED <<proxyVars, initVars, initialized, subMode, reports, fwkVars, history>>

(* the handles the proxy accepts, with the index of the sub-HAL *)
MutantAccepted(lib) == {l \in call[lib].handles : SubHalIndexIsClear(l)}
Accepted(lib) ==
  {SetSubHalIndex(l, Index(lib)) : l \in {m \in call[lib].handles : SubHalIndexIsClear(m)}}

(* with mDynamicSensorsMutex held, the map is updated *)
UpdateDynamicSensors(lib) ==
  /\ \/ /\ call[lib].op = "connect"
        /\ dynamic' = dynamic \cup Accepted(lib)
        /\ call' = [call EXCEPT ![lib] = [op |-> "told connected", handles |-> Accepted(lib)]]
     \/ /\ call[lib].op = "disconnect"
        /\ dynamic' = dynamic \ Accepted(lib)
        /\ call' = [call EXCEPT ![lib] = [op |-> "told disconnected",
                                          handles |-> Accepted(lib) \cap dynamic]]
  /\ UNCHANGED <<subHals, sensors, direct, mode, callback, initVars, subVars, fwkVars, history>>

(* and the framework is told after the mutex was released *)
TellFramework(lib) ==
  /\ call[lib].op \in {"told connected", "told disconnected"}
  /\ call' = [call EXCEPT ![lib] = NoCall]
  /\ IF callback = "old" THEN UNCHANGED <<known, wanted>>
     ELSE IF call[lib].op = "told connected"
          THEN known' = known \cup call[lib].handles /\ UNCHANGED wanted
          ELSE known' = known \ call[lib].handles /\ wanted' = wanted \ call[lib].handles
  /\ UNCHANGED <<proxyVars, initVars, subVars, wantedReports, history>>

(* looking up the flags of a sensor that is not in mSensors inserts an      *)
(* empty SensorInfo                                                         *)
CountWakeupEvents(lib, l) ==
  /\ rpc = "idle" /\ <<lib, l>> \in attached /\ SubHalIndexIsClear(l)
  /\ LET h == SetSubHalIndex(l, Index(lib))
     IN /\ h \notin DOMAIN sensors
        /\ sensors' = [k \in DOMAIN sensors \cup {h} |->
                          IF k = h THEN [handle |-> 0, direct |-> FALSE] ELSE sensors[k]]
  /\ UNCHANGED <<subHals, direct, mode, dynamic, callback, initVars, subVars, call, fwkVars,
                 history>>

SubHal(lib) ==
  \/ UpdateDynamicSensors(lib) \/ TellFramework(lib)
  \/ \E handles \in DynamicLists[lib] : Connect(lib, handles) \/ Disconnect(lib, handles)
  \/ \E l \in UNION DynamicLists[lib] : CountWakeupEvents(lib, l)

Framework ==
  \/ \E h \in KnownHandles \cup Strangers, enable \in BOOLEAN : Activate(h, enable)
  \/ \E h \in wantedReports \cup KnownHandles, start \in BOOLEAN : ConfigDirectReport(h, start)
  \/ StopDirectReports
  \/ \E m \in Modes : SetOperationMode(m)

Next == Framework \/ Initialize \/ \E lib \in Loaded : SubHal(lib)

Spec == Init /\ [][Next]_vars
-----------------------------------------------------------------------------
(* Every variable has its type. *)
TypeOK ==
  /\ Loaded \subseteq Libraries /\ initialized \subseteq Loaded
  /\ DOMAIN sensors \subseteq Handles
  /\ \A h \in DOMAIN sensors : sensors[h] \in [handle : Handles, direct : BOOLEAN]
  /\ direct \in Loaded \cup {None}
  /\ mode \in Modes /\ subMode \in [Libraries -> Modes]
  /\ {dynamic, known, wanted, wantedReports} \subseteq SUBSET Handles
  /\ enabled \cup reports \subseteq Loaded \X LocalHandles

(* All sub-HALs are in the mode of the proxy, also after a failing sub-HAL  *)
(* made it roll back, unless a sub-HAL refused the rollback or was not      *)
(* reached by a failing initialize() (HalProxy.cpp:133-154,258-267).        *)
ModesAgree == \A lib \in Loaded \ astray : subMode[lib] = mode

(* The active sensors are those the framework of this session enabled:      *)
(* calls reach the sub-HAL and the sensor a handle was given for, whatever  *)
(* libraries could be loaded, and no sensor of an earlier session stays     *)
(* active, unless a dynamic callback overlapped initialize()                *)
(* (HalProxy.cpp:156-162,219,439-442,559-569).                              *)
EnabledAsAsked ==
  rpc = "idle" /\ ~raced =>
    enabled = {t \in StaticSensors \cup attached :
                 SubHalIndexIsClear(t[2]) /\ SetSubHalIndex(t[2], Index(t[1])) \in wanted}

(* The framework and mDynamicSensors agree on the dynamic sensors of each   *)
(* sub-HAL that is not in a callback, although the framework is told after  *)
(* the mutex was released (HalProxy.cpp:391-431).                           *)
DynamicSensorsAgree ==
  rpc = "idle" /\ ~raced =>
    \A lib \in Loaded : call[lib].op = "none" =>
      /\ {h \in known : Target(h)[1] = lib} = {h \in dynamic : Target(h)[1] = lib}
      /\ \A h \in dynamic : Target(h)[1] = lib => Target(h) \in attached

(* A direct report is never configured on a sensor of another sub-HAL:      *)
(* configDirectReport drops the index of the handle, which is right because *)
(* only the sensors of one sub-HAL keep their flags; but dynamic sensors    *)
(* keep theirs, and then sensors with the same local handle are mixed up    *)
(* (HalProxy.cpp:332-347,727-740).                                          *)
DirectReportsReachOwner ==
  rpc = "idle" =>
    \A h \in wantedReports : ClearSubHalIndex(h) \notin misdirected => Target(h) \in reports

(* debug() calls what is in mSensors "non-dynamic sensors across all        *)
(* subhals" (HalProxy.cpp:376): each entry is one, under its own handle.    *)
OnlyStaticSensorsListed ==
  \A h \in DOMAIN sensors : sensors[h].handle = h /\ Target(h) \in StaticSensors
=============================================================================
