------------------------ MODULE ProxyControl_proofs ------------------------
(***************************************************************************)
(* Theorems about ProxyControl, for all libraries, sensors and widths of   *)
(* the two parts of a handle: the types, ModesAgree, EnabledAsAsked,       *)
(* DynamicSensorsAgree and DirectReportsReachOwner.                        *)
(***************************************************************************)
EXTENDS ProxyControl, FiniteSetTheorems, NaturalsInduction, SequenceTheorems, TLAPS

-----------------------------------------------------------------------------
(* Sensor handles *)

(* How many sub-HALs a signed handle can name. *)
MaxSubHals == IndexSize \div 2

(* A handle has a positive half for the handles that name a sub-HAL. *)
LEMMA SizesOfHandles ==
  /\ LocalSize \in Nat /\ LocalSize > 0 /\ MaxSubHals \in Nat /\ MaxSubHals > 0
  /\ MaxSubHals * LocalSize \in Nat /\ MaxSubHals * LocalSize >= MaxSubHals
  /\ HandleSize = 2 * (MaxSubHals * LocalSize) /\ HandleSize \div 2 = MaxSubHals * LocalSize
<1>1. LocalSize \in Nat /\ LocalSize > 0 /\ IndexSize \in Nat /\ IndexSize > 0
      /\ IndexSize % 2 = 0
  BY SizesAssumption
<1>2. IndexSize = 2 * MaxSubHals /\ MaxSubHals \in Nat
  BY <1>1 DEF MaxSubHals
<1>3. MaxSubHals > 0
  BY <1>1, <1>2
<1>4. MaxSubHals * LocalSize \in Nat /\ MaxSubHals * LocalSize >= MaxSubHals
  BY <1>1, <1>2
<1>5. HandleSize = 2 * (MaxSubHals * LocalSize)
  BY <1>1, <1>2 DEF HandleSize
<1>6. HandleSize \div 2 = MaxSubHals * LocalSize
  BY <1>4, <1>5
<1>7. QED
  BY <1>1, <1>2, <1>3, <1>4, <1>5, <1>6

(* A handle gives back the local handle and the index it was made of, in    *)
(* spite of its sign and its width.                                         *)
THEOREM HandleGivesBack ==
  ASSUME NEW l \in LocalHandles, NEW i \in 0 .. MaxSubHals - 1
  PROVE  /\ SetSubHalIndex(l, i) \in Handles
         /\ ExtractSubHalIndex(SetSubHalIndex(l, i)) = i
         /\ ClearSubHalIndex(SetSubHalIndex(l, i)) = l
<1> DEFINE m == MaxSubHals * LocalSize
           h == l + i * LocalSize
<1>1. /\ LocalSize \in Nat /\ LocalSize > 0 /\ MaxSubHals \in Nat /\ m \in Nat
      /\ HandleSize = 2 * m /\ HandleSize \div 2 = m
      /\ l \in Nat /\ l < LocalSize /\ i \in Nat /\ i + 1 <= MaxSubHals
  BY SizesOfHandles DEF LocalHandles
<1>2. h \in Nat /\ h < m
  <2>1. i * LocalSize \in Nat /\ i * LocalSize + LocalSize <= m
    BY <1>1
  <2>2. QED
    BY <1>1, <2>1
<1>3. SetSubHalIndex(l, i) = h
  <2>1. (h + m) % (2 * m) = h + m
    <3> HIDE DEF h, m
    <3>1. 2 * m \in Nat \ {0} /\ h + m \in 0 .. 2 * m - 1
      BY <1>1, <1>2
    <3>2. QED
      BY <3>1
  <2>2. SetSubHalIndex(l, i) = ((h + HandleSize \div 2) % HandleSize) - HandleSize \div 2
    BY DEF SetSubHalIndex, Wrapped
  <2>3. QED
    <3> HIDE DEF h, m
    <3>1. SetSubHalIndex(l, i) = ((h + m) % (2 * m)) - m
      BY <1>1, <2>2
    <3>2. QED
      BY <1>1, <1>2, <2>1, <3>1
<1>4. h \div LocalSize = i /\ h % LocalSize = l
  BY <1>1
<1>5. h \in Handles
  <2> HIDE DEF h, m
  <2>1. QED
    BY <1>1, <1>2 DEF Handles
<1>6. QED
  <2> HIDE DEF h, m
  <2>1. QED
    BY <1>1, <1>3, <1>4, <1>5 DEF ExtractSubHalIndex, ClearSubHalIndex

(* A handle is made of its index and its local handle, if the index is      *)
(* valid; the index of a negative handle never is.                          *)
THEOREM HandleIsMadeOf ==
  ASSUME NEW h \in Handles, NEW n \in 0 .. MaxSubHals, ExtractSubHalIndex(h) < n
  PROVE  /\ ExtractSubHalIndex(h) \in 0 .. n - 1
         /\ ClearSubHalIndex(h) \in LocalHandles
         /\ SetSubHalIndex(ClearSubHalIndex(h), ExtractSubHalIndex(h)) = h
<1> DEFINE m == MaxSubHals * LocalSize
           i == h \div LocalSize
           l == h % LocalSize
<1>1. /\ LocalSize \in Nat \ {0} /\ MaxSubHals \in Nat /\ m \in Nat /\ m >= MaxSubHals
      /\ HandleSize = 2 * m /\ h \in Int /\ h >= -m /\ h < m /\ n \in Nat /\ n <= MaxSubHals
  BY SizesOfHandles DEF Handles
<1>2. i \in Int /\ l \in 0 .. LocalSize - 1 /\ h = (LocalSize * i) + l
  BY <1>1
<1>3. i >= -MaxSubHals
  <2>1. SUFFICES ASSUME i + 1 <= -MaxSubHals PROVE FALSE
    BY <1>1, <1>2
  <2>2. (i + 1) * LocalSize <= (-MaxSubHals) * LocalSize
    BY <1>1, <1>2, <2>1
  <2>3. QED
    BY <1>1, <1>2, <2>2
<1>4. ExtractSubHalIndex(h) = IF i < 0 THEN i + HandleSize ELSE i
  BY DEF ExtractSubHalIndex
<1>5. i >= 0
  <2> HIDE DEF i, l, m
  <2>1. QED
    BY <1>1, <1>2, <1>3, <1>4
<1>6. ExtractSubHalIndex(h) = i /\ i \in 0 .. n - 1
  <2> HIDE DEF i, l, m
  <2>1. QED
    BY <1>1, <1>2, <1>4, <1>5
<1>7. SetSubHalIndex(l, i) = h
  <2>1. h + m \in 0 .. 2 * m - 1 /\ 2 * m \in Nat \ {0}
    <3>1. h >= 0
      BY <1>1, <1>2, <1>5
    <3> HIDE DEF i, l, m
    <3>2. QED
      BY <1>1, <3>1
  <2>2. (h + m) % (2 * m) = h + m
    <3> HIDE DEF m
    <3>1. QED
      BY <2>1
  <2>3. l + i * LocalSize = h
    BY <1>1, <1>2
  <2>4. HandleSize \div 2 = m
    BY SizesOfHandles
  <2>5. SetSubHalIndex(l, i) = ((h + m) % (2 * m)) - m
    <3> HIDE DEF i, l, m
    <3>1. QED
      BY <1>1, <2>3, <2>4 DEF SetSubHalIndex, Wrapped
  <2>6. QED
    <3> HIDE DEF i, l, m
    <3>1. QED
      BY <1>1, <2>2, <2>5
<1>8. QED
  BY <1>2, <1>6, <1>7 DEF ClearSubHalIndex, LocalHandles
-----------------------------------------------------------------------------
(* The inductive invariant *)

(* The libraries that were loaded, and the direct channel sub-HAL. *)
ListInv ==
  /\ subHals \in Seq(Libraries) /\ IsInjective(subHals) /\ Len(subHals) <= Len(Config)
  /\ direct \in Loaded \cup {None}

Valid == {h \in Handles : IsSubHalIndexValid(h)}
Owner(h) == Target(h)[1]
HandleOf(t) == SetSubHalIndex(t[2], Index(t[1]))

(* What getSensorsList returns: the static sensors, and the empty entries   *)
(* of countNumWakeupEvents.                                                 *)
SensorInv ==
  /\ DOMAIN sensors \subseteq Valid
  /\ \A h \in DOMAIN sensors :
       /\ sensors[h] \in [handle : Handles, direct : BOOLEAN]
       /\ sensors[h].handle = 0 \/ (sensors[h].handle = h /\ Target(h) \in StaticSensors)
       /\ sensors[h].direct => Target(h) \in StaticSensors /\ Owner(h) = direct
  /\ \A t \in StaticSensors : SubHalIndexIsClear(t[2]) => HandleOf(t) \in DOMAIN sensors

Ops == {"none", "connect", "disconnect", "told connected", "told disconnected"}

(* What a sub-HAL announces in a callback is what is attached. *)
CallFits(lib) ==
  /\ call[lib].op \in {"connect", "disconnect"} => call[lib].handles \in DynamicLists[lib]
  /\ call[lib].op = "connect" => \A l \in call[lib].handles : <<lib, l>> \in attached
  /\ call[lib].op = "disconnect" => \A l \in call[lib].handles : <<lib, l>> \notin attached
  /\ call[lib].op \in {"told connected", "told disconnected"} =>
       \A h \in call[lib].handles :
         h \in Valid /\ Owner(h) = lib /\ Target(h)[2] \in UNION DynamicLists[lib]
  /\ call[lib].op = "told connected" => \A h \in call[lib].handles : Target(h) \in attached
  /\ call[lib].op = "told disconnected" =>
       \A h \in call[lib].handles : Target(h) \notin attached

CallInv ==
  /\ initialized \subseteq Loaded
  /\ attached \subseteq initialized \X Handles
  /\ \A t \in attached : t[2] \in UNION DynamicLists[t[1]]
  /\ call \in [Libraries -> [op : Ops, handles : SUBSET Handles]]
  /\ \A lib \in Loaded : CallFits(lib)

(* A session begins with a framework that knows nothing. *)
SessionInv ==
  /\ rpc \in {"uninitialized", "disabling", "clearing", "cleared", "starting", "idle"}
  /\ callback = IF rpc \in {"starting", "idle"} THEN "current" ELSE "old"
  /\ rpc \notin {"starting", "idle"} => known = {}
  /\ rpc # "idle" => wanted = {} /\ wantedReports = {}

(* What the framework knows differs from mDynamicSensors by what it is just *)
(* being told.                                                              *)
KnownOrTold(h) ==
  LET c == call[Owner(h)]
  IN \/ c.op = "told connected" /\ h \in known \cup c.handles
     \/ c.op = "told disconnected" /\ h \in known \ c.handles
     \/ c.op \notin {"told connected", "told disconnected"} /\ h \in known

DynamicFits(lib) ==
  \A h \in Valid : Owner(h) = lib =>
    /\ h \in dynamic <=> KnownOrTold(h)
    /\ h \in dynamic /\ Target(h) \notin attached =>
         call[lib].op = "disconnect" /\ Target(h)[2] \in call[lib].handles

DynamicInv ==
  /\ dynamic \cup known \subseteq Valid
  /\ \A h \in dynamic \cup known : Target(h)[2] \in UNION DynamicLists[Owner(h)]
  /\ ~raced /\ rpc \in {"starting", "idle"} => \A lib \in Loaded : DynamicFits(lib)

(* A sensor is active because it is wanted, and what is wanted can be       *)
(* disabled by the next initialize().                                       *)
WantedFits(h) ==
  /\ h \in wanted =>
       \/ Target(h) \in StaticSensors \/ h \in dynamic
       \/ call[Owner(h)].op = "told disconnected" /\ h \in call[Owner(h)].handles
  /\ Target(h) \in enabled <=> Target(h) \in StaticSensors \cup attached /\ h \in wanted

EnableInv ==
  /\ wanted \subseteq Valid
  /\ enabled \subseteq (StaticSensors \cup attached) \cap (Loaded \X LocalHandles)
  /\ ~raced /\ rpc = "idle" => \A h \in Valid : WantedFits(h)
  /\ ~raced /\ rpc \in {"uninitialized", "disabling"} =>
       \A t \in enabled : t \in StaticSensors \/ HandleOf(t) \in dynamic
  /\ ~raced /\ rpc \in {"clearing", "cleared", "starting"} => enabled = {}

(* A report that was not for the direct channel sub-HAL is on record. *)
ReportInv ==
  /\ reports \subseteq Loaded \X LocalHandles
  /\ wantedReports \subseteq Valid
  /\ \A h \in wantedReports : Target(h)[2] \notin misdirected =>
       Owner(h) = direct /\ Target(h) \in reports

ModeInv == mode \in Modes /\ subMode \in [Libraries -> Modes] /\ ModesAgree

ControlInv ==
  /\ ListInv /\ SensorInv /\ CallInv /\ SessionInv
  /\ DynamicInv /\ EnableInv /\ ReportInv /\ ModeInv
-----------------------------------------------------------------------------
(* Names of sensors: the handle of a sensor leads back to it *)

(* The index of a loaded library is its place in the list, less one, and    *)
(* small enough for a handle.                                               *)
LEMMA IndexIsPlace ==
  ASSUME ListInv
  PROVE  /\ Len(subHals) \in 0 .. MaxSubHals /\ DOMAIN subHals = 1 .. Len(subHals)
         /\ Loaded \subseteq Libraries /\ None \notin Loaded
         /\ \A n \in DOMAIN subHals : subHals[n] \in Loaded /\ Index(subHals[n]) = n - 1
         /\ \A lib \in Loaded : Index(lib) + 1 \in DOMAIN subHals /\ subHals[Index(lib) + 1] = lib
<1>1. /\ Len(subHals) \in Nat /\ DOMAIN subHals = 1 .. Len(subHals)
      /\ \A n \in DOMAIN subHals : subHals[n] \in Libraries
  BY DEF ListInv
<1>2. Len(subHals) <= MaxSubHals
  BY <1>1, SizesOfHandles, HandlesHaveRoom DEF ListInv, MaxSubHals
<1>3. \A lib : lib \in Loaded <=> \E n \in DOMAIN subHals : lib = subHals[n]
  BY DEF Loaded, ToSet
<1>4. ASSUME NEW n \in DOMAIN subHals
      PROVE  Index(subHals[n]) = n - 1
  <2> DEFINE k == CHOOSE m \in DOMAIN subHals : subHals[m] = subHals[n]
  <2>1. k \in DOMAIN subHals /\ subHals[k] = subHals[n]
    OBVIOUS
  <2>2. k = n
    BY <2>1 DEF ListInv, IsInjective
  <2>3. QED
    BY <2>2 DEF Index
<1>5. \A lib \in Loaded : Index(lib) + 1 \in DOMAIN subHals /\ subHals[Index(lib) + 1] = lib
  <2>1. SUFFICES ASSUME NEW lib \in Loaded
                 PROVE  Index(lib) + 1 \in DOMAIN subHals /\ subHals[Index(lib) + 1] = lib
    OBVIOUS
  <2>2. PICK n \in DOMAIN subHals : lib = subHals[n]
    BY <1>3
  <2>3. Index(lib) = n - 1 /\ n \in Nat
    BY <1>1, <1>4, <2>2
  <2>4. Index(lib) + 1 = n
    BY <2>3
  <2>5. QED
    BY <2>2, <2>4
<1>6. Loaded \subseteq Libraries /\ None \notin Loaded
  BY <1>1, <1>3, HandlesHaveRoom
<1>7. QED
  BY <1>1, <1>2, <1>3, <1>4, <1>5, <1>6

(* The handle that the proxy gives a sensor is valid, and calls with it     *)
(* reach that sensor; every valid handle is such a handle.                  *)
LEMMA NamesAreRight ==
  ASSUME ListInv
  PROVE  /\ \A lib \in Loaded, l \in LocalHandles :
              /\ SetSubHalIndex(l, Index(lib)) \in Valid
              /\ Target(SetSubHalIndex(l, Index(lib))) = <<lib, l>>
         /\ \A h \in Valid : Target(h) \in Loaded \X LocalHandles /\ HandleOf(Target(h)) = h
<1>1. /\ Len(subHals) \in 0 .. MaxSubHals /\ DOMAIN subHals = 1 .. Len(subHals)
      /\ \A n \in DOMAIN subHals : subHals[n] \in Loaded /\ Index(subHals[n]) = n - 1
      /\ \A lib \in Loaded : Index(lib) + 1 \in DOMAIN subHals /\ subHals[Index(lib) + 1] = lib
      /\ MaxSubHals \in Nat
  BY IndexIsPlace, SizesOfHandles
<1>2. ASSUME NEW lib \in Loaded, NEW l \in LocalHandles
      PROVE  /\ SetSubHalIndex(l, Index(lib)) \in Valid
             /\ Target(SetSubHalIndex(l, Index(lib))) = <<lib, l>>
  <2>1. Index(lib) \in 0 .. MaxSubHals - 1 /\ Index(lib) < Len(subHals)
    <3>1. PICK n \in DOMAIN subHals : n = Index(lib) + 1 /\ subHals[n] = lib
      BY <1>1
    <3>2. Index(lib) = n - 1
      BY <1>1, <3>1
    <3>3. QED
      BY <1>1, <3>2
  <2> DEFINE h == SetSubHalIndex(l, Index(lib))
  <2>2. h \in Handles /\ ExtractSubHalIndex(h) = Index(lib) /\ ClearSubHalIndex(h) = l
    BY <2>1, HandleGivesBack
  <2>3. QED
    BY <1>1, <2>1, <2>2 DEF Valid, IsSubHalIndexValid, Target
<1>3. ASSUME NEW h \in Valid
      PROVE  Target(h) \in Loaded \X LocalHandles /\ HandleOf(Target(h)) = h
  <2> DEFINE i == ExtractSubHalIndex(h)
  <2>1. h \in Handles /\ i < Len(subHals)
    BY DEF Valid, IsSubHalIndexValid
  <2>2. /\ i \in 0 .. Len(subHals) - 1 /\ ClearSubHalIndex(h) \in LocalHandles
        /\ SetSubHalIndex(ClearSubHalIndex(h), i) = h
    BY <1>1, <2>1, HandleIsMadeOf
  <2> HIDE DEF i
  <2>3. i + 1 \in DOMAIN subHals /\ Index(subHals[i + 1]) = i /\ subHals[i + 1] \in Loaded
    BY <1>1, <2>2
  <2>4. Target(h) = <<subHals[i + 1], ClearSubHalIndex(h)>>
    BY DEF Target, i
  <2>5. QED
    BY <2>2, <2>3, <2>4 DEF HandleOf
<1>4. QED
  BY <1>2, <1>3

(* The names last as long as the proxy: the constructor made the list, and  *)
(* nothing changes it.                                                      *)
LEMMA ListStays ==
  ASSUME [Next]_vars
  PROVE  subHals' = subHals /\ direct' = direct
<1>1. CASE Framework
  BY <1>1 DEF Framework, Activate, ConfigDirectReport, StopDirectReports, SetOperationMode,
     proxyVars
<1>2. CASE Initialize
  BY <1>2 DEF Initialize, InitializeBegins, DisableAllSensors, ClearDynamicSensors,
     SetDynamicCallback, InitializeSubHals, proxyVars
<1>3. CASE \E lib \in Loaded : SubHal(lib)
  BY <1>3 DEF SubHal, UpdateDynamicSensors, TellFramework, Connect, Disconnect,
     CountWakeupEvents, proxyVars
<1>4. CASE UNCHANGED vars
  BY <1>4 DEF vars, proxyVars
<1>5. QED
  BY <1>1, <1>2, <1>3, <1>4 DEF Next

(* While the list stays, handles keep their meaning.                        *)
LEMMA NamesStay ==
  ASSUME subHals' = subHals
  PROVE  /\ Loaded' = Loaded /\ StaticSensors' = StaticSensors /\ Valid' = Valid
         /\ \A lib : Index(lib)' = Index(lib)
         /\ \A h : Target(h)' = Target(h) /\ Owner(h)' = Owner(h)
         /\ \A t : HandleOf(t)' = HandleOf(t)
<1>1. Loaded' = Loaded /\ \A lib : Index(lib)' = Index(lib)
  BY DEF Loaded, Index
<1>2. Valid' = Valid /\ \A h : Target(h)' = Target(h)
  BY DEF Valid, IsSubHalIndexValid, Target
<1>3. QED
  BY <1>1, <1>2 DEF StaticSensors, Owner, HandleOf
-----------------------------------------------------------------------------
(* The sensor list and the callbacks *)

(* Only an empty entry for a dynamic sensor may join the sensor list.       *)
LEMMA SensorInductive ==
  ASSUME ListInv, SensorInv, CallInv, [Next]_vars
  PROVE  SensorInv'
<1>1. /\ subHals' = subHals /\ direct' = direct
      /\ StaticSensors' = StaticSensors /\ Valid' = Valid
      /\ \A h : Target(h)' = Target(h) /\ Owner(h)' = Owner(h)
      /\ \A t : HandleOf(t)' = HandleOf(t)
  BY ListStays, NamesStay
<1>2. CASE UNCHANGED sensors
  BY <1>1, <1>2 DEF SensorInv
<1>3. ASSUME NEW lib \in Loaded, NEW l, CountWakeupEvents(lib, l)
      PROVE  SensorInv'
  <2> DEFINE new == SetSubHalIndex(l, Index(lib))
             empty == [handle |-> 0, direct |-> FALSE]
  <2>1. new \in Valid /\ 0 \in Handles
    <3>1. l \in LocalHandles
      BY <1>3 DEF CountWakeupEvents, SubHalIndexIsClear
    <3>2. 0 \in Handles
      BY SizesOfHandles DEF Handles
    <3>3. QED
      BY <3>1, <3>2, NamesAreRight
  <2>2. /\ DOMAIN sensors' = DOMAIN sensors \cup {new}
        /\ sensors'[new] = empty
        /\ \A k \in DOMAIN sensors : sensors'[k] = sensors[k]
    BY <1>3 DEF CountWakeupEvents
  <2> HIDE DEF new
  <2>3. \A h \in DOMAIN sensors' :
          /\ h \in Valid /\ sensors'[h] \in [handle : Handles, direct : BOOLEAN]
          /\ sensors'[h].handle = 0 \/ (sensors'[h].handle = h /\ Target(h) \in StaticSensors)
          /\ sensors'[h].direct => Target(h) \in StaticSensors /\ Owner(h) = direct
    <3>1. SUFFICES ASSUME NEW h \in DOMAIN sensors'
                   PROVE  /\ h \in Valid /\ sensors'[h] \in [handle : Handles, direct : BOOLEAN]
                          /\ \/ sensors'[h].handle = 0
                             \/ sensors'[h].handle = h /\ Target(h) \in StaticSensors
                          /\ sensors'[h].direct => Target(h) \in StaticSensors /\ Owner(h) = direct
      OBVIOUS
    <3>2. CASE h \in DOMAIN sensors
      BY <2>2, <3>2 DEF SensorInv
    <3>3. CASE h \notin DOMAIN sensors
      <4>1. h = new /\ sensors'[h] = empty
        BY <2>2, <3>3
      <4>2. QED
        BY <2>1, <4>1
    <3>4. QED
      BY <3>2, <3>3
  <2>4. \A t \in StaticSensors : SubHalIndexIsClear(t[2]) => HandleOf(t) \in DOMAIN sensors'
    BY <2>2 DEF SensorInv
  <2>5. QED
    BY <1>1, <2>3, <2>4 DEF SensorInv
<1>4. UNCHANGED sensors \/ \E lib \in Loaded : \E l : CountWakeupEvents(lib, l)
  <2>1. CASE Framework
    BY <2>1 DEF Framework, Activate, ConfigDirectReport, StopDirectReports, SetOperationMode,
       proxyVars
  <2>2. CASE Initialize
    BY <2>2 DEF Initialize, InitializeBegins, DisableAllSensors, ClearDynamicSensors,
       SetDynamicCallback, InitializeSubHals, proxyVars
  <2>3. CASE \E lib \in Loaded : SubHal(lib)
    BY <2>3 DEF SubHal, UpdateDynamicSensors, TellFramework, Connect, Disconnect, proxyVars
  <2>4. CASE UNCHANGED vars
    BY <2>4 DEF vars, proxyVars
  <2>5. QED
    BY <2>1, <2>2, <2>3, <2>4 DEF Next
<1>5. QED
  BY <1>2, <1>3, <1>4

(* The handles that the proxy accepts are those of the sub-HAL's sensors. *)
LEMMA AcceptedAreOwn ==
  ASSUME ListInv, CallInv, NEW lib \in Loaded, call[lib].op \in {"connect", "disconnect"}
  PROVE  /\ call[lib].handles \subseteq Handles /\ call[lib].handles \in DynamicLists[lib]
         /\ Accepted(lib) \subseteq Valid
         /\ \A h \in Accepted(lib) : /\ Owner(h) = lib /\ Target(h) = <<lib, Target(h)[2]>>
                                     /\ Target(h)[2] \in call[lib].handles
         /\ \A h \in Valid : Owner(h) = lib /\ Target(h)[2] \in call[lib].handles =>
                               h \in Accepted(lib)
<1>1. lib \in Libraries /\ call[lib].handles \in DynamicLists[lib]
  BY IndexIsPlace DEF CallInv, CallFits
<1>2. call[lib].handles \subseteq Handles
  BY <1>1, SensorsAreNumbered
<1>3. ASSUME NEW h \in Accepted(lib)
      PROVE  /\ h \in Valid /\ Owner(h) = lib /\ Target(h) = <<lib, Target(h)[2]>>
             /\ Target(h)[2] \in call[lib].handles
  <2>1. PICK l \in call[lib].handles : l \in LocalHandles /\ h = SetSubHalIndex(l, Index(lib))
    BY DEF Accepted, SubHalIndexIsClear
  <2>2. h \in Valid /\ Target(h) = <<lib, l>>
    BY <2>1, NamesAreRight
  <2>3. QED
    BY <2>1, <2>2 DEF Owner
<1>4. ASSUME NEW h \in Valid, Owner(h) = lib, Target(h)[2] \in call[lib].handles
      PROVE  h \in Accepted(lib)
  <2>1. Target(h) \in Loaded \X LocalHandles /\ HandleOf(Target(h)) = h
    BY NamesAreRight
  <2>2. Target(h)[2] \in LocalHandles /\ h = SetSubHalIndex(Target(h)[2], Index(lib))
    BY <1>4, <2>1 DEF HandleOf, Owner
  <2>3. QED
    BY <1>4, <2>2 DEF Accepted, SubHalIndexIsClear
<1>5. QED
  BY <1>1, <1>2, <1>3, <1>4

(* A step that is about one sub-HAL leaves the callbacks of the others. *)
LEMMA OthersFit ==
  ASSUME CallInv, NEW lib, subHals' = subHals,
         \A other \in Loaded \ {lib} : call'[other] = call[other],
         \A t : t[1] # lib => (t \in attached' <=> t \in attached)
  PROVE  \A other \in Loaded \ {lib} : CallFits(other)'
<1>1. /\ Loaded' = Loaded /\ Valid' = Valid
      /\ \A h : Target(h)' = Target(h) /\ Owner(h)' = Owner(h)
  BY NamesStay
<1>2. SUFFICES ASSUME NEW other \in Loaded \ {lib}
               PROVE  CallFits(other)'
  OBVIOUS
<1>3. CallFits(other) /\ call'[other] = call[other]
  BY DEF CallInv
<1>4. \A l : <<other, l>> \in attached' <=> <<other, l>> \in attached
  OBVIOUS
<1>5. \A h : Owner(h) = other => (Target(h) \in attached' <=> Target(h) \in attached)
  BY DEF Owner
<1>6. QED
  BY <1>1, <1>3, <1>4, <1>5 DEF CallFits

(* A callback of a sub-HAL announces what is attached, or what was, until   *)
(* it returns.                                                              *)
LEMMA CallInductive ==
  ASSUME ListInv, CallInv, DynamicInv, [Next]_vars
  PROVE  CallInv'
<1>1. /\ subHals' = subHals /\ Loaded' = Loaded /\ Valid' = Valid /\ Loaded \subseteq Libraries
      /\ \A h : Target(h)' = Target(h) /\ Owner(h)' = Owner(h)
  BY ListStays, NamesStay, IndexIsPlace
<1>2. CASE UNCHANGED <<initialized, attached, call>>
  BY <1>1, <1>2 DEF CallInv, CallFits
<1>3. CASE InitializeSubHals
  <2>1. initialized \subseteq initialized' /\ UNCHANGED <<attached, call>>
    BY <1>3 DEF InitializeSubHals
  <2>2. initialized' \subseteq Loaded
    <3>1. PICK failed \in 1 .. (Len(subHals) + 1) : initialized' = initialized \cup Before(failed)
      BY <1>3 DEF InitializeSubHals
    <3>2. Before(failed) \subseteq Loaded
      BY IndexIsPlace DEF Before
    <3>3. QED
      BY <3>1, <3>2 DEF CallInv
  <2>3. QED
    BY <1>1, <2>1, <2>2 DEF CallInv, CallFits
<1>4. ASSUME NEW lib \in Loaded, NEW handles \in DynamicLists[lib], Connect(lib, handles)
      PROVE  CallInv'
  <2>1. /\ lib \in Libraries /\ handles \subseteq Handles
        /\ \A t \in attached : t \in Loaded \X Handles /\ t[2] \in UNION DynamicLists[t[1]]
    BY <1>1, SensorsAreNumbered DEF CallInv
  <2>2. /\ call' = [call EXCEPT ![lib] = [op |-> "connect", handles |-> handles]]
        /\ attached' = attached \cup {<<lib, l>> : l \in handles} /\ lib \in initialized
        /\ initialized' = initialized
    BY <1>4 DEF Connect
  <2>3. /\ call' \in [Libraries -> [op : Ops, handles : SUBSET Handles]]
        /\ call'[lib] = [op |-> "connect", handles |-> handles]
        /\ \A other \in Loaded \ {lib} : call'[other] = call[other]
    BY <1>1, <2>1, <2>2 DEF CallInv, Ops
  <2>4. \A other \in Loaded \ {lib} : CallFits(other)'
    BY <1>1, <2>2, <2>3, OthersFit
  <2>5. CallFits(lib)'
    BY <1>1, <2>2, <2>3 DEF CallFits
  <2>6. attached' \subseteq initialized' \X Handles
        /\ \A t \in attached' : t[2] \in UNION DynamicLists[t[1]]
    <3>1. ASSUME NEW t \in attached'
          PROVE  t \in initialized \X Handles /\ t[2] \in UNION DynamicLists[t[1]]
      <4>1. CASE t \in attached
        BY <4>1 DEF CallInv
      <4>2. CASE t \notin attached
        <5>1. PICK l \in handles : t = <<lib, l>>
          BY <2>2, <4>2
        <5>2. l \in Handles /\ l \in UNION DynamicLists[lib]
          BY <2>1
        <5>3. QED
          BY <2>2, <5>1, <5>2
      <4>3. QED
        BY <4>1, <4>2
    <3>2. QED
      BY <2>2, <3>1
  <2>7. QED
    BY <1>1, <2>2, <2>3, <2>4, <2>5, <2>6 DEF CallInv
<1>5. ASSUME NEW lib \in Loaded, NEW handles \in DynamicLists[lib], Disconnect(lib, handles)
      PROVE  CallInv'
  <2>1. lib \in Libraries /\ handles \subseteq Handles
    BY <1>1, SensorsAreNumbered DEF CallInv
  <2>2. /\ call' = [call EXCEPT ![lib] = [op |-> "disconnect", handles |-> handles]]
        /\ attached' = attached \ {<<lib, l>> : l \in handles}
        /\ initialized' = initialized
    BY <1>5 DEF Disconnect
  <2>3. /\ call' \in [Libraries -> [op : Ops, handles : SUBSET Handles]]
        /\ call'[lib] = [op |-> "disconnect", handles |-> handles]
        /\ \A other \in Loaded \ {lib} : call'[other] = call[other]
    BY <1>1, <2>1, <2>2 DEF CallInv, Ops
  <2>4. \A other \in Loaded \ {lib} : CallFits(other)'
    BY <1>1, <2>2, <2>3, OthersFit
  <2>5. CallFits(lib)'
    BY <1>1, <2>2, <2>3 DEF CallFits
  <2>6. attached' \subseteq initialized' \X Handles
        /\ \A t \in attached' : t[2] \in UNION DynamicLists[t[1]]
    BY <2>2 DEF CallInv
  <2>7. QED
    BY <1>1, <2>2, <2>3, <2>4, <2>5, <2>6 DEF CallInv
<1>6. ASSUME NEW lib \in Loaded, UpdateDynamicSensors(lib)
      PROVE  CallInv'
  <2>1. PICK told \in SUBSET Accepted(lib), op \in {"told connected", "told disconnected"} :
          /\ call[lib].op = (IF op = "told connected" THEN "connect" ELSE "disconnect")
          /\ call' = [call EXCEPT ![lib] = [op |-> op, handles |-> told]]
          /\ UNCHANGED <<initialized, attached>>
    <3>1. CASE call[lib].op = "connect"
      BY <1>6, <3>1 DEF UpdateDynamicSensors, subVars
    <3>2. CASE call[lib].op = "disconnect"
      BY <1>6, <3>2 DEF UpdateDynamicSensors, subVars
    <3>3. QED
      BY <1>6, <3>1, <3>2 DEF UpdateDynamicSensors
  <2>2. /\ call[lib].handles \in DynamicLists[lib] /\ Accepted(lib) \subseteq Valid
        /\ \A h \in Accepted(lib) : /\ Owner(h) = lib /\ Target(h) = <<lib, Target(h)[2]>>
                                    /\ Target(h)[2] \in call[lib].handles
    BY <2>1, AcceptedAreOwn
  <2>3. told \subseteq Handles
    BY <2>2 DEF Valid
  <2>4. /\ call' \in [Libraries -> [op : Ops, handles : SUBSET Handles]]
        /\ call'[lib] = [op |-> op, handles |-> told]
        /\ \A other \in Loaded \ {lib} : call'[other] = call[other]
    BY <1>1, <2>1, <2>3 DEF CallInv, Ops
  <2>5. CallFits(lib)'
    <3>1. \A h \in told :
            /\ h \in Valid /\ Owner(h) = lib /\ Target(h)[2] \in UNION DynamicLists[lib]
            /\ Target(h) = <<lib, Target(h)[2]>> /\ Target(h)[2] \in call[lib].handles
      BY <2>2
    <3>2. CASE op = "told connected"
      <4>1. \A l \in call[lib].handles : <<lib, l>> \in attached
        BY <2>1, <3>2 DEF CallInv, CallFits
      <4>2. \A h \in told : Target(h) \in attached
        BY <3>1, <4>1, Zenon
      <4>3. QED
        BY <1>1, <2>1, <2>4, <3>1, <3>2, <4>2 DEF CallFits
    <3>3. CASE op = "told disconnected"
      <4>1. \A l \in call[lib].handles : <<lib, l>> \notin attached
        BY <2>1, <3>3 DEF CallInv, CallFits
      <4>2. \A h \in told : Target(h) \notin attached
        BY <3>1, <4>1, Zenon
      <4>3. QED
        BY <1>1, <2>1, <2>4, <3>1, <3>3, <4>2 DEF CallFits
    <3>4. QED
      BY <3>2, <3>3
  <2>6. \A other \in Loaded \ {lib} : CallFits(other)'
    BY <1>1, <2>1, <2>4, OthersFit
  <2>7. QED
    BY <1>1, <2>1, <2>4, <2>5, <2>6 DEF CallInv
<1>7. ASSUME NEW lib \in Loaded, TellFramework(lib)
      PROVE  CallInv'
  <2>1. /\ call' = [call EXCEPT ![lib] = NoCall] /\ UNCHANGED <<initialized, attached>>
    BY <1>7 DEF TellFramework, subVars
  <2>2. /\ call' \in [Libraries -> [op : Ops, handles : SUBSET Handles]]
        /\ call'[lib] = [op |-> "none", handles |-> {}]
        /\ \A other \in Loaded \ {lib} : call'[other] = call[other]
    BY <1>1, <2>1 DEF CallInv, Ops, NoCall
  <2>3. CallFits(lib)'
    BY <2>2 DEF CallFits
  <2>4. \A other \in Loaded \ {lib} : CallFits(other)'
    BY <1>1, <2>1, <2>2, OthersFit
  <2>5. QED
    BY <1>1, <2>1, <2>2, <2>3, <2>4 DEF CallInv
<1>8. CASE Framework
  BY <1>2, <1>8 DEF Framework, Activate, ConfigDirectReport, StopDirectReports, SetOperationMode
<1>9. CASE Initialize
  BY <1>2, <1>3, <1>9 DEF Initialize, InitializeBegins, DisableAllSensors, ClearDynamicSensors,
     SetDynamicCallback, subVars
<1>10. CASE UNCHANGED vars
  BY <1>2, <1>10 DEF vars, subVars
<1>11. ASSUME NEW lib \in Loaded, NEW l, CountWakeupEvents(lib, l)
       PROVE  CallInv'
  BY <1>2, <1>11 DEF CountWakeupEvents, subVars
<1>12. QED
  BY <1>4, <1>5, <1>6, <1>7, <1>8, <1>9, <1>10, <1>11 DEF Next, SubHal
-----------------------------------------------------------------------------
(* Sessions and dynamic sensors *)

(* Each stage of initialize() leaves a framework that knows no dynamic      *)
(* sensor before its callback is set.                                       *)
LEMMA SessionInductive ==
  ASSUME SessionInv, [Next]_vars
  PROVE  SessionInv'
<1>1. CASE Framework
  <2>1. rpc = "idle" /\ UNCHANGED <<rpc, callback>>
    BY <1>1 DEF Framework, Activate, ConfigDirectReport, StopDirectReports, SetOperationMode,
       proxyVars, initVars
  <2>2. QED
    BY <2>1 DEF SessionInv
<1>2. CASE Initialize
  BY <1>2 DEF Initialize, InitializeBegins, DisableAllSensors, ClearDynamicSensors,
     SetDynamicCallback, InitializeSubHals, proxyVars, fwkVars, SessionInv
<1>3. CASE \E lib \in Loaded : SubHal(lib)
  <2>1. CASE UNCHANGED <<rpc, callback, fwkVars>>
    BY <2>1 DEF SessionInv, fwkVars
  <2>2. ASSUME NEW lib \in Loaded, TellFramework(lib)
        PROVE  SessionInv'
    <3>1. UNCHANGED <<rpc, callback, wantedReports>>
      BY <2>2 DEF TellFramework, proxyVars, initVars
    <3>2. callback = "old" => UNCHANGED known
      BY <2>2 DEF TellFramework
    <3>3. wanted = {} => wanted' = {}
      BY <2>2 DEF TellFramework
    <3>4. QED
      BY <3>1, <3>2, <3>3 DEF SessionInv
  <2>3. QED
    BY <1>3, <2>1, <2>2 DEF SubHal, UpdateDynamicSensors, Connect, Disconnect,
       CountWakeupEvents, proxyVars, initVars
<1>4. CASE UNCHANGED vars
  BY <1>4 DEF vars, proxyVars, initVars, fwkVars, SessionInv
<1>5. QED
  BY <1>1, <1>2, <1>3, <1>4 DEF Next

(* A step that is about one sub-HAL leaves the dynamic sensors of others. *)
LEMMA OthersAgree ==
  ASSUME NEW lib, subHals' = subHals,
         \A other \in Loaded \ {lib} : DynamicFits(other) /\ call'[other] = call[other],
         \A t : t[1] # lib => (t \in attached' <=> t \in attached),
         \A h \in Valid : Owner(h) # lib => /\ h \in dynamic' <=> h \in dynamic
                                            /\ h \in known' <=> h \in known
  PROVE  \A other \in Loaded \ {lib} : DynamicFits(other)'
<1>1. /\ Loaded' = Loaded /\ Valid' = Valid
      /\ \A h : Target(h)' = Target(h) /\ Owner(h)' = Owner(h)
  BY NamesStay
<1>2. SUFFICES ASSUME NEW other \in Loaded \ {lib}, NEW h \in Valid, Owner(h) = other
               PROVE  /\ h \in dynamic' <=> KnownOrTold(h)'
                      /\ h \in dynamic' /\ Target(h) \notin attached' =>
                           /\ call'[other].op = "disconnect"
                           /\ Target(h)[2] \in call'[other].handles
  BY <1>1 DEF DynamicFits
<1>3. call'[other] = call[other] /\ DynamicFits(other)
  OBVIOUS
<1>4. /\ h \in dynamic' <=> h \in dynamic
      /\ h \in known' <=> h \in known
      /\ Target(h) \in attached' <=> Target(h) \in attached
  BY <1>2 DEF Owner
<1>5. KnownOrTold(h)' <=> KnownOrTold(h)
  BY <1>1, <1>2, <1>3, <1>4 DEF KnownOrTold
<1>6. QED
  BY <1>2, <1>3, <1>4, <1>5 DEF DynamicFits

(* The map and the framework differ by what a callback has still to tell.   *)
LEMMA DynamicInductive ==
  ASSUME ListInv, CallInv, SessionInv, DynamicInv, [Next]_vars
  PROVE  DynamicInv'
<1>1. /\ subHals' = subHals /\ Loaded' = Loaded /\ Valid' = Valid /\ Loaded \subseteq Libraries
      /\ \A h : Target(h)' = Target(h) /\ Owner(h)' = Owner(h)
  BY ListStays, NamesStay, IndexIsPlace
<1> DEFINE Session == ~raced /\ rpc \in {"starting", "idle"}
<1>2. CASE /\ UNCHANGED <<dynamic, known, call, attached>>
           /\ Session' => Session
  <2>1. \A lib \in Loaded : DynamicFits(lib) => DynamicFits(lib)'
    BY <1>1, <1>2 DEF DynamicFits, KnownOrTold
  <2>2. QED
    BY <1>1, <1>2, <2>1 DEF DynamicInv
<1>3. CASE InitializeBegins
  BY <1>1, <1>3 DEF InitializeBegins, DynamicInv
<1>4. CASE ClearDynamicSensors
  BY <1>1, <1>4 DEF ClearDynamicSensors, DynamicInv, fwkVars
<1>5. CASE SetDynamicCallback
  <2>1. /\ UNCHANGED <<dynamic, known, call, attached>> /\ known = {}
        /\ raced' = (raced \/ InCallback \/ dynamic # {})
    BY <1>5 DEF SetDynamicCallback, SessionInv, subVars, fwkVars
  <2>2. ASSUME ~raced', NEW lib \in Loaded
        PROVE  DynamicFits(lib)'
    <3>1. dynamic = {} /\ call[lib].op \notin {"told connected", "told disconnected"}
      BY <2>1, <2>2 DEF InCallback
    <3>2. QED
      BY <1>1, <2>1, <3>1 DEF DynamicFits, KnownOrTold
  <2>3. QED
    BY <1>1, <2>1, <2>2 DEF DynamicInv
<1>6. ASSUME NEW lib \in Loaded, NEW handles \in DynamicLists[lib], Connect(lib, handles)
      PROVE  DynamicInv'
  <2>1. /\ call' = [call EXCEPT ![lib] = [op |-> "connect", handles |-> handles]]
        /\ attached' = attached \cup {<<lib, l>> : l \in handles} /\ call[lib].op = "none"
        /\ UNCHANGED <<dynamic, known, rpc, raced>>
    BY <1>6 DEF Connect, proxyVars, initVars, fwkVars, history
  <2>2. /\ call'[lib].op = "connect" /\ call'[lib].handles = handles
        /\ \A other \in Loaded \ {lib} : call'[other] = call[other]
    BY <1>1, <2>1 DEF CallInv
  <2>3. ASSUME Session
        PROVE  \A other \in Loaded : DynamicFits(other)'
    <3>1. \A other \in Loaded : DynamicFits(other)
      BY <2>3 DEF DynamicInv
    <3>2. \A other \in Loaded \ {lib} : DynamicFits(other)'
      <4>1. \A t : t[1] # lib => (t \in attached' <=> t \in attached)
        BY <2>1
      <4>2. QED
        BY <1>1, <2>1, <2>2, <3>1, <4>1, OthersAgree
    <3>3. DynamicFits(lib)'
      <4>1. SUFFICES ASSUME NEW h \in Valid, Owner(h) = lib
                     PROVE  /\ h \in dynamic <=> KnownOrTold(h)'
                            /\ h \in dynamic => Target(h) \in attached'
        BY <1>1, <2>1, <2>2 DEF DynamicFits
      <4>2. /\ h \in dynamic <=> KnownOrTold(h)
            /\ h \in dynamic => Target(h) \in attached
        BY <2>1, <3>1, <4>1 DEF DynamicFits
      <4>3. (KnownOrTold(h) <=> h \in known) /\ (KnownOrTold(h)' <=> h \in known)
        BY <1>1, <2>1, <2>2, <4>1 DEF KnownOrTold
      <4>4. QED
        BY <2>1, <4>2, <4>3
    <3>4. QED
      BY <3>2, <3>3
  <2>4. QED
    BY <1>1, <2>1, <2>3 DEF DynamicInv
<1>7. ASSUME NEW lib \in Loaded, NEW handles \in DynamicLists[lib], Disconnect(lib, handles)
      PROVE  DynamicInv'
  <2>1. /\ call' = [call EXCEPT ![lib] = [op |-> "disconnect", handles |-> handles]]
        /\ attached' = attached \ {<<lib, l>> : l \in handles} /\ call[lib].op = "none"
        /\ UNCHANGED <<dynamic, known, rpc, raced>>
    BY <1>7 DEF Disconnect, proxyVars, initVars, fwkVars, history
  <2>2. /\ call'[lib].op = "disconnect" /\ call'[lib].handles = handles
        /\ \A other \in Loaded \ {lib} : call'[other] = call[other]
    BY <1>1, <2>1 DEF CallInv
  <2>3. ASSUME Session
        PROVE  \A other \in Loaded : DynamicFits(other)'
    <3>1. \A other \in Loaded : DynamicFits(other)
      BY <2>3 DEF DynamicInv
    <3>2. \A other \in Loaded \ {lib} : DynamicFits(other)'
      <4>1. \A t : t[1] # lib => (t \in attached' <=> t \in attached)
        BY <2>1
      <4>2. QED
        BY <1>1, <2>1, <2>2, <3>1, <4>1, OthersAgree
    <3>3. DynamicFits(lib)'
      <4>1. SUFFICES ASSUME NEW h \in Valid, Owner(h) = lib
                     PROVE  /\ h \in dynamic <=> KnownOrTold(h)'
                            /\ h \in dynamic /\ Target(h) \notin attached' =>
                                 Target(h)[2] \in handles
        BY <1>1, <2>1, <2>2 DEF DynamicFits
      <4>2. /\ h \in dynamic <=> KnownOrTold(h)
            /\ h \in dynamic => Target(h) \in attached
        BY <2>1, <3>1, <4>1 DEF DynamicFits
      <4>3. (KnownOrTold(h) <=> h \in known) /\ (KnownOrTold(h)' <=> h \in known)
        BY <1>1, <2>1, <2>2, <4>1 DEF KnownOrTold
      <4>4. Target(h) \in attached /\ Target(h) \notin attached' => Target(h)[2] \in handles
        BY <2>1
      <4>5. QED
        BY <4>2, <4>3, <4>4
    <3>4. QED
      BY <3>2, <3>3
  <2>4. QED
    BY <1>1, <2>1, <2>3 DEF DynamicInv
<1>8. ASSUME NEW lib \in Loaded, UpdateDynamicSensors(lib)
      PROVE  DynamicInv'
  <2>1. UNCHANGED <<known, attached, rpc, raced>>
    BY <1>8 DEF UpdateDynamicSensors, subVars, initVars, fwkVars, history
  <2>2. /\ call[lib].op \in {"connect", "disconnect"} /\ lib \in Libraries
        /\ \A other \in Loaded \ {lib} : call'[other] = call[other]
    BY <1>1, <1>8 DEF UpdateDynamicSensors, CallInv
  <2>3. /\ call[lib].handles \in DynamicLists[lib] /\ Accepted(lib) \subseteq Valid
        /\ \A h \in Accepted(lib) : /\ Owner(h) = lib /\ Target(h) = <<lib, Target(h)[2]>>
                                    /\ Target(h)[2] \in call[lib].handles
        /\ \A h \in Valid : Owner(h) = lib /\ Target(h)[2] \in call[lib].handles =>
                              h \in Accepted(lib)
    BY <2>2, AcceptedAreOwn
  <2>4. /\ dynamic' \subseteq dynamic \cup Accepted(lib)
        /\ \A h \in Valid : Owner(h) # lib => (h \in dynamic' <=> h \in dynamic)
    BY <1>8, <2>3 DEF UpdateDynamicSensors
  <2>5. ASSUME Session
        PROVE  \A other \in Loaded : DynamicFits(other)'
    <3>1. \A other \in Loaded : DynamicFits(other)
      BY <2>5 DEF DynamicInv
    <3>2. \A other \in Loaded \ {lib} : DynamicFits(other)'
      BY <1>1, <2>1, <2>2, <2>4, <3>1, OthersAgree
    <3>3. CASE call[lib].op = "connect"
      <4>1. /\ dynamic' = dynamic \cup Accepted(lib)
            /\ call'[lib].op = "told connected" /\ call'[lib].handles = Accepted(lib)
        <5>1. /\ dynamic' = dynamic \cup Accepted(lib)
              /\ call' = [call EXCEPT ![lib] = [op |-> "told connected",
                                               handles |-> Accepted(lib)]]
          BY <1>8, <3>3 DEF UpdateDynamicSensors
        <5>2. QED
          BY <2>2, <5>1 DEF CallInv
      <4>2. \A l \in call[lib].handles : <<lib, l>> \in attached
        BY <3>3 DEF CallInv, CallFits
      <4>3. \A h \in Accepted(lib) : Target(h) \in attached
        BY <2>3, <4>2, Zenon
      <4>4. DynamicFits(lib)'
        <5>1. SUFFICES ASSUME NEW h \in Valid, Owner(h) = lib
                       PROVE  /\ h \in dynamic' <=> KnownOrTold(h)'
                              /\ h \in dynamic' => Target(h) \in attached
          BY <1>1, <2>1 DEF DynamicFits
        <5>2. /\ h \in dynamic <=> KnownOrTold(h)
              /\ h \in dynamic => Target(h) \in attached
          BY <3>1, <3>3, <5>1 DEF DynamicFits
        <5>3. /\ KnownOrTold(h) <=> h \in known
              /\ KnownOrTold(h)' <=> h \in known \cup Accepted(lib)
          BY <1>1, <2>1, <3>3, <4>1, <5>1 DEF KnownOrTold
        <5>4. QED
          BY <4>1, <4>3, <5>2, <5>3
      <4>5. QED
        BY <3>2, <4>4
    <3>4. CASE call[lib].op = "disconnect"
      <4>1. /\ dynamic' = dynamic \ Accepted(lib)
            /\ call'[lib].op = "told disconnected"
            /\ call'[lib].handles = Accepted(lib) \cap dynamic
        <5>1. /\ dynamic' = dynamic \ Accepted(lib)
              /\ call' = [call EXCEPT ![lib] = [op |-> "told disconnected",
                                               handles |-> Accepted(lib) \cap dynamic]]
          BY <1>8, <3>4 DEF UpdateDynamicSensors
        <5>2. QED
          BY <2>2, <5>1 DEF CallInv
      <4>2. DynamicFits(lib)'
        <5>1. SUFFICES ASSUME NEW h \in Valid, Owner(h) = lib
                       PROVE  /\ h \in dynamic' <=> KnownOrTold(h)'
                              /\ h \in dynamic' => Target(h) \in attached
          BY <1>1, <2>1 DEF DynamicFits
        <5>2. /\ h \in dynamic <=> KnownOrTold(h)
              /\ h \in dynamic /\ Target(h) \notin attached =>
                   Target(h)[2] \in call[lib].handles
          BY <3>1, <3>4, <5>1 DEF DynamicFits
        <5>3. /\ KnownOrTold(h) <=> h \in known
              /\ KnownOrTold(h)' <=> h \in known \ (Accepted(lib) \cap dynamic)
          BY <1>1, <2>1, <3>4, <4>1, <5>1 DEF KnownOrTold
        <5>4. QED
          BY <2>3, <4>1, <5>1, <5>2, <5>3
      <4>3. QED
        BY <3>2, <4>2
    <3>5. QED
      BY <2>2, <3>3, <3>4
  <2>6. /\ dynamic' \cup known' \subseteq Valid
        /\ \A h \in dynamic' \cup known' : Target(h)[2] \in UNION DynamicLists[Owner(h)]
    BY <2>1, <2>3, <2>4 DEF DynamicInv
  <2>7. QED
    BY <1>1, <2>1, <2>5, <2>6 DEF DynamicInv
<1>9. ASSUME NEW lib \in Loaded, TellFramework(lib)
      PROVE  DynamicInv'
  <2>1. /\ UNCHANGED <<dynamic, attached, rpc, raced>>
        /\ call[lib].op \in {"told connected", "told disconnected"}
        /\ call' = [call EXCEPT ![lib] = NoCall] /\ CallFits(lib)
    BY <1>9 DEF TellFramework, proxyVars, subVars, initVars, history, CallInv
  <2>2. /\ call'[lib].op = "none"
        /\ \A other \in Loaded \ {lib} : call'[other] = call[other]
    BY <1>1, <2>1 DEF CallInv, NoCall
  <2>3. \A h \in call[lib].handles :
          h \in Valid /\ Owner(h) = lib /\ Target(h)[2] \in UNION DynamicLists[lib]
    BY <2>1 DEF CallFits
  <2>4. known' \subseteq known \cup call[lib].handles
    BY <1>9 DEF TellFramework
  <2>5. ASSUME Session
        PROVE  \A other \in Loaded : DynamicFits(other)'
    <3>1. \A other \in Loaded : DynamicFits(other)
      BY <2>5 DEF DynamicInv
    <3>2. callback = "current"
      BY <2>5 DEF SessionInv
    <3>3. known' = IF call[lib].op = "told connected" THEN known \cup call[lib].handles
                                                      ELSE known \ call[lib].handles
      BY <1>9, <2>1, <3>2 DEF TellFramework
    <3>4. \A h \in Valid : Owner(h) # lib => (h \in known' <=> h \in known)
      BY <2>3, <3>3
    <3>5. \A other \in Loaded \ {lib} : DynamicFits(other)'
      BY <1>1, <2>1, <2>2, <3>1, <3>4, OthersAgree
    <3>6. DynamicFits(lib)'
      BY <1>1, <2>1, <2>2, <3>1, <3>3 DEF DynamicFits, KnownOrTold
    <3>7. QED
      BY <3>5, <3>6
  <2>6. /\ dynamic' \cup known' \subseteq Valid
        /\ \A h \in dynamic' \cup known' : Target(h)[2] \in UNION DynamicLists[Owner(h)]
    BY <2>1, <2>3, <2>4 DEF DynamicInv
  <2>7. QED
    BY <1>1, <2>1, <2>5, <2>6 DEF DynamicInv
<1>10. CASE Framework
  BY <1>2, <1>10 DEF Framework, Activate, ConfigDirectReport, StopDirectReports,
     SetOperationMode, proxyVars, initVars, fwkVars, history
<1>11. CASE DisableAllSensors \/ InitializeSubHals
  BY <1>2, <1>11 DEF DisableAllSensors, InitializeSubHals, proxyVars, initVars, fwkVars, history
<1>12. ASSUME NEW lib \in Loaded, NEW l, CountWakeupEvents(lib, l)
       PROVE  DynamicInv'
  BY <1>2, <1>12 DEF CountWakeupEvents, initVars, subVars, fwkVars, history
<1>13. CASE UNCHANGED vars
  BY <1>2, <1>13 DEF vars, proxyVars, initVars, subVars, fwkVars, history
<1>14. QED
  BY <1>3, <1>4, <1>5, <1>6, <1>7, <1>8, <1>9, <1>10, <1>11, <1>12, <1>13
     DEF Next, Initialize, SubHal
-----------------------------------------------------------------------------
(* What is active *)

(* A dynamic sensor never has the local handle of a static sensor of its    *)
(* sub-HAL.                                                                 *)
LEMMA DynamicIsNotStatic ==
  ASSUME ListInv, NEW t \in StaticSensors, NEW l
  PROVE  /\ t \in Loaded \X Handles
         /\ l \in UNION DynamicLists[t[1]] => t[2] # l
<1>1. PICK lib \in Loaded, s \in UNION {SensorList[other] : other \in Loaded} :
        s \in SensorList[lib] /\ t = <<lib, s.handle>>
  BY DEF StaticSensors
<1>2. lib \in Libraries
  BY IndexIsPlace
<1>3. s \in [handle : Handles, direct : BOOLEAN]
  BY <1>1, <1>2, SensorsAreNumbered
<1>4. ASSUME l \in UNION DynamicLists[lib]
      PROVE  s.handle # l
  BY <1>1, <1>2, <1>4, SensorsAreNumbered
<1>5. QED
  BY <1>1, <1>3, <1>4

(* The framework was told of a dynamic sensor that it can enable, and this  *)
(* is not yet revoked in mDynamicSensors without being told either.         *)
LEMMA WhatCanBeEnabled ==
  ASSUME ListInv, SensorInv, CallInv, DynamicInv, ~raced, rpc = "idle",
         NEW h \in Valid, h \in KnownHandles \cup Strangers,
         Target(h) \in attached, Target(h) \notin StaticSensors
  PROVE  \/ h \in dynamic
         \/ call[Owner(h)].op = "told disconnected" /\ h \in call[Owner(h)].handles
<1>1. /\ Target(h) \in Loaded \X LocalHandles /\ HandleOf(Target(h)) = h
      /\ Loaded \subseteq Libraries
  BY NamesAreRight, IndexIsPlace
<1>2. Target(h)[2] \in UNION DynamicLists[Owner(h)] /\ Owner(h) \in Libraries
  BY <1>1 DEF CallInv, Owner
<1>3. CASE h \in Listed
  <2>1. PICK k \in DOMAIN sensors : h = sensors[k].handle
    BY <1>3 DEF Listed
  <2>2. h = 0 \/ Target(h) \in StaticSensors
    BY <2>1 DEF SensorInv
  <2>3. h # 0
    <3>1. Target(0)[2] = 0
      <4>1. 0 % LocalSize = 0
        BY SizesOfHandles
      <4>2. QED
        BY <4>1 DEF Target, ClearSubHalIndex
    <3>2. 0 \notin UNION DynamicLists[Owner(h)]
      BY <1>2, SensorsAreNumbered
    <3>3. QED
      BY <1>2, <3>1, <3>2
  <2>4. QED
    BY <2>2, <2>3
<1>4. CASE h \in known
  <2>1. h \in dynamic <=> KnownOrTold(h)
    BY <1>1 DEF DynamicInv, DynamicFits, Owner
  <2>2. QED
    BY <1>4, <2>1 DEF KnownOrTold
<1>5. CASE h \in Strangers
  <2>1. Index(Owner(h)) \in 0 .. Len(Config) - 1
    <3>1. Owner(h) \in Loaded
      BY <1>1 DEF Owner
    <3>2. /\ Index(Owner(h)) + 1 \in 1 .. Len(subHals)
          /\ \E n \in DOMAIN subHals : Owner(h) = subHals[n] /\ Index(Owner(h)) = n - 1
      BY <3>1, IndexIsPlace DEF Loaded, ToSet
    <3>3. Len(subHals) <= Len(Config) /\ Len(subHals) \in Nat /\ Len(Config) \in Nat
          /\ DOMAIN subHals = 1 .. Len(subHals)
      BY HandlesHaveRoom DEF ListInv
    <3>4. QED
      BY <3>2, <3>3
  <2>2. SetSubHalIndex(Target(h)[2], Index(Owner(h))) \notin Strangers
    BY <1>2, <2>1, SensorsAreNumbered
  <2>3. QED
    BY <1>1, <1>5, <2>2 DEF HandleOf, Owner
<1>6. QED
  BY <1>3, <1>4, <1>5 DEF KnownHandles

(* What is active is wanted, and is found by the next initialize().         *)
LEMMA EnableInductive ==
  ASSUME ListInv, SensorInv, CallInv, CallInv', SessionInv, DynamicInv, EnableInv, [Next]_vars
  PROVE  EnableInv'
<1>1. /\ subHals' = subHals /\ Loaded' = Loaded /\ Valid' = Valid /\ Loaded \subseteq Libraries
      /\ StaticSensors' = StaticSensors
      /\ \A h : Target(h)' = Target(h) /\ Owner(h)' = Owner(h)
      /\ \A t : HandleOf(t)' = HandleOf(t)
  BY ListStays, NamesStay, IndexIsPlace
<1>2. \A h \in Valid : Target(h) \in Loaded \X LocalHandles /\ HandleOf(Target(h)) = h
  BY NamesAreRight
<1>3. \A t \in Loaded \X LocalHandles : HandleOf(t) \in Valid /\ Target(HandleOf(t)) = t
  BY NamesAreRight DEF HandleOf
<1>4. CASE UNCHANGED <<wanted, enabled, attached, dynamic, call, rpc, raced>>
  <2>1. \A h \in Valid : WantedFits(h) => WantedFits(h)'
    BY <1>1, <1>4 DEF WantedFits
  <2>2. QED
    BY <1>1, <1>4, <2>1 DEF EnableInv
<1>5. ASSUME NEW h \in KnownHandles \cup Strangers, NEW enable \in BOOLEAN, Activate(h, enable)
      PROVE  EnableInv'
  <2>1. /\ rpc = "idle" /\ UNCHANGED <<attached, dynamic, call, rpc, raced>>
        /\ IsSubHalIndexValid(h) /\ Target(h) \in StaticSensors \cup attached
    BY <1>5 DEF Activate, Exists, proxyVars, initVars, history
  <2>2. h \in Valid
    <3>1. h \in Handles
      BY SensorsAreNumbered DEF KnownHandles, Listed, SensorInv, DynamicInv, Valid
    <3>2. QED
      BY <2>1, <3>1 DEF Valid
  <2>3. IF enable THEN enabled' = enabled \cup {Target(h)} /\ wanted' = wanted \cup {h}
                  ELSE enabled' = enabled \ {Target(h)}    /\ wanted' = wanted \ {h}
    BY <1>5 DEF Activate
  <2>4. wanted' \subseteq Valid
        /\ enabled' \subseteq (StaticSensors \cup attached) \cap (Loaded \X LocalHandles)
    BY <1>2, <2>1, <2>2, <2>3 DEF EnableInv
  <2>5. ASSUME ~raced, NEW g \in Valid
        PROVE  WantedFits(g)'
    <3>1. WantedFits(g)
      BY <2>1, <2>5 DEF EnableInv
    <3>2. CASE g # h
      <4>1. Target(g) # Target(h)
        BY <1>2, <2>2, <3>2
      <4>2. (Target(g) \in enabled' <=> Target(g) \in enabled) /\ (g \in wanted' <=> g \in wanted)
        BY <2>3, <3>2, <4>1
      <4>3. QED
        BY <1>1, <2>1, <3>1, <4>2 DEF WantedFits
    <3>3. CASE g = h
      <4>1. \/ Target(h) \in StaticSensors \/ h \in dynamic
            \/ call[Owner(h)].op = "told disconnected" /\ h \in call[Owner(h)].handles
        BY <2>1, <2>2, <2>5, WhatCanBeEnabled
      <4>2. QED
        BY <1>1, <2>1, <2>3, <3>3, <4>1 DEF WantedFits
    <3>4. QED
      BY <3>2, <3>3
  <2>6. QED
    BY <1>1, <2>1, <2>4, <2>5 DEF EnableInv
<1>6. CASE InitializeBegins
  <2>1. /\ UNCHANGED <<enabled, attached, dynamic, raced>> /\ wanted' = {} /\ rpc' = "disabling"
        /\ rpc \in {"uninitialized", "idle"}
    BY <1>6 DEF InitializeBegins, subVars, history
  <2>2. ASSUME ~raced, NEW t \in enabled
        PROVE  t \in StaticSensors \/ HandleOf(t) \in dynamic
    <3>1. CASE rpc = "uninitialized"
      BY <2>2, <3>1 DEF EnableInv
    <3>2. CASE rpc = "idle"
      <4> DEFINE h == HandleOf(t)
      <4>1. h \in Valid /\ Target(h) = t /\ Owner(h) \in Loaded
        BY <1>2, <1>3, <2>2 DEF EnableInv, Owner
      <4>2. WantedFits(h)
        BY <2>2, <3>2, <4>1 DEF EnableInv
      <4> HIDE DEF h
      <4>3. \/ t \in StaticSensors \/ h \in dynamic
            \/ call[Owner(h)].op = "told disconnected" /\ h \in call[Owner(h)].handles
        BY <2>2, <4>1, <4>2 DEF WantedFits
      <4>4. ASSUME call[Owner(h)].op = "told disconnected", h \in call[Owner(h)].handles
            PROVE  t \in StaticSensors
        <5>1. Target(h) \notin attached
          BY <4>1, <4>4 DEF CallInv, CallFits
        <5>2. QED
          BY <2>2, <4>1, <5>1 DEF EnableInv
      <4>5. QED
        BY <4>3, <4>4 DEF h
    <3>3. QED
      BY <2>1, <3>1, <3>2
  <2>3. QED
    BY <1>1, <2>1, <2>2 DEF EnableInv
<1>7. CASE DisableAllSensors
  <2>1. /\ UNCHANGED <<attached, dynamic, wanted, raced>> /\ rpc = "disabling"
        /\ rpc' = "clearing"
        /\ enabled' = enabled \ {Target(h) : h \in {s \in ToDisable : IsSubHalIndexValid(s)}}
    BY <1>7 DEF DisableAllSensors, proxyVars, fwkVars, history
  <2>2. ASSUME ~raced, NEW t \in enabled
        PROVE  t \in {Target(h) : h \in {s \in ToDisable : IsSubHalIndexValid(s)}}
    <3>1. t \in Loaded \X LocalHandles /\ (t \in StaticSensors \/ HandleOf(t) \in dynamic)
      BY <2>1, <2>2 DEF EnableInv
    <3>2. HandleOf(t) \in Valid /\ Target(HandleOf(t)) = t
      BY <1>3, <3>1
    <3>3. HandleOf(t) \in ToDisable
      BY <3>1 DEF SensorInv, SubHalIndexIsClear, ToDisable
    <3>4. QED
      BY <3>2, <3>3 DEF Valid
  <2>3. QED
    BY <1>1, <2>1, <2>2 DEF EnableInv
<1>8. CASE ClearDynamicSensors \/ SetDynamicCallback
  <2>1. /\ UNCHANGED <<attached, enabled, wanted>> /\ (raced => raced')
        /\ rpc \in {"clearing", "cleared"} /\ rpc' \in {"cleared", "starting"}
    BY <1>8 DEF ClearDynamicSensors, SetDynamicCallback, subVars, fwkVars
  <2>2. QED
    BY <1>1, <2>1 DEF EnableInv
<1>9. CASE InitializeSubHals
  <2>1. /\ UNCHANGED <<attached, enabled, dynamic, call, wanted, raced>>
        /\ rpc = "starting" /\ rpc' = "idle"
    BY <1>9 DEF InitializeSubHals, fwkVars
  <2>2. ~raced => enabled = {} /\ wanted = {}
    BY <2>1 DEF EnableInv, SessionInv
  <2>3. \A h \in Valid : ~raced => WantedFits(h)'
    BY <1>1, <2>1, <2>2 DEF WantedFits
  <2>4. QED
    BY <1>1, <2>1, <2>3 DEF EnableInv
<1>10. ASSUME NEW lib \in Loaded, NEW handles \in DynamicLists[lib], Connect(lib, handles)
       PROVE  EnableInv'
  <2>1. /\ call' = [call EXCEPT ![lib] = [op |-> "connect", handles |-> handles]]
        /\ attached' = attached \cup {<<lib, l>> : l \in handles} /\ call[lib].op = "none"
        /\ UNCHANGED <<dynamic, wanted, enabled, rpc, raced>>
    BY <1>10 DEF Connect, proxyVars, initVars, fwkVars, history
  <2>2. \A other \in Loaded \ {lib} : call'[other] = call[other]
    BY <1>1, <2>1 DEF CallInv
  <2>3. ASSUME ~raced, rpc = "idle", NEW h \in Valid
        PROVE  WantedFits(h)'
    <3>1. WantedFits(h) /\ Owner(h) \in Loaded /\ DynamicFits(Owner(h))
      BY <1>2, <2>3 DEF EnableInv, DynamicInv, Owner
    <3>2. h \in wanted => Target(h) \in StaticSensors \cup attached \/ Target(h) \notin attached'
      <4>1. SUFFICES ASSUME h \in wanted, Target(h) \notin StaticSensors,
                            Target(h) \in attached', Target(h) \notin attached
                     PROVE  FALSE
        OBVIOUS
      <4>2. Owner(h) = lib
        BY <2>1, <4>1 DEF Owner
      <4>3. h \in dynamic
        BY <2>1, <3>1, <4>1, <4>2 DEF WantedFits
      <4>4. call[lib].op = "disconnect"
        BY <2>3, <3>1, <4>1, <4>2, <4>3 DEF DynamicFits
      <4>5. QED
        BY <2>1, <4>4
    <3>3. Target(h) \in enabled <=> Target(h) \in StaticSensors \cup attached' /\ h \in wanted
      <4>1. attached \subseteq attached'
        BY <2>1
      <4>2. QED
        BY <3>1, <3>2, <4>1 DEF WantedFits
    <3>4. h \in wanted => \/ Target(h) \in StaticSensors \/ h \in dynamic
                          \/ /\ call'[Owner(h)].op = "told disconnected"
                             /\ h \in call'[Owner(h)].handles
      <4>1. call[Owner(h)].op = "told disconnected" => call'[Owner(h)] = call[Owner(h)]
        BY <2>1, <2>2, <3>1
      <4>2. QED
        BY <3>1, <4>1 DEF WantedFits
    <3>5. QED
      BY <1>1, <2>1, <3>3, <3>4 DEF WantedFits
  <2>4. enabled \subseteq (StaticSensors \cup attached') \cap (Loaded \X LocalHandles)
    BY <2>1 DEF EnableInv
  <2>5. QED
    BY <1>1, <2>1, <2>3, <2>4 DEF EnableInv
<1>11. ASSUME NEW lib \in Loaded, NEW handles \in DynamicLists[lib], Disconnect(lib, handles)
       PROVE  EnableInv'
  <2> DEFINE gone == {<<lib, l>> : l \in handles}
  <2>1. /\ call' = [call EXCEPT ![lib] = [op |-> "disconnect", handles |-> handles]]
        /\ attached' = attached \ gone /\ enabled' = enabled \ gone /\ call[lib].op = "none"
        /\ UNCHANGED <<dynamic, wanted, rpc, raced>>
    BY <1>11 DEF Disconnect, proxyVars, initVars, fwkVars, history
  <2>2. \A other \in Loaded \ {lib} : call'[other] = call[other]
    BY <1>1, <2>1 DEF CallInv
  <2>3. \A t \in gone : t \notin StaticSensors
    BY DynamicIsNotStatic
  <2> HIDE DEF gone
  <2>4. ASSUME ~raced, rpc = "idle", NEW h \in Valid
        PROVE  WantedFits(h)'
    <3>1. WantedFits(h) /\ Owner(h) \in Loaded
      BY <1>2, <2>4 DEF EnableInv, Owner
    <3>2. Target(h) \in enabled' <=> Target(h) \in StaticSensors \cup attached' /\ h \in wanted
      BY <2>1, <2>3, <3>1 DEF WantedFits
    <3>3. call[Owner(h)].op = "told disconnected" => call'[Owner(h)] = call[Owner(h)]
      BY <2>1, <2>2, <3>1
    <3>4. QED
      BY <1>1, <2>1, <3>1, <3>2, <3>3 DEF WantedFits
  <2>5. enabled' \subseteq (StaticSensors \cup attached') \cap (Loaded \X LocalHandles)
    BY <2>1 DEF EnableInv
  <2>6. QED
    BY <1>1, <2>1, <2>4, <2>5 DEF EnableInv
<1>12. ASSUME NEW lib \in Loaded, UpdateDynamicSensors(lib)
       PROVE  EnableInv'
  <2>1. UNCHANGED <<wanted, enabled, attached, rpc, raced>>
    BY <1>12 DEF UpdateDynamicSensors, subVars, initVars, fwkVars, history
  <2>2. /\ call[lib].op \in {"connect", "disconnect"} /\ lib \in Libraries
        /\ \A other \in Loaded \ {lib} : call'[other] = call[other]
    BY <1>1, <1>12 DEF UpdateDynamicSensors, CallInv
  <2>3. /\ call[lib].handles \in DynamicLists[lib] /\ Accepted(lib) \subseteq Valid
        /\ \A h \in Accepted(lib) : /\ Owner(h) = lib /\ Target(h) = <<lib, Target(h)[2]>>
                                    /\ Target(h)[2] \in call[lib].handles
    BY <2>2, AcceptedAreOwn
  <2>4. \A h \in Accepted(lib) : call[lib].op = "disconnect" => Target(h) \notin attached
    <3>1. call[lib].op = "disconnect" => \A l \in call[lib].handles : <<lib, l>> \notin attached
      BY DEF CallInv, CallFits
    <3>2. QED
      BY <2>3, <3>1, Zenon
  <2>5. \A h \in dynamic : \/ h \in dynamic'
                           \/ /\ h \in Accepted(lib) /\ call[lib].op = "disconnect"
                              /\ call'[lib].op = "told disconnected" /\ h \in call'[lib].handles
    <3>1. CASE call[lib].op = "connect"
      BY <1>12, <3>1 DEF UpdateDynamicSensors
    <3>2. CASE call[lib].op = "disconnect"
      <4>1. /\ dynamic' = dynamic \ Accepted(lib)
            /\ call' = [call EXCEPT ![lib] = [op |-> "told disconnected",
                                             handles |-> Accepted(lib) \cap dynamic]]
        BY <1>12, <3>2 DEF UpdateDynamicSensors
      <4>2. /\ call'[lib].op = "told disconnected"
            /\ call'[lib].handles = Accepted(lib) \cap dynamic
        BY <2>2, <4>1 DEF CallInv
      <4>3. QED
        BY <3>2, <4>1, <4>2
    <3>3. QED
      BY <2>2, <3>1, <3>2
  <2>6. ASSUME ~raced, rpc = "idle", NEW h \in Valid
        PROVE  WantedFits(h)'
    <3>1. WantedFits(h) /\ Owner(h) \in Loaded
      BY <1>2, <2>6 DEF EnableInv, Owner
    <3>2. call[Owner(h)].op = "told disconnected" => call'[Owner(h)] = call[Owner(h)]
      BY <2>2, <3>1
    <3>3. h \in dynamic => \/ h \in dynamic'
                           \/ /\ call'[Owner(h)].op = "told disconnected"
                              /\ h \in call'[Owner(h)].handles
      BY <2>3, <2>5
    <3>4. QED
      BY <1>1, <2>1, <3>1, <3>2, <3>3 DEF WantedFits
  <2>7. ASSUME ~raced, rpc \in {"uninitialized", "disabling"}, NEW t \in enabled
        PROVE  t \in StaticSensors \/ HandleOf(t) \in dynamic'
    <3>1. /\ t \in (StaticSensors \cup attached) \cap (Loaded \X LocalHandles)
          /\ t \in StaticSensors \/ HandleOf(t) \in dynamic
      BY <2>7 DEF EnableInv
    <3>2. Target(HandleOf(t)) = t
      BY <1>3, <3>1
    <3>3. QED
      BY <2>4, <2>5, <3>1, <3>2
  <2>8. QED
    BY <1>1, <2>1, <2>6, <2>7 DEF EnableInv
<1>13. ASSUME NEW lib \in Loaded, TellFramework(lib)
       PROVE  EnableInv'
  <2>1. /\ UNCHANGED <<dynamic, attached, enabled, rpc, raced>>
        /\ call[lib].op \in {"told connected", "told disconnected"}
        /\ call' = [call EXCEPT ![lib] = NoCall] /\ CallFits(lib)
        /\ wanted' \subseteq wanted
    BY <1>13 DEF TellFramework, proxyVars, subVars, initVars, history, CallInv
  <2>2. \A other \in Loaded \ {lib} : call'[other] = call[other]
    BY <1>1, <2>1 DEF CallInv
  <2>3. ASSUME ~raced, rpc = "idle", NEW h \in Valid
        PROVE  WantedFits(h)'
    <3>1. WantedFits(h) /\ Owner(h) \in Loaded
      BY <1>2, <2>3 DEF EnableInv, Owner
    <3>2. callback = "current"
      BY <2>3 DEF SessionInv
    <3>3. CASE call[lib].op = "told connected"
      <4>1. wanted' = wanted
        BY <1>13, <3>2, <3>3 DEF TellFramework
      <4>2. call[Owner(h)].op = "told disconnected" => call'[Owner(h)] = call[Owner(h)]
        BY <2>2, <3>1, <3>3
      <4>3. QED
        BY <1>1, <2>1, <3>1, <4>1, <4>2 DEF WantedFits
    <3>4. CASE call[lib].op = "told disconnected"
      <4>1. wanted' = wanted \ call[lib].handles
        BY <1>13, <3>2, <3>4 DEF TellFramework
      <4>2. \A g \in call[lib].handles :
              /\ g \in Valid /\ Owner(g) = lib /\ Target(g)[2] \in UNION DynamicLists[lib]
              /\ Target(g) \notin attached
        BY <2>1, <3>4 DEF CallFits
      <4>3. \A g \in call[lib].handles : Target(g) \notin StaticSensors
        BY <4>2, DynamicIsNotStatic DEF Owner
      <4>4. CASE h \in call[lib].handles
        BY <1>1, <2>1, <3>1, <4>1, <4>2, <4>3, <4>4 DEF WantedFits
      <4>5. CASE h \notin call[lib].handles
        <5>1. call[Owner(h)].op = "told disconnected" /\ h \in call[Owner(h)].handles =>
                call'[Owner(h)] = call[Owner(h)]
          BY <2>2, <3>1, <4>5
        <5>2. QED
          BY <1>1, <2>1, <3>1, <4>1, <4>5, <5>1 DEF WantedFits
      <4>6. QED
        BY <4>4, <4>5
    <3>5. QED
      BY <2>1, <3>3, <3>4
  <2>4. QED
    BY <1>1, <2>1, <2>3 DEF EnableInv
<1>14. CASE StopDirectReports \/ \E m \in Modes : SetOperationMode(m)
  BY <1>4, <1>14 DEF StopDirectReports, SetOperationMode, proxyVars, initVars, fwkVars, history
<1>15. ASSUME NEW h, NEW start, ConfigDirectReport(h, start)
       PROVE  EnableInv'
  BY <1>4, <1>15 DEF ConfigDirectReport, proxyVars, initVars
<1>16. ASSUME NEW lib \in Loaded, NEW l, CountWakeupEvents(lib, l)
       PROVE  EnableInv'
  BY <1>4, <1>16 DEF CountWakeupEvents, initVars, subVars, fwkVars, history
<1>17. CASE UNCHANGED vars
  BY <1>4, <1>17 DEF vars, proxyVars, initVars, subVars, fwkVars, history
<1>18. QED
  BY <1>5, <1>6, <1>7, <1>8, <1>9, <1>10, <1>11, <1>12, <1>13, <1>14, <1>15, <1>16, <1>17
     DEF Next, Framework, Initialize, SubHal
-----------------------------------------------------------------------------
(* Direct reports and modes *)

(* Of the static sensors only those of the direct channel sub-HAL support   *)
(* direct reports.                                                          *)
LEMMA StaticSupport ==
  ASSUME ListInv, SensorInv, DynamicInv, NEW h, SupportsDirect(h), Target(h) \in StaticSensors
  PROVE  Owner(h) = direct
<1>1. CASE h \in DOMAIN sensors /\ sensors[h].direct
  BY <1>1 DEF SensorInv
<1>2. CASE h \in known
  BY <1>2, DynamicIsNotStatic DEF DynamicInv, Owner
<1>3. QED
  BY <1>1, <1>2 DEF SupportsDirect

(* A report that is on no record of strays is with its owner.               *)
LEMMA ReportInductive ==
  ASSUME ListInv, SensorInv, SessionInv, DynamicInv, ReportInv, [Next]_vars
  PROVE  ReportInv'
<1>1. /\ subHals' = subHals /\ direct' = direct /\ Loaded' = Loaded /\ Valid' = Valid
      /\ \A h : Target(h)' = Target(h) /\ Owner(h)' = Owner(h)
  BY ListStays, NamesStay
<1>2. \A h \in Valid : /\ Target(h) \in Loaded \X LocalHandles /\ HandleOf(Target(h)) = h
                       /\ Target(h) = <<Owner(h), Target(h)[2]>>
  BY NamesAreRight DEF Owner
<1>3. CASE UNCHANGED <<reports, wantedReports, misdirected>>
  BY <1>1, <1>3 DEF ReportInv
<1>4. CASE /\ wantedReports' = {} /\ reports' \subseteq reports
  BY <1>1, <1>4 DEF ReportInv
<1>5. ASSUME NEW h \in wantedReports \cup KnownHandles, NEW start \in BOOLEAN,
             ConfigDirectReport(h, start)
      PROVE  ReportInv'
  <2> DEFINE l == Target(h)[2]
  <2>1. /\ direct \in Loaded /\ ClearSubHalIndex(h) = l
        /\ SupportsDirect(h) \/ (~start /\ h \in wantedReports)
        /\ misdirected' = IF Owner(h) = direct \/ Target(h) \in StaticSensors THEN misdirected
                          ELSE misdirected \cup {l}
    BY <1>5 DEF ConfigDirectReport, ListInv, Target, Owner
  <2>2. h \in Valid
    BY <2>1 DEF SupportsDirect, SensorInv, DynamicInv, ReportInv
  <2>3. l \in LocalHandles
    BY <1>2, <2>2
  <2>4. l \notin misdirected' => Owner(h) = direct
    <3>1. CASE SupportsDirect(h)
      BY <2>1, <3>1, StaticSupport
    <3>2. CASE h \in wantedReports
      BY <2>1, <3>2 DEF ReportInv
    <3>3. QED
      BY <2>1, <3>1, <3>2
  <2> HIDE DEF l
  <2>5. CASE start
    <3>1. /\ reports' = reports \cup {<<direct, l>>} /\ wantedReports' = wantedReports \cup {h}
          /\ misdirected \subseteq misdirected'
      BY <1>5, <2>1, <2>5 DEF ConfigDirectReport
    <3>2. reports' \subseteq Loaded \X LocalHandles /\ wantedReports' \subseteq Valid
      BY <2>1, <2>2, <2>3, <3>1 DEF ReportInv
    <3>3. l \notin misdirected' => Owner(h) = direct /\ Target(h) \in reports'
      <4>1. Target(h) = <<Owner(h), l>>
        BY <1>2, <2>2 DEF l
      <4>2. QED
        BY <2>4, <3>1, <4>1
    <3>4. \A g \in wantedReports' : Target(g)[2] \notin misdirected' =>
            Owner(g) = direct /\ Target(g) \in reports'
      <4>1. \A g \in wantedReports : Target(g)[2] \notin misdirected' =>
              Owner(g) = direct /\ Target(g) \in reports'
        BY <3>1 DEF ReportInv
      <4>2. QED
        BY <3>1, <3>3, <4>1 DEF l
    <3>5. QED
      BY <1>1, <3>2, <3>4 DEF ReportInv
  <2>6. CASE ~start
    <3>1. /\ reports' = reports \ {<<direct, l>>} /\ wantedReports' = wantedReports \ {h}
          /\ misdirected \subseteq misdirected'
      BY <1>5, <2>1, <2>6 DEF ConfigDirectReport
    <3>2. ASSUME NEW g \in wantedReports', Target(g)[2] \notin misdirected'
          PROVE  Owner(g) = direct /\ Target(g) \in reports'
      <4>1. /\ g \in Valid /\ g # h /\ Owner(g) = direct /\ Target(g) \in reports
            /\ Target(g) = <<Owner(g), Target(g)[2]>>
        BY <1>2, <3>1, <3>2 DEF ReportInv
      <4>2. Target(g) # <<direct, l>>
        <5>1. SUFFICES ASSUME Target(g) = <<direct, l>> PROVE FALSE
          OBVIOUS
        <5>2. Target(g)[2] = l
          BY <5>1
        <5>3. Owner(h) = direct /\ Target(h) = <<Owner(h), l>>
          BY <1>2, <2>2, <2>4, <3>2, <5>2 DEF l
        <5>4. Target(h) = Target(g)
          BY <5>1, <5>3
        <5>5. QED
          BY <1>2, <2>2, <4>1, <5>4
      <4>3. QED
        BY <3>1, <4>1, <4>2
    <3>3. QED
      BY <1>1, <3>1, <3>2 DEF ReportInv
  <2>7. QED
    BY <2>5, <2>6
<1>6. CASE InitializeBegins
  BY <1>4, <1>6 DEF InitializeBegins, subVars
<1>7. CASE InitializeSubHals
  <2>1. wantedReports' = {} /\ reports' \subseteq reports
    BY <1>7 DEF InitializeSubHals, SessionInv, fwkVars
  <2>2. QED
    BY <1>4, <2>1
<1>8. CASE StopDirectReports
  BY <1>4, <1>8 DEF StopDirectReports
<1>9. CASE \E h \in KnownHandles \cup Strangers, enable \in BOOLEAN : Activate(h, enable)
  BY <1>3, <1>9 DEF Activate, history
<1>10. CASE \E m \in Modes : SetOperationMode(m)
  BY <1>3, <1>10 DEF SetOperationMode, fwkVars
<1>11. CASE DisableAllSensors \/ ClearDynamicSensors \/ SetDynamicCallback
  BY <1>3, <1>11 DEF DisableAllSensors, ClearDynamicSensors, SetDynamicCallback, subVars, fwkVars,
     history
<1>12. CASE \E lib \in Loaded : SubHal(lib)
  BY <1>3, <1>12 DEF SubHal, UpdateDynamicSensors, TellFramework, Connect, Disconnect,
     CountWakeupEvents, subVars, fwkVars, history
<1>13. CASE UNCHANGED vars
  BY <1>3, <1>13 DEF vars, subVars, fwkVars, history
<1>14. QED
  BY <1>5, <1>6, <1>7, <1>8, <1>9, <1>10, <1>11, <1>12, <1>13 DEF Next, Framework, Initialize

(* All sub-HALs obey, or those before the one that fails are ordered back.  *)
LEMMA ModeInductive ==
  ASSUME ListInv, ModeInv, [Next]_vars
  PROVE  ModeInv'
<1>1. Loaded' = Loaded /\ Loaded \subseteq Libraries
  BY ListStays, NamesStay, IndexIsPlace
<1>2. CASE UNCHANGED <<mode, subMode, astray>>
  BY <1>1, <1>2 DEF ModeInv, ModesAgree
<1>3. ASSUME NEW m \in Modes, SetOperationMode(m)
      PROVE  ModeInv'
  <2>1. CASE /\ subMode' = [lib \in Libraries |-> IF lib \in Loaded THEN m ELSE subMode[lib]]
             /\ mode' = m
    BY <1>1, <2>1 DEF ModeInv, ModesAgree
  <2>2. ASSUME NEW failed \in DOMAIN subHals, NEW stuck \in SUBSET Flipped(failed),
               subMode' = [lib \in Libraries |->
                 IF lib \in Flipped(failed) \ stuck THEN mode
                 ELSE IF lib \in Before(failed) THEN m ELSE subMode[lib]],
               astray' = (astray \ Flipped(failed)) \cup stuck, UNCHANGED mode
        PROVE  ModeInv'
    BY <1>1, <2>2 DEF ModeInv, ModesAgree, Flipped
  <2>3. QED
    BY <1>3, <2>1, <2>2 DEF SetOperationMode
<1>4. CASE InitializeSubHals
  <2>1. PICK failed \in 1 .. (Len(subHals) + 1) :
          /\ subMode' = [lib \in Libraries |-> IF lib \in Before(failed) THEN "NORMAL"
                                               ELSE subMode[lib]]
          /\ astray' = Loaded \ Before(failed) /\ mode' = "NORMAL"
    BY <1>4 DEF InitializeSubHals
  <2>2. QED
    BY <1>1, <2>1 DEF ModeInv, ModesAgree, Modes
<1>5. CASE \E h \in KnownHandles \cup Strangers, enable \in BOOLEAN : Activate(h, enable)
  BY <1>2, <1>5 DEF Activate, proxyVars, history
<1>6. CASE \E h \in wantedReports \cup KnownHandles, start \in BOOLEAN :
             ConfigDirectReport(h, start)
  BY <1>2, <1>6 DEF ConfigDirectReport, proxyVars
<1>7. CASE StopDirectReports
  BY <1>2, <1>7 DEF StopDirectReports, proxyVars, history
<1>8. CASE InitializeBegins \/ DisableAllSensors \/ ClearDynamicSensors \/ SetDynamicCallback
  BY <1>2, <1>8 DEF InitializeBegins, DisableAllSensors, ClearDynamicSensors, SetDynamicCallback,
     proxyVars, subVars, history
<1>9. CASE \E lib \in Loaded : SubHal(lib)
  BY <1>2, <1>9 DEF SubHal, UpdateDynamicSensors, TellFramework, Connect, Disconnect,
     CountWakeupEvents, proxyVars, subVars, history
<1>10. CASE UNCHANGED vars
  BY <1>2, <1>10 DEF vars, proxyVars, subVars, history
<1>11. QED
  BY <1>3, <1>4, <1>5, <1>6, <1>7, <1>8, <1>9, <1>10 DEF Next, Framework, Initialize
-----------------------------------------------------------------------------
(* The constructor *)

(* A set of natural numbers that is not empty has a minimum.                *)
LEMMA LeastIsLeast ==
  ASSUME NEW S \in SUBSET Nat, S # {}
  PROVE  Min(S) \in S
<1> DEFINE R == {ss \in Nat \X Nat : ss[1] < ss[2]}
<1>1. IsWellFoundedOn(R, Nat)
  BY NatLessThanWellFounded, Zenon DEF OpToRel
<1> HIDE DEF R
<1>2. PICK n \in S : \A m \in S : <<m, n>> \notin R
  BY <1>1, WFMin
<1>3. ASSUME NEW m \in S
      PROVE  n <= m
  <2>1. m \in Nat /\ n \in Nat
    OBVIOUS
  <2>2. ~(m < n)
    BY <1>2, <2>1 DEF R
  <2>3. QED
    BY <2>1, <2>2
<1>4. QED
  BY <1>3 DEF Min

(* Libraries that were not loaded leave no gap in the list. *)
LEMMA ListAtInit ==
  ASSUME Init
  PROVE  ListInv
<1>0. PICK n \in 0 .. Len(Config) : \E place \in [1 .. n -> DOMAIN Config] :
        /\ \A i, j \in DOMAIN place : i < j => place[i] < place[j]
        /\ subHals = [i \in DOMAIN place |-> Config[place[i]]]
  BY DEF Init, InitializeSubHalList
<1>1. PICK place \in [1 .. n -> DOMAIN Config] :
        /\ \A i, j \in DOMAIN place : i < j => place[i] < place[j]
        /\ subHals = [i \in DOMAIN place |-> Config[place[i]]]
  BY <1>0
<1>2. /\ Config \in Seq(Libraries) /\ IsInjective(Config) /\ Len(Config) \in Nat
      /\ DOMAIN Config = 1 .. Len(Config)
  BY HandlesHaveRoom
<1>3. /\ DOMAIN place = 1 .. n /\ n \in Nat /\ \A i \in 1 .. n : place[i] \in 1 .. Len(Config)
      /\ subHals = [i \in 1 .. n |-> Config[place[i]]]
  BY <1>1, <1>2
<1>4. \A i \in 1 .. n : Config[place[i]] \in Libraries
  BY <1>2, <1>3
<1>5. subHals \in Seq(Libraries) /\ Len(subHals) = n /\ DOMAIN subHals = 1 .. n
  BY <1>3, <1>4
<1>6. ASSUME NEW i \in 1 .. n, NEW j \in 1 .. n, subHals[i] = subHals[j]
      PROVE  i = j
  <2>1. place[i] = place[j]
    BY <1>2, <1>3, <1>6 DEF IsInjective
  <2>2. ~(i < j) /\ ~(j < i)
    BY <1>1, <1>2, <1>3, <2>1
  <2>3. QED
    BY <2>2
<1>7. direct \in Loaded \cup {None}
  <2> DEFINE supporting == {m \in DOMAIN subHals : \E s \in ListedBy(subHals[m]) : s.direct}
  <2>1. direct = IF supporting = {} THEN None ELSE subHals[Min(supporting)]
    BY DEF Init, InitializeSensorList, DirectChannelSubHal
  <2>2. supporting \in SUBSET Nat /\ supporting \subseteq DOMAIN subHals
    BY <1>5
  <2> HIDE DEF supporting
  <2>3. supporting # {} => Min(supporting) \in DOMAIN subHals
    BY <2>2, LeastIsLeast
  <2>4. QED
    BY <2>1, <2>3 DEF Loaded, ToSet
<1>8. QED
  BY <1>1, <1>5, <1>6, <1>7 DEF ListInv, IsInjective

(* Each sensor of the list has the handle that leads back to it, and has    *)
(* kept its direct flag if it is one of the direct channel sub-HAL.         *)
LEMMA SensorsAtInit ==
  ASSUME Init
  PROVE  SensorInv
<1>1. ListInv
  BY ListAtInit
<1>2. /\ DOMAIN sensors = {info.handle : info \in SensorInfos}
      /\ \A h \in DOMAIN sensors : sensors[h] \in SensorInfos /\ sensors[h].handle = h
  BY DEF Init, InitializeSensorList
<1>3. ASSUME NEW info \in SensorInfos
      PROVE  /\ info \in [handle : Handles, direct : BOOLEAN] /\ info.handle \in Valid
             /\ Target(info.handle) \in StaticSensors
             /\ info.direct => Owner(info.handle) = direct
  <2>1. PICK lib \in Loaded, s \in UNION {ListedBy(other) : other \in Loaded} :
          /\ s \in ListedBy(lib)
          /\ info = [handle |-> SetSubHalIndex(s.handle, Index(lib)),
                     direct |-> DirectFlag(lib, s.direct)]
    BY DEF SensorInfos
  <2>2. s \in SensorList[lib] /\ s.handle \in LocalHandles
    BY <2>1 DEF ListedBy, SubHalIndexIsClear
  <2>3. s.direct \in BOOLEAN
    BY <1>1, <2>2, IndexIsPlace, SensorsAreNumbered
  <2>4. /\ info.handle = SetSubHalIndex(s.handle, Index(lib))
        /\ info.direct = (s.direct /\ lib = direct)
    BY <2>1 DEF DirectFlag
  <2>5. info.handle \in Valid /\ Target(info.handle) = <<lib, s.handle>>
    BY <1>1, <2>2, <2>4, NamesAreRight
  <2>6. <<lib, s.handle>> \in StaticSensors
    BY <2>2 DEF StaticSensors
  <2>7. info.direct \in BOOLEAN /\ (info.direct => lib = direct)
    BY <2>3, <2>4
  <2>8. info \in [handle : Handles, direct : BOOLEAN]
    BY <2>1, <2>4, <2>5, <2>7 DEF Valid
  <2>9. QED
    BY <2>5, <2>6, <2>7, <2>8 DEF Owner
<1>4. ASSUME NEW t \in StaticSensors, SubHalIndexIsClear(t[2])
      PROVE  HandleOf(t) \in DOMAIN sensors
  <2>1. PICK lib \in Loaded, s \in UNION {SensorList[other] : other \in Loaded} :
          s \in SensorList[lib] /\ t = <<lib, s.handle>>
    BY DEF StaticSensors
  <2>2. s \in ListedBy(lib)
    BY <1>4, <2>1 DEF ListedBy
  <2> DEFINE info == [handle |-> SetSubHalIndex(s.handle, Index(lib)),
                      direct |-> DirectFlag(lib, s.direct)]
  <2>3. info \in SensorInfos
    BY <2>2 DEF SensorInfos
  <2>4. info.handle = HandleOf(t)
    BY <2>1 DEF HandleOf
  <2>5. QED
    BY <1>2, <2>3, <2>4
<1>5. QED
  BY <1>2, <1>3, <1>4 DEF SensorInv
-----------------------------------------------------------------------------
(* The theorems *)

(* The constructor establishes the invariant, whatever libraries load.      *)
LEMMA ControlInit == Init => ControlInv
<1> SUFFICES ASSUME Init PROVE ControlInv
  OBVIOUS
<1>1. ListInv /\ SensorInv
  BY ListAtInit, SensorsAtInit
<1>2. CallInv
  BY <1>1, IndexIsPlace DEF Init, CallInv, CallFits, NoCall, Ops
<1>3. SessionInv /\ DynamicInv /\ ReportInv
  BY DEF Init, SessionInv, DynamicInv, ReportInv
<1>4. EnableInv
  BY DEF Init, EnableInv
<1>5. ModeInv
  BY <1>1, IndexIsPlace DEF Init, ModeInv, ModesAgree, Modes
<1>6. QED
  BY <1>1, <1>2, <1>3, <1>4, <1>5 DEF ControlInv

(* Every step of the binder thread, of a sub-HAL or of the framework keeps  *)
(* it.                                                                      *)
LEMMA ControlStep == ControlInv /\ [Next]_vars => ControlInv'
<1> SUFFICES ASSUME ControlInv, [Next]_vars PROVE ControlInv'
  OBVIOUS
<1> USE DEF ControlInv
<1>1. ListInv'
  BY ListStays, NamesStay DEF ListInv
<1>2. SensorInv'
  BY SensorInductive
<1>3. CallInv'
  BY CallInductive
<1>4. SessionInv'
  BY SessionInductive
<1>5. DynamicInv'
  BY DynamicInductive
<1>6. EnableInv'
  BY <1>3, EnableInductive
<1>7. ReportInv'
  BY ReportInductive
<1>8. ModeInv'
  BY ModeInductive
<1>9. QED
  BY <1>1, <1>2, <1>3, <1>4, <1>5, <1>6, <1>7, <1>8

(* The inductive invariant: lists, callbacks, sessions, dynamic sensors,    *)
(* what is active and what reports fit together (HalProxy.cpp).             *)
THEOREM ControlInvariant == Spec => []ControlInv
<1>1. QED
  BY ControlInit, ControlStep, PTL DEF Spec

(* Every variable has its type: handles stay handles of the width of        *)
(* int32_t, and only sensors of loaded sub-HALs are active or report.       *)
THEOREM TypeCorrect == Spec => []TypeOK
<1>1. ControlInv => TypeOK
  <2> SUFFICES ASSUME ControlInv PROVE TypeOK
    OBVIOUS
  <2>1. /\ Loaded \subseteq Libraries /\ initialized \subseteq Loaded
        /\ direct \in Loaded \cup {None} /\ mode \in Modes /\ subMode \in [Libraries -> Modes]
    BY IndexIsPlace DEF ControlInv, ListInv, CallInv, ModeInv
  <2>2. /\ DOMAIN sensors \subseteq Handles
        /\ \A h \in DOMAIN sensors : sensors[h] \in [handle : Handles, direct : BOOLEAN]
    BY DEF ControlInv, SensorInv, Valid
  <2>3. {dynamic, known, wanted, wantedReports} \subseteq SUBSET Handles
    BY DEF ControlInv, DynamicInv, EnableInv, ReportInv, Valid
  <2>4. enabled \cup reports \subseteq Loaded \X LocalHandles
    BY DEF ControlInv, EnableInv, ReportInv
  <2>5. QED
    BY <2>1, <2>2, <2>3, <2>4 DEF TypeOK
<1>2. QED
  BY <1>1, ControlInvariant, PTL

(* All sub-HALs are in the mode of the proxy, whatever fails, unless a      *)
(* rollback was refused or initialize() did not reach them                  *)
(* (HalProxy.cpp:133-154,258-267).                                          *)
THEOREM ModesKept == Spec => []ModesAgree
<1>1. ControlInv => ModesAgree
  BY DEF ControlInv, ModeInv
<1>2. QED
  BY <1>1, ControlInvariant, PTL

(* The active sensors are exactly those that the framework of this session  *)
(* enabled (HalProxy.cpp:156-162,219,439-442,559-569).                      *)
THEOREM ActiveAsAsked == Spec => []EnabledAsAsked
<1>1. ControlInv => EnabledAsAsked
  <2> SUFFICES ASSUME ControlInv, rpc = "idle", ~raced
               PROVE  \A t : t \in enabled <=>
                        /\ t \in StaticSensors \cup attached /\ SubHalIndexIsClear(t[2])
                        /\ SetSubHalIndex(t[2], Index(t[1])) \in wanted
    BY DEF EnabledAsAsked
  <2>1. \A t \in Loaded \X LocalHandles : HandleOf(t) \in Valid /\ Target(HandleOf(t)) = t
    BY NamesAreRight DEF HandleOf, ControlInv
  <2>2. \A t \in Loaded \X LocalHandles :
          t \in enabled <=> t \in StaticSensors \cup attached /\ HandleOf(t) \in wanted
    BY <2>1 DEF ControlInv, EnableInv, WantedFits
  <2>3. \A t \in enabled : t \in Loaded \X LocalHandles
    BY DEF ControlInv, EnableInv
  <2>4. \A t \in StaticSensors \cup attached : t \in Loaded \X Handles
    BY DynamicIsNotStatic DEF ControlInv, CallInv
  <2>5. \A t : t \in Loaded \X LocalHandles => SubHalIndexIsClear(t[2])
    BY DEF SubHalIndexIsClear
  <2>6. \A t : t \in Loaded \X Handles /\ SubHalIndexIsClear(t[2]) => t \in Loaded \X LocalHandles
    BY DEF SubHalIndexIsClear
  <2>7. QED
    BY <2>2, <2>3, <2>4, <2>5, <2>6 DEF HandleOf
<1>2. QED
  BY <1>1, ControlInvariant, PTL

(* The framework and mDynamicSensors agree on the dynamic sensors of a      *)
(* sub-HAL that is not in a callback (HalProxy.cpp:391-431).                *)
THEOREM DynamicSensorsKept == Spec => []DynamicSensorsAgree
<1>1. ControlInv => DynamicSensorsAgree
  <2> SUFFICES ASSUME ControlInv, rpc = "idle", ~raced, NEW lib \in Loaded, call[lib].op = "none"
               PROVE  /\ {h \in known : Target(h)[1] = lib} = {h \in dynamic : Target(h)[1] = lib}
                      /\ \A h \in dynamic : Target(h)[1] = lib => Target(h) \in attached
    BY DEF DynamicSensorsAgree
  <2>1. DynamicFits(lib) /\ known \cup dynamic \subseteq Valid
    BY DEF ControlInv, DynamicInv
  <2>2. \A h \in Valid : Owner(h) = lib => /\ h \in dynamic <=> h \in known
                                           /\ h \in dynamic => Target(h) \in attached
    BY <2>1 DEF DynamicFits, KnownOrTold
  <2>3. QED
    BY <2>1, <2>2 DEF Owner
<1>2. QED
  BY <1>1, ControlInvariant, PTL

(* A direct report is configured on the sensor that its handle names,       *)
(* unless a dynamic sensor of another sub-HAL got in between                *)
(* (HalProxy.cpp:332-347,727-740).                                          *)
THEOREM ReportsReachOwner == Spec => []DirectReportsReachOwner
<1>1. ControlInv => DirectReportsReachOwner
  <2>1. \A h : ClearSubHalIndex(h) = Target(h)[2]
    BY DEF Target
  <2>2. QED
    BY <2>1 DEF ControlInv, ReportInv, DirectReportsReachOwner
<1>2. QED
  BY <1>1, ControlInvariant, PTL
=============================================================================
