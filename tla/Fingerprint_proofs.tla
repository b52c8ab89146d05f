-------------------------- MODULE Fingerprint_proofs --------------------------
(***************************************************************************)
(* Safety of the fingerprint HAL for any clients, any messages of the      *)
(* vendor HAL, and any number of calls and of deaths of the process.       *)
(*                                                                         *)
(* Four inductive invariants with nothing in common but the threads: how   *)
(* the client callback follows the device, where the two switches of a     *)
(* finger can be between their writes, whose finger the light is for, and  *)
(* what a client was told of the message that is being handled.            *)
(***************************************************************************)
EXTENDS Fingerprint, TLAPS

PastCheck == notify \in {"telling", "up", "up touch"}

(* a client is set after the constructor, a message needs a registration,   *)
(* and past the check the client stays                                      *)
CInv ==
  /\ client # NoClient => ~opening
  /\ ~opening /\ registered => device = "open"
  /\ notify # "idle" => registered
  /\ PastCheck => client = checked /\ checked # NoClient

(* a thread in the middle has written the light as it will write the touch  *)
(* sensor, if no write of the other direction overlapped                    *)
LInv ==
  /\ overlapped \in BOOLEAN /\ hbm \in BOOLEAN /\ touch \in BOOLEAN
  /\ ~overlapped /\ ~died =>
       /\ BinderOn => hbm /\ ~NotifyOff
       /\ BinderOff \/ NotifyOff => ~hbm
       /\ ~BinderOn /\ ~BinderOff /\ ~NotifyOff => hbm = touch

(* the light is on for a finger, or a call that ends it comes next to       *)
(* switching it off                                                         *)
FInv ==
  /\ hbm \in BOOLEAN /\ died \in BOOLEAN /\ finger \in BOOLEAN
  /\ binder \in {"down", "down touch"} => finger
  /\ hbm /\ ~died => finger \/ binder \in {"up", "end"}

(* a thread in notify() has a message, and a client that was told of an     *)
(* error was told its translation                                           *)
MInv ==
  /\ TypeOK
  /\ notify # "idle" => msg \in Messages
  /\ answer.status = 0 => answer.error = 0
  /\ notify = "up" /\ msg.type = "error" => sent = Told(msg)

-----------------------------------------------------------------------------
(* The parts hold before the constructor runs.                              *)
LEMMA CInvInit == Init => CInv
BY DEF Init, CInv, PastCheck

(* Every step of the two threads, and the death of the process, keeps them. *)
LEMMA CInvStep == CInv /\ [Next]_vars => CInv'
<1> SUFFICES ASSUME CInv, [Next]_vars PROVE CInv'
  OBVIOUS
<1> USE DEF CInv, PastCheck, deviceVars, clientVars, fodVars, callVars
<1>1. CASE SetVendorCallback
  BY <1>1 DEF SetVendorCallback
<1>2. CASE OpenHalReturns
  BY <1>2 DEF OpenHalReturns
<1>3. ASSUME NEW m \in Messages, Receive(m) PROVE CInv'
  BY <1>3 DEF Receive
<1>4. CASE CheckClient
  BY <1>4 DEF CheckClient
<1>5. CASE TellClient
  BY <1>5 DEF TellClient
<1>6. CASE NotifyFingerUp
  <2>1. UNCHANGED <<deviceVars, clientVars>>
    BY <1>6, Zenon DEF NotifyFingerUp
  <2>2. notify \in {"up", "up touch"} /\ notify' \in {"up touch", "idle"}
    BY <1>6, Zenon DEF NotifyFingerUp
  <2> QED
    BY <2>1, <2>2
<1>7. ASSUME NEW c \in Clients \cup {NoClient}, SetNotify(c) PROVE CInv'
  BY <1>7 DEF SetNotify, ClientMutexFree
<1>8. CASE OnFingerDown \/ OnFingerUp \/ EndOperation \/ Request
  <2>1. /\ UNCHANGED <<deviceVars, clientVars, notify, fodVars>>
        /\ binder = "idle" /\ binder' \in {"down", "up", "end", "asking"}
    BY <1>8, Zenon DEF OnFingerDown, OnFingerUp, EndOperation, Request, Call
  <2> QED
    BY <2>1
<1>9. CASE SwitchFinger
  <2>1. UNCHANGED <<deviceVars, clientVars, notify>>
    BY <1>9, Zenon DEF SwitchFinger
  <2> QED
    BY <2>1
<1>10. ASSUME NEW error \in DeviceErrors, DeviceAnswers(error) PROVE CInv'
  BY <1>10 DEF DeviceAnswers
<1>11. CASE RefusePath
  BY <1>11 DEF RefusePath
<1>12. CASE Die
  BY <1>12 DEF Die
<1>13. CASE UNCHANGED vars
  BY <1>13 DEF vars
<1> QED
  BY <1>1, <1>2, <1>3, <1>4, <1>5, <1>6, <1>7, <1>8, <1>9, <1>10, <1>11, <1>12, <1>13
     DEF Next, Notify

-----------------------------------------------------------------------------
(* Before the first call no switch is under way.                            *)
LEMMA LInvInit == Init => LInv
BY DEF Init, LInv, BinderOn, BinderOff, NotifyOff

(* Each write of a switch leaves the invariant of its next place.           *)
LEMMA LInvStep == LInv /\ [Next]_vars => LInv'
<1> SUFFICES ASSUME LInv, [Next]_vars PROVE LInv'
  OBVIOUS
<1> USE DEF LInv, BinderOn, BinderOff, NotifyOff, deviceVars, clientVars, fodVars, callVars
<1>1. CASE SetVendorCallback
  BY <1>1 DEF SetVendorCallback
<1>2. CASE OpenHalReturns
  BY <1>2 DEF OpenHalReturns
<1>3. ASSUME NEW m \in Messages, Receive(m) PROVE LInv'
  BY <1>3 DEF Receive
<1>4. CASE CheckClient
  BY <1>4 DEF CheckClient
<1>5. CASE TellClient
  BY <1>5 DEF TellClient
<1>6. CASE NotifyFingerUp
  <2>1. CASE notify = "up" /\ notify' = "up touch" /\ SwitchHbm(FALSE, BinderOn)
             /\ UNCHANGED binder
    BY <2>1 DEF SwitchHbm
  <2>2. CASE notify = "up touch" /\ notify' = "idle" /\ SwitchTouch(FALSE, BinderOn)
             /\ UNCHANGED binder
    BY <2>2 DEF SwitchTouch
  <2> QED
    BY <1>6, <2>1, <2>2 DEF NotifyFingerUp
<1>7. ASSUME NEW c \in Clients \cup {NoClient}, SetNotify(c) PROVE LInv'
  BY <1>7 DEF SetNotify
<1>8. CASE OnFingerDown \/ OnFingerUp \/ EndOperation \/ Request
  <2>1. /\ UNCHANGED <<deviceVars, clientVars, notify, fodVars>>
        /\ binder = "idle" /\ binder' \in {"down", "up", "end", "asking"}
    BY <1>8, Zenon DEF OnFingerDown, OnFingerUp, EndOperation, Request, Call
  <2> QED
    BY <2>1
<1>9. CASE SwitchFinger
  <2>1. CASE binder = "down" /\ binder' = "down touch" /\ SwitchHbm(TRUE, NotifyOff)
             /\ UNCHANGED notify
    BY <2>1 DEF SwitchHbm
  <2>2. CASE binder \in {"up", "end"} /\ binder' \in {"up touch", "end touch"}
             /\ SwitchHbm(FALSE, FALSE) /\ UNCHANGED notify
    BY <2>2 DEF SwitchHbm
  <2>3. CASE binder \in {"down touch", "up touch", "end touch"} /\ binder' \in {"idle", "asking"}
             /\ SwitchTouch(BinderOn, BinderOn /\ NotifyOff) /\ UNCHANGED notify
    BY <2>3 DEF SwitchTouch
  <2> QED
    BY <1>9, <2>1, <2>2, <2>3 DEF SwitchFinger
<1>10. ASSUME NEW error \in DeviceErrors, DeviceAnswers(error) PROVE LInv'
  BY <1>10 DEF DeviceAnswers
<1>11. CASE RefusePath
  BY <1>11 DEF RefusePath
<1>12. CASE Die
  BY <1>12 DEF Die
<1>13. CASE UNCHANGED vars
  BY <1>13 DEF vars
<1> QED
  BY <1>1, <1>2, <1>3, <1>4, <1>5, <1>6, <1>7, <1>8, <1>9, <1>10, <1>11, <1>12, <1>13
     DEF Next, Notify

-----------------------------------------------------------------------------
(* Before the first call the light is off.                                  *)
LEMMA FInvInit == Init => FInv
BY DEF Init, FInv

(* No step leaves the light on for a finger that went without being on its  *)
(* way to switch it off.                                                    *)
LEMMA FInvStep == FInv /\ [Next]_vars => FInv'
<1> SUFFICES ASSUME FInv, [Next]_vars PROVE FInv'
  OBVIOUS
<1> USE DEF FInv, deviceVars, clientVars, fodVars, callVars
<1>1. CASE SetVendorCallback
  BY <1>1 DEF SetVendorCallback
<1>2. CASE OpenHalReturns
  BY <1>2 DEF OpenHalReturns
<1>3. ASSUME NEW m \in Messages, Receive(m) PROVE FInv'
  BY <1>3 DEF Receive
<1>4. CASE CheckClient
  BY <1>4 DEF CheckClient
<1>5. CASE TellClient
  BY <1>5 DEF TellClient
<1>6. CASE NotifyFingerUp
  <2>1. CASE SwitchHbm(FALSE, BinderOn) /\ UNCHANGED binder /\ UNCHANGED finger
    BY <2>1 DEF SwitchHbm
  <2>2. CASE SwitchTouch(FALSE, BinderOn) /\ UNCHANGED binder /\ UNCHANGED finger
    <3>1. UNCHANGED hbm /\ UNCHANGED died
      BY <2>2, Zenon DEF SwitchTouch
    <3> QED
      BY <2>2, <3>1
  <2> QED
    BY <1>6, <2>1, <2>2, Zenon DEF NotifyFingerUp
<1>7. ASSUME NEW c \in Clients \cup {NoClient}, SetNotify(c) PROVE FInv'
  BY <1>7 DEF SetNotify
<1>8. CASE OnFingerDown \/ OnFingerUp \/ EndOperation \/ Request
  <2>1. /\ UNCHANGED fodVars /\ binder = "idle"
        /\ \/ binder' = "down" /\ finger' = TRUE
           \/ binder' \in {"up", "end"} /\ finger' = FALSE
           \/ binder' = "asking" /\ finger' = finger
    BY <1>8, Zenon DEF OnFingerDown, OnFingerUp, EndOperation, Request, Call
  <2> QED
    BY <2>1
<1>9. CASE SwitchFinger
  <2>1. CASE binder = "down" /\ binder' = "down touch" /\ SwitchHbm(TRUE, NotifyOff)
             /\ UNCHANGED finger
    BY <2>1 DEF SwitchHbm
  <2>2. CASE binder \in {"up", "end"} /\ binder' \in {"up touch", "end touch"}
             /\ SwitchHbm(FALSE, FALSE) /\ UNCHANGED finger
    BY <2>2 DEF SwitchHbm
  <2>3. CASE binder \in {"down touch", "up touch", "end touch"} /\ binder' \in {"idle", "asking"}
             /\ UNCHANGED hbm /\ UNCHANGED died /\ UNCHANGED finger
    BY <2>3
  <2> QED
    BY <1>9, <2>1, <2>2, <2>3 DEF SwitchFinger, SwitchTouch
<1>10. ASSUME NEW error \in DeviceErrors, DeviceAnswers(error) PROVE FInv'
  BY <1>10 DEF DeviceAnswers
<1>11. CASE RefusePath
  BY <1>11 DEF RefusePath
<1>12. CASE Die
  BY <1>12 DEF Die
<1>13. CASE UNCHANGED vars
  BY <1>13 DEF vars
<1> QED
  BY <1>1, <1>2, <1>3, <1>4, <1>5, <1>6, <1>7, <1>8, <1>9, <1>10, <1>11, <1>12, <1>13
     DEF Next, Notify

-----------------------------------------------------------------------------
(* What a client is told of a message that is passed on is what its         *)
(* callbacks take.                                                          *)
LEMMA ToldFits ==
  ASSUME NEW m \in Messages, PassedOn(m)
  PROVE  Told(m) \in CallbackArguments
<1>0. m \in VendorMessages
  BY MessagesAreVendors
<1>1. CASE m \in [type : {"error", "acquired"}, code : Int] /\ m.type = "error"
  <2>1. Told(m) = [type |-> "onError", result |-> VendorErrorFilter(m.code)] /\ m.code \in Int
    BY <1>1 DEF Told
  <2>2. VendorErrorFilter(m.code) \in (KnownErrors \cup {ERROR_VENDOR}) \X Nat
    <3>1. CASE m.code \in KnownErrors
      BY <2>1, <3>1 DEF VendorErrorFilter
    <3>2. CASE m.code \notin KnownErrors /\ IsVendorCode(m.code)
      <4>1. m.code - VENDOR_BASE \in Nat
        BY <2>1, <3>2 DEF IsVendorCode, VENDOR_BASE
      <4>2. QED
        BY <3>2, <4>1 DEF VendorErrorFilter
    <3>3. CASE m.code \notin KnownErrors /\ ~IsVendorCode(m.code)
      BY <3>3 DEF VendorErrorFilter, KnownErrors, UNABLE_TO_PROCESS
    <3>4. QED
      BY <3>1, <3>2, <3>3
  <2>3. QED
    BY <2>1, <2>2 DEF CallbackArguments
<1>2. CASE m \in [type : {"error", "acquired"}, code : Int] /\ m.type = "acquired"
  <2>1. Told(m) = [type |-> "onAcquired", result |-> VendorAcquiredFilter(m.code)]
    BY <1>2 DEF Told
  <2>2. VendorAcquiredFilter(m.code) \in KnownAcquired \X {0}
    BY <1>2, PassedOn(m) DEF VendorAcquiredFilter, PassedOn, KnownAcquired, INSUFFICIENT
  <2>3. QED
    BY <2>1, <2>2 DEF CallbackArguments
<1>3. CASE m \in [type : {"enrolling"}, remaining : Nat]
  BY <1>3 DEF Told, CallbackArguments
<1>4. CASE m \in [type : {"authenticated"}, fid : Nat]
  BY <1>4 DEF Told, CallbackArguments
<1>5. CASE m \in [type : {"removed", "enumerating"}]
  BY <1>5 DEF Told, CallbackArguments
<1>6. QED
  BY <1>0, <1>1, <1>2, <1>3, <1>4, <1>5 DEF VendorMessages

(* From the result and the vendor code of an error the framework gets back  *)
(* the code, if the code has a name or is the vendor's own.                 *)
LEMMA ErrorToldApart ==
  ASSUME NEW code \in Int
  PROVE  LET result == VendorErrorFilter(code)[1]
             back   == IF result = ERROR_VENDOR
                       THEN VendorErrorFilter(code)[2] + VENDOR_BASE ELSE result
         IN back = IF code \in KnownErrors \/ code >= VENDOR_BASE THEN code
                   ELSE UNABLE_TO_PROCESS
BY DEF VendorErrorFilter, IsVendorCode, KnownErrors, ERROR_VENDOR, VENDOR_BASE,
       UNABLE_TO_PROCESS

(* A request is answered with SYS_OK only for a device that answered 0. *)
LEMMA OkMeansOk ==
  ASSUME NEW error
  PROVE  /\ ErrorFilter(error) \in KnownErrno \cup {SYS_UNKNOWN}
         /\ ErrorFilter(error) = 0 => error = 0
BY DEF ErrorFilter, SYS_UNKNOWN

(* Before the first message nothing was told.                               *)
LEMMA MInvInit == Init => MInv
<1> SUFFICES ASSUME Init PROVE MInv
  OBVIOUS
<1>1. {opening, registered, hbm, touch, overlapped, died, finger} \subseteq BOOLEAN
  BY Zenon DEF Init
<1>2. answer.status \in KnownErrno \cup {SYS_UNKNOWN} /\ answer.error = 0
  BY DEF Init, NoAnswer, KnownErrno
<1> QED
  BY <1>1, <1>2 DEF Init, MInv, TypeOK

(* A message is told as what it was translated to.                          *)
LEMMA MInvStep == MInv /\ [Next]_vars => MInv'
<1> SUFFICES ASSUME MInv, [Next]_vars PROVE MInv'
  OBVIOUS
<1> USE DEF MInv, TypeOK, deviceVars, clientVars, fodVars, callVars
<1>1. CASE SetVendorCallback
  <2>1. /\ UNCHANGED <<device, opening, clientVars, binder, notify, msg, fodVars, callVars>>
        /\ registered' = TRUE
    BY <1>1, Zenon DEF SetVendorCallback
  <2>2. {opening, registered, hbm, touch, overlapped, died, finger}' \subseteq BOOLEAN
    BY <2>1
  <2>3. TypeOK'
    BY <2>1, <2>2
  <2>4. /\ notify' # "idle" => msg' \in Messages
        /\ answer'.status = 0 => answer'.error = 0
        /\ notify' = "up" /\ msg'.type = "error" => sent' = Told(msg')
    BY <2>1
  <2> QED
    BY <2>3, <2>4
<1>2. CASE OpenHalReturns
  BY <1>2, ZenonT(60) DEF OpenHalReturns
<1>3. ASSUME NEW m \in Messages, Receive(m) PROVE MInv'
  BY <1>3 DEF Receive
<1>4. CASE CheckClient
  BY <1>4 DEF CheckClient
<1>5. CASE TellClient
  <2>1. sent' \in CallbackArguments \cup {NoMessage}
    BY <1>5, ToldFits DEF TellClient
  <2>2. msg.type = "error" => sent' = Told(msg)
    BY <1>5 DEF TellClient, PassedOn
  <2>3. QED
    BY <1>5, <2>1, <2>2 DEF TellClient
<1>6. CASE NotifyFingerUp
  BY <1>6 DEF NotifyFingerUp, SwitchHbm, SwitchTouch, BinderOn
<1>7. ASSUME NEW c \in Clients \cup {NoClient}, SetNotify(c) PROVE MInv'
  BY <1>7, ZenonT(60) DEF SetNotify
<1>8. CASE OnFingerDown \/ OnFingerUp \/ EndOperation \/ Request
  BY <1>8, ZenonT(60) DEF OnFingerDown, OnFingerUp, EndOperation, Request, Call
<1>9. CASE SwitchFinger
  BY <1>9, ZenonT(60) DEF SwitchFinger, SwitchHbm, SwitchTouch, BinderOn, NotifyOff
<1>10. ASSUME NEW error \in DeviceErrors, DeviceAnswers(error) PROVE MInv'
  BY <1>10, OkMeansOk DEF DeviceAnswers
<1>11. CASE RefusePath
  BY <1>11 DEF RefusePath, EINVAL, KnownErrno
<1>12. CASE Die
  BY <1>12 DEF Die
<1>13. CASE UNCHANGED vars
  <2>1. UNCHANGED <<deviceVars, clientVars, binder, notify, msg, fodVars, callVars>>
    BY <1>13, Zenon DEF vars
  <2>2. {opening, registered, hbm, touch, overlapped, died, finger}' \subseteq BOOLEAN
    BY <2>1
  <2>3. TypeOK'
    BY <2>1, <2>2, ZenonT(60)
  <2>4. /\ notify' # "idle" => msg' \in Messages
        /\ answer'.status = 0 => answer'.error = 0
        /\ notify' = "up" /\ msg'.type = "error" => sent' = Told(msg')
    BY <2>1
  <2> QED
    BY <2>3, <2>4
<1> QED
  BY <1>1, <1>2, <1>3, <1>4, <1>5, <1>6, <1>7, <1>8, <1>9, <1>10, <1>11, <1>12, <1>13
     DEF Next, Notify

-----------------------------------------------------------------------------
(* The client state behind a message is consistent at every moment: nobody  *)
(* is called before the device is open (BiometricsFingerprint.cpp:229-280). *)
THEOREM ClientFollowsDevice == Spec => []CInv
BY CInvInit, CInvStep, PTL DEF Spec

(* No message gets as far as a null device (NullDeviceUnused).              *)
THEOREM DeviceNeverNull == Spec => []NullDeviceUnused
<1>1. CInv => NullDeviceUnused
  BY DEF CInv, PastCheck, NullDeviceUnused
<1> QED
  BY <1>1, ClientFollowsDevice, PTL

(* The client is not replaced between the check and the call                *)
(* (ClientStaysRegistered).                                                 *)
THEOREM ClientStays == Spec => []ClientStaysRegistered
<1>1. CInv => ClientStaysRegistered
  BY DEF CInv, PastCheck, ClientStaysRegistered
<1> QED
  BY <1>1, ClientFollowsDevice, PTL

(* Light and touch sensor agree when nobody switches them, unless switching *)
(* on and off overlapped (LightAgreesWithSensor).                           *)
THEOREM LightAgrees == Spec => []LightAgreesWithSensor
<1>1. LInv => LightAgreesWithSensor
  BY DEF LInv, LightAgreesWithSensor
<1> QED
  BY <1>1, LInvInit, LInvStep, PTL DEF Spec

(* The light is on only for a finger, or after a death of the process       *)
(* (LightNeedsFinger).                                                      *)
THEOREM LightOnlyForFinger == Spec => []LightNeedsFinger
<1>1. FInv => LightNeedsFinger
  BY DEF FInv, LightNeedsFinger
<1> QED
  BY <1>1, FInvInit, FInvStep, PTL DEF Spec

(* Every variable has its type, and a client is told nothing but what its   *)
(* callbacks take (TypeOK).                                                 *)
THEOREM TypeCorrect == Spec => []TypeOK
<1>1. MInv => TypeOK
  BY DEF MInv
<1> QED
  BY <1>1, MInvInit, MInvStep, PTL DEF Spec

(* The framework can tell errors apart (ErrorsTellable), whatever codes the *)
(* vendor HAL sends.                                                        *)
THEOREM ErrorsToldApart == Spec => []ErrorsTellable
<1>1. MInv => ErrorsTellable
  <2> SUFFICES ASSUME MInv, notify = "up", msg.type = "error" PROVE ErrorsTellable
    BY DEF MInv, ErrorsTellable
  <2>1. msg \in Messages /\ sent = Told(msg)
    BY DEF MInv
  <2>2. msg.code \in Int
    BY <2>1, MessagesAreVendors DEF VendorMessages
  <2>3. sent.result = VendorErrorFilter(msg.code)
    BY <2>1 DEF Told
  <2> QED
    BY <2>2, <2>3, ErrorToldApart DEF MInv, ErrorsTellable
<1> QED
  BY <1>1, MInvInit, MInvStep, PTL DEF Spec
=============================================================================
