----------------------------- MODULE Fingerprint -----------------------------
(***************************************************************************)
(* The fingerprint HAL (src/fingerprint/BiometricsFingerprint.cpp): a      *)
(* wrapper between the framework, whose calls arrive one at a time on the  *)
(* binder thread, and the vendor HAL, which sends its messages to notify() *)
(* from a thread of its own.                                               *)
(*                                                                         *)
(* mClientCallbackMutex guards the client callback.  Nothing guards the    *)
(* two switches of a finger on the display: the light (HBM) and the        *)
(* command to the touch sensor (goodixExtCmd), written by onFingerDown,    *)
(* onFingerUp, cancel and postEnroll on the binder thread and by notify()  *)
(* when an operation ended.                                                *)
(*                                                                         *)
(* The process may die at any step.  init starts it again, the light and   *)
(* the touch sensor are in the kernel and stay as they are.                *)
(***************************************************************************)
EXTENDS Integers

CONSTANTS
  Clients,      \* client callbacks of the framework
  NoClient,     \* a null callback
  Messages,     \* messages the vendor HAL may send
  MaxMessages,  \* bound: messages sent
  DeviceErrors, \* what a call of the vendor's device may return
  MaxCalls,     \* bound: calls of the framework
  MaxDeaths     \* bound: deaths of the process

ASSUME NoClientIsNoClient == NoClient \notin Clients

(* fingerprint_msg_t: the codes are signed, the counts and ids are not *)
VendorMessages ==
  [type : {"error", "acquired"}, code : Int]
    \cup [type : {"enrolling"}, remaining : Nat]
    \cup [type : {"authenticated"}, fid : Nat]
    \cup [type : {"removed", "enumerating"}]

ASSUME MessagesAreVendors == Messages \subseteq VendorMessages

VARIABLES
  device,       \* mDevice: "null", or "open"
  opening,      \* is the constructor still running?
  registered,   \* did the vendor HAL accept notify() as its callback?
  client,       \* mClientCallback
  binder,       \* the place of the binder thread
  notify,       \* the place of the vendor's thread in notify()
  msg,          \* its message
  checked,      \* the client that passed the null check
  sent,         \* what it was told last
  hbm,          \* the light of the display
  touch,        \* the state of the touch sensor
  answer,       \* what the last request of the framework was answered
  \* history
  overlapped,   \* did the last switching on and off overlap?
  died,         \* did the process die since the light was switched last?
  finger,       \* was onFingerDown the last finger call of the framework?
  calls, messages, deaths

deviceVars == <<device, opening, registered>>
clientVars == <<client, checked, sent>>
fodVars    == <<hbm, touch, overlapped, died>>
callVars   == <<finger, answer, calls>>
vars == <<deviceVars, clientVars, binder, notify, msg, fodVars, callVars, messages, deaths>>

NoMessage == [type |-> "none"]
NoAnswer == [error |-> 0, status |-> 0]

Init ==
  /\ device = "null" /\ opening = TRUE /\ registered = FALSE
  /\ client = NoClient /\ checked = NoClient /\ sent = NoMessage
  /\ binder = "idle" /\ notify = "idle" /\ msg = NoMessage
  /\ hbm = FALSE /\ touch = FALSE /\ overlapped = FALSE /\ died = FALSE
  /\ finger = FALSE /\ answer = NoAnswer
  /\ calls = 0 /\ messages = 0 /\ deaths = 0
-----------------------------------------------------------------------------
(* Translation of the codes of the vendor HAL *)

VENDOR_BASE == 1000
ERROR_VENDOR == 8
ACQUIRED_VENDOR == 6
UNABLE_TO_PROCESS == 2
INSUFFICIENT == 2
KnownErrors   == 1..7
KnownAcquired == 0..5

MutantIsVendorCode(code) == code > VENDOR_BASE
IsVendorCode(code) == code >= VENDOR_BASE

(* the result and the vendor code the client is told *)
VendorErrorFilter(error) ==
  IF error \in KnownErrors THEN <<error, 0>>
  ELSE IF IsVendorCode(error) THEN <<ERROR_VENDOR, error - VENDOR_BASE>>
  ELSE <<UNABLE_TO_PROCESS, 0>>

VendorAcquiredFilter(info) ==
  IF info \in KnownAcquired THEN <<info, 0>>
  ELSE IF IsVendorCode(info) THEN <<ACQUIRED_VENDOR, info - VENDOR_BASE>>
  ELSE <<INSUFFICIENT, 0>>

(* the errno values RequestStatus has a name for, which is their value *)
EINVAL == -22
SYS_UNKNOWN == 1
KnownErrno == {0, -2, -4, -5, -11, -12, -13, -14, -16, EINVAL, -28, -110}

MutantErrorFilter(error) == IF error \in KnownErrno THEN error ELSE 0
ErrorFilter(error) == IF error \in KnownErrno THEN error ELSE SYS_UNKNOWN

(* what a client is told of a message; vendor acquisition messages are not  *)
(* passed on                                                                *)
Told(m) ==
  CASE m.type = "error"    -> [type |-> "onError", result |-> VendorErrorFilter(m.code)]
    [] m.type = "acquired" -> [type |-> "onAcquired", result |-> VendorAcquiredFilter(m.code)]
    [] m.type = "enrolling"     -> [type |-> "onEnrollResult", remaining |-> m.remaining]
    [] m.type = "removed"       -> [type |-> "onRemoved"]
    [] m.type = "enumerating"   -> [type |-> "onEnumerate"]
    [] m.type = "authenticated" -> [type |-> "onAuthenticated", recognized |-> m.fid # 0]

MutantPassedOn(m) == TRUE
PassedOn(m) == m.type = "acquired" => ~IsVendorCode(m.code)

(* the messages after which the finger counts as lifted *)
MutantEndsOperation(m) ==               \* not for a finger that is not recognized
  \/ m.type = "error"
  \/ m.type = "authenticated" /\ m.fid # 0
  \/ m.type = "enrolling" /\ m.remaining = 0
EndsOperation(m) ==
  \/ m.type \in {"error", "authenticated"}
  \/ m.type = "enrolling" /\ m.remaining = 0
-----------------------------------------------------------------------------
(* The constructor: openHal() makes notify() the callback of the vendor HAL *)
(* before mDevice has a value; the service is registered afterwards.        *)

SetVendorCallback ==
  /\ opening /\ ~registered
  /\ registered' = TRUE
  /\ UNCHANGED <<device, opening, clientVars, binder, notify, msg, fodVars, callVars, messages, deaths>>

OpenHalReturns ==
  /\ opening
  /\ opening' = FALSE
  /\ device' = IF registered THEN "open" ELSE "null"    \* an error on the way
  /\ UNCHANGED <<registered, clientVars, binder, notify, msg, fodVars, callVars, messages, deaths>>
-----------------------------------------------------------------------------
(* Writing the two switches.  A thread between its two writes is in the     *)
(* middle; the writes of another thread in the other direction overlap.     *)

BinderOn == binder = "down touch"
BinderOff == binder \in {"up touch", "end touch"}
NotifyOff == notify = "up touch"

SwitchHbm(on, met) == hbm' = on /\ overlapped' = met /\ died' = FALSE /\ UNCHANGED touch

MutantSwitchTouch(on, met) ==           \* the sensor only learns of a finger
  overlapped' = (overlapped \/ met) /\ touch' = (touch \/ on) /\ UNCHANGED <<hbm, died>>
SwitchTouch(on, met) ==
  touch' = on /\ overlapped' = (overlapped \/ met) /\ UNCHANGED <<hbm, died>>
-----------------------------------------------------------------------------
(* notify(), on the thread of the vendor HAL *)

Receive(m) ==
  /\ registered
  /\ notify = "idle" /\ messages < MaxMessages
  /\ messages' = messages + 1
  /\ msg' = m /\ notify' = "locking"
  /\ UNCHANGED <<deviceVars, clientVars, binder, fodVars, callVars, deaths>>

(* mClientCallbackMutex is kept until notify() returns *)
ClientMutexFree == notify \in {"idle", "locking"}

MutantCheckClient ==                    \* without the null check
  /\ notify = "locking"
  /\ checked' = client /\ notify' = "telling"
  /\ UNCHANGED <<deviceVars, client, sent, binder, msg, fodVars, callVars, messages, deaths>>

CheckClient ==
  /\ notify = "locking"
  /\ IF client = NoClient
     THEN notify' = "idle" /\ UNCHANGED checked
     ELSE notify' = "telling" /\ checked' = client
  /\ UNCHANGED <<deviceVars, client, sent, binder, msg, fodVars, callVars, messages, deaths>>

(* the callback, whose failure is only logged *)
TellClient ==
  /\ notify = "telling"
  /\ sent' = IF PassedOn(msg) THEN Told(msg) ELSE sent
  /\ notify' = IF EndsOperation(msg) THEN "up" ELSE "idle"
  /\ UNCHANGED <<deviceVars, client, checked, binder, msg, fodVars, callVars, messages, deaths>>

NotifyFingerUp ==
  \/ /\ notify = "up" /\ notify' = "up touch"
     /\ SwitchHbm(FALSE, BinderOn)
     /\ UNCHANGED <<deviceVars, clientVars, binder, msg, callVars, messages, deaths>>
  \/ /\ notify = "up touch" /\ notify' = "idle"
     /\ SwitchTouch(FALSE, BinderOn)
     /\ UNCHANGED <<deviceVars, clientVars, binder, msg, callVars, messages, deaths>>

Notify == CheckClient \/ TellClient \/ NotifyFingerUp
-----------------------------------------------------------------------------
(* Calls of the framework, on the binder thread *)

SetNotify(c) ==
  /\ ~opening
  /\ binder = "idle" /\ calls < MaxCalls
  /\ ClientMutexFree
  /\ calls' = calls + 1
  /\ client' = c
  /\ UNCHANGED <<deviceVars, checked, sent, binder, notify, msg, fodVars, finger, answer,
                 messages, deaths>>

(* the framework uses a device whose id setNotify returned *)
Call(place, touching) ==
  /\ device = "open" /\ client # NoClient
  /\ binder = "idle" /\ calls < MaxCalls
  /\ calls' = calls + 1
  /\ binder' = place /\ finger' = touching
  /\ UNCHANGED <<deviceVars, clientVars, notify, msg, fodVars, answer, messages, deaths>>

OnFingerDown == Call("down", TRUE)

OnFingerUp == Call("up", FALSE)

(* cancel and postEnroll switch off before they call the device *)
MutantEndOperation == Call("asking", FALSE)
EndOperation == Call("end", FALSE)

(* enroll, authenticate, enumerate, remove, setActiveGroup *)
Request == Call("asking", finger)

SwitchFinger ==
  \/ /\ binder = "down" /\ binder' = "down touch"
     /\ SwitchHbm(TRUE, NotifyOff)
     /\ UNCHANGED <<deviceVars, clientVars, notify, msg, callVars, messages, deaths>>
  \/ /\ \/ binder = "up" /\ binder' = "up touch"
        \/ binder = "end" /\ binder' = "end touch"
     /\ SwitchHbm(FALSE, FALSE)
     /\ UNCHANGED <<deviceVars, clientVars, notify, msg, callVars, messages, deaths>>
  \/ /\ \/ binder \in {"down touch", "up touch"} /\ binder' = "idle"
        \/ binder = "end touch" /\ binder' = "asking"
     /\ SwitchTouch(BinderOn, BinderOn /\ NotifyOff)
     /\ UNCHANGED <<deviceVars, clientVars, notify, msg, callVars, messages, deaths>>

DeviceAnswers(error) ==
  /\ binder = "asking"
  /\ binder' = "idle"
  /\ answer' = [error |-> error, status |-> ErrorFilter(error)]
  /\ UNCHANGED <<deviceVars, clientVars, notify, msg, fodVars, finger, calls, messages, deaths>>

(* setActiveGroup with a path that cannot be written *)
RefusePath ==
  /\ device = "open" /\ client # NoClient
  /\ binder = "idle" /\ calls < MaxCalls
  /\ calls' = calls + 1
  /\ answer' = [error |-> EINVAL, status |-> EINVAL]
  /\ UNCHANGED <<deviceVars, clientVars, binder, notify, msg, fodVars, finger, messages, deaths>>
-----------------------------------------------------------------------------
(* the process dies; the vendor's library may leave the touch sensor on or  *)
(* off when it is opened again                                              *)
Die ==
  /\ deaths < MaxDeaths /\ deaths' = deaths + 1
  /\ device' = "null" /\ opening' = TRUE /\ registered' = FALSE
  /\ client' = NoClient /\ checked' = NoClient
  /\ binder' = "idle" /\ notify' = "idle" /\ msg' = NoMessage
  /\ died' = TRUE
  /\ touch' \in {touch, FALSE}
  /\ UNCHANGED <<sent, hbm, overlapped, callVars, messages>>

Next ==
  \/ SetVendorCallback \/ OpenHalReturns
  \/ \E m \in Messages : Receive(m)
  \/ Notify
  \/ \E c \in Clients \cup {NoClient} : SetNotify(c)
  \/ OnFingerDown \/ OnFingerUp \/ EndOperation \/ Request \/ SwitchFinger
  \/ \E error \in DeviceErrors : DeviceAnswers(error)
  \/ RefusePath
  \/ Die

(* A thread that began a call or a message goes on. *)
Fairness == WF_vars(Notify) /\ WF_vars(SwitchFinger)

Spec == Init /\ [][Next]_vars /\ Fairness
-----------------------------------------------------------------------------
(* what the callbacks of a client take *)
CallbackArguments ==
  [type : {"onError"}, result : (KnownErrors \cup {ERROR_VENDOR}) \X Nat]
    \cup [type : {"onAcquired"}, result : KnownAcquired \X {0}]
    \cup [type : {"onEnrollResult"}, remaining : Nat]
    \cup [type : {"onAuthenticated"}, recognized : BOOLEAN]
    \cup [type : {"onRemoved", "onEnumerate"}]

(* Every variable has its type; a client is never told a vendor's           *)
(* acquisition message (BiometricsFingerprint.cpp:296).                     *)
TypeOK ==
  /\ device \in {"null", "open"}
  /\ {opening, registered, hbm, touch, overlapped, died, finger} \subseteq BOOLEAN
  /\ client \in Clients \cup {NoClient} /\ checked \in Clients \cup {NoClient}
  /\ msg \in Messages \cup {NoMessage}
  /\ sent \in CallbackArguments \cup {NoMessage}
  /\ answer.status \in KnownErrno \cup {SYS_UNKNOWN}
  /\ binder \in {"idle", "down", "down touch", "up", "up touch", "end", "end touch", "asking"}
  /\ notify \in {"idle", "locking", "telling", "up", "up touch"}

(* A message that arrives while openHal() still runs, or before anybody     *)
(* registered, never gets as far as the null device, also after the process *)
(* was started again: the client callback is set later than mDevice, and is *)
(* checked (BiometricsFingerprint.cpp:264,276-280).                         *)
NullDeviceUnused == notify \in {"telling", "up", "up touch"} => device = "open"

(* The client that is called is the one that passed the null check: it is   *)
(* not replaced or taken away meanwhile (BiometricsFingerprint.cpp:162,275).*)
ClientStaysRegistered == notify = "telling" => client = checked

(* Light and touch sensor agree whenever nobody is switching them, unless   *)
(* switching on and switching off overlapped: the two writes of onFingerDown*)
(* and onFingerUp are not atomic (BiometricsFingerprint.cpp:371-382).       *)
LightAgreesWithSensor ==
  ~overlapped /\ ~died /\ ~BinderOn /\ ~BinderOff /\ ~NotifyOff => hbm = touch

(* Between the calls of the framework the light is on only for a finger:    *)
(* every call that ends an operation switches it off, in whatever order     *)
(* messages of the vendor HAL end others, unless the process died with the  *)
(* light on, which nobody switches off when it starts again                 *)
(* (BiometricsFingerprint.cpp:48-54,181-195,371-382).                       *)
LightNeedsFinger == binder = "idle" /\ hbm /\ ~died => finger

(* The framework can tell errors apart: those fingerprint.h names, and the  *)
(* vendor's own with their codes, all others come as UNABLE_TO_PROCESS; and *)
(* a request is only answered with SYS_OK when the device accepted it       *)
(* (BiometricsFingerprint.cpp:70-130,205-216).                              *)
ErrorsTellable ==
  /\ answer.status = 0 => answer.error = 0
  /\ notify = "up" /\ msg.type = "error" =>
       LET result == sent.result[1]
           code   == IF result = ERROR_VENDOR THEN sent.result[2] + VENDOR_BASE ELSE result
       IN code = IF msg.code \in KnownErrors \/ msg.code >= VENDOR_BASE THEN msg.code
                 ELSE UNABLE_TO_PROCESS

(* The light goes off after every outcome a client was told, recognized or  *)
(* not, also when the finger stays, unless the process dies                 *)
(* (BiometricsFingerprint.cpp:289,312,340).                                 *)
LightGoesOff ==
  notify = "telling" /\ msg.type \in {"error", "authenticated"} ~> ~hbm \/ died
=============================================================================
