----------------------------- MODULE DiracEffect -----------------------------
(***************************************************************************)
(* The Dirac effect service (src/ParanoidDiracEffectService): a sticky     *)
(* service whose DiracHelper keeps one audio effect and lets it follow the *)
(* route and the volume of media playback.                                 *)
(*                                                                         *)
(* Everything runs on the main thread of the app, so that a call of        *)
(* updateRouting is one step.  What comes from outside is asynchronous: a  *)
(* callback that was posted to the main thread runs later, also after the  *)
(* listener was removed and after the service was started again; the audio *)
(* server may die and take the effect with it; any call of the effect may  *)
(* throw.                                                                  *)
(***************************************************************************)
EXTENDS Integers, FiniteSets

CONSTANTS
  MaxVolume,    \* getStreamMaxVolume, a multiple of 5 here
  MaxStarts,    \* bound: times the service is created
  MaxChanges,   \* bound: changes of route or volume
  MaxTroubles   \* bound: calls that throw and deaths of the audio server

ASSUME VolumeHasPivot == MaxVolume \in Nat \ {0} /\ MaxVolume % 5 = 0
ASSUME BoundsAreNat == {MaxStarts, MaxChanges, MaxTroubles} \subseteq Nat

VARIABLES
  \* per DiracHelper, in the order of their creation
  effect,       \* diracEffect: the state of the effect, or NoEffect
  isEffectEnabled,
  released,
  pending,      \* callbacks posted to the main thread for this helper
  \* the service
  current,      \* the helper of the running service, 0 if it is not running
  starts,
  \* the audio system
  speaker,      \* do all devices of the media route belong to the phone?
  volume,
  changes, troubles,
  \* history
  since         \* updates on the speaker since the last trouble, at most 2

helperVars  == <<effect, isEffectEnabled, released, pending>>
serviceVars == <<current, starts>>
audioVars   == <<speaker, volume, changes>>
vars == <<helperVars, serviceVars, audioVars, troubles, since>>

Helpers == 1 .. MaxStarts
NoEffect == [on |-> FALSE, volume |-> 0, state |-> "none"]
Null == 2                               \* isEffectEnabled: null, or 0 or 1

(* The volume that is passed to the effect: -1 to 0 up to the pivot, 0 to 1 *)
(* above it, times Scale                                                    *)
Pivot == (MaxVolume * 3) \div 5
Scale == Pivot * (MaxVolume - Pivot)

MutantNormalizedVolume(v) ==            \* one slope for both sides of the pivot
  IF v >= MaxVolume THEN Scale
  ELSE IF v <= 0 THEN -Scale
  ELSE (v - Pivot) * Pivot * 2
NormalizedVolume(v) ==
  IF v >= MaxVolume THEN Scale
  ELSE IF v <= 0 THEN -Scale
  ELSE IF v > Pivot THEN (v - Pivot) * Pivot
  ELSE (v - Pivot) * (MaxVolume - Pivot)

Init ==
  /\ effect = [h \in Helpers |-> NoEffect]
  /\ isEffectEnabled = [h \in Helpers |-> Null]
  /\ released = [h \in Helpers |-> FALSE]
  /\ pending = [h \in Helpers |-> 0]
  /\ current = 0 /\ starts = 0
  /\ speaker \in BOOLEAN /\ volume \in 0 .. MaxVolume
  /\ changes = 0 /\ troubles = 0 /\ since = 2
-----------------------------------------------------------------------------
(* updateRouting of helper h; throws tells whether a call of the audio      *)
(* manager, or of an effect that is alive or just created, throws           *)

Flag(b) == IF b THEN 1 ELSE 0

(* does updateRouting call the effect at all? *)
NeedsEffect(h) == speaker \/ (effect[h] # NoEffect /\ isEffectEnabled[h] # Flag(speaker))

(* an effect whose audio server died throws at the first call; a new one    *)
(* is created when there is none                                            *)
Throws(h, throws) ==
  throws \/ (NeedsEffect(h) /\ effect[h].state = "dead")

SetUp(h) ==
  /\ effect' = [effect EXCEPT ![h] = [on |-> speaker, state |-> "alive",
                  volume |-> IF speaker THEN NormalizedVolume(volume) ELSE effect[h].volume]]
  /\ isEffectEnabled' = [isEffectEnabled EXCEPT ![h] = Flag(speaker)]

MutantGiveUp(h) == UNCHANGED <<effect, isEffectEnabled>>    \* only logged
GiveUp(h) ==
  /\ effect' = [effect EXCEPT ![h] = NoEffect]
  /\ isEffectEnabled' = [isEffectEnabled EXCEPT ![h] = Null]

MutantIgnored(h) == FALSE               \* a released helper goes on
Ignored(h) == released[h]

UpdateRouting(h, throws) ==
  IF Ignored(h) THEN UNCHANGED <<effect, isEffectEnabled, since, troubles>>
  ELSE /\ IF Throws(h, throws) THEN GiveUp(h)
          ELSE IF NeedsEffect(h) THEN SetUp(h) ELSE UNCHANGED <<effect, isEffectEnabled>>
       /\ IF throws
          THEN troubles < MaxTroubles /\ troubles' = troubles + 1 /\ since' = 0
          ELSE /\ UNCHANGED troubles
               /\ since' = IF speaker /\ since < 2 THEN since + 1 ELSE since
-----------------------------------------------------------------------------
(* The service.  Boot starts it, and the system starts it again after it    *)
(* was destroyed; onCreate builds the helper, which updates.                *)

OnCreate(throws) ==
  /\ current = 0 /\ starts < MaxStarts
  /\ starts' = starts + 1 /\ current' = starts + 1
  /\ UpdateRouting(starts + 1, throws)
  /\ UNCHANGED <<released, pending, audioVars>>

OnStartCommand(throws) ==
  /\ current # 0
  /\ UpdateRouting(current, throws)
  /\ UNCHANGED <<released, pending, serviceVars, audioVars>>

OnDestroy ==
  /\ current # 0
  /\ released' = [released EXCEPT ![current] = TRUE]
  /\ effect' = [effect EXCEPT ![current] = NoEffect]
  /\ isEffectEnabled' = [isEffectEnabled EXCEPT ![current] = Null]
  /\ current' = 0
  /\ UNCHANGED <<pending, starts, audioVars, troubles, since>>

(* a callback of the route listener or of the volume receiver; those of a   *)
(* helper that was released may still be on their way                       *)
Callback(h, throws) ==
  /\ pending[h] > 0
  /\ pending' = [pending EXCEPT ![h] = @ - 1]
  /\ UpdateRouting(h, throws)
  /\ UNCHANGED <<released, serviceVars, audioVars>>
-----------------------------------------------------------------------------
(* The audio system *)

Posted == IF current = 0 THEN pending ELSE [pending EXCEPT ![current] = @ + 1]

RouteChanges ==
  /\ changes < MaxChanges /\ changes' = changes + 1
  /\ speaker' = ~speaker
  /\ pending' = Posted
  /\ UNCHANGED <<effect, isEffectEnabled, released, serviceVars, volume, troubles, since>>

VolumeChanges(v) ==
  /\ changes < MaxChanges /\ changes' = changes + 1
  /\ v # volume /\ volume' = v
  /\ pending' = Posted
  /\ UNCHANGED <<effect, isEffectEnabled, released, serviceVars, speaker, troubles, since>>

AudioServerDies ==
  /\ troubles < MaxTroubles /\ troubles' = troubles + 1
  /\ effect' = [h \in Helpers |-> IF effect[h] = NoEffect THEN NoEffect
                                  ELSE [effect[h] EXCEPT !.state = "dead"]]
  /\ since' = 0
  /\ UNCHANGED <<isEffectEnabled, released, pending, serviceVars, audioVars>>

Next ==
  \/ \E throws \in BOOLEAN :
       \/ OnCreate(throws) \/ OnStartCommand(throws)
       \/ \E h \in Helpers : Callback(h, throws)
  \/ OnDestroy
  \/ RouteChanges \/ AudioServerDies \/ \E v \in 0 .. MaxVolume : VolumeChanges(v)

Spec == Init /\ [][Next]_vars
-----------------------------------------------------------------------------
(* Every variable has its type. *)
TypeOK ==
  /\ effect \in [Helpers -> [on : BOOLEAN, volume : -Scale .. Scale,
                             state : {"none", "alive", "dead"}]]
  /\ isEffectEnabled \in [Helpers -> {0, 1, Null}]
  /\ released \in [Helpers -> BOOLEAN]
  /\ pending \in [Helpers -> Nat]
  /\ current \in 0 .. starts /\ starts \in 0 .. MaxStarts
  /\ speaker \in BOOLEAN /\ volume \in 0 .. MaxVolume
  /\ {changes, troubles} \subseteq Nat /\ since \in 0 .. 2

(* There is never an effect but that of the running service: a released     *)
(* helper gave its own back, and a callback that comes late does not create *)
(* one again (DiracHelper.kt:52,78-85).                                     *)
OnlyRunningServiceHasEffect == \A h \in Helpers : effect[h] # NoEffect => h = current

(* When no callback is on its way, the effect is on exactly on the speaker, *)
(* and its volume is positive above the pivot.  After the audio server died *)
(* or a call threw it takes at most two updates on the speaker: one to      *)
(* notice that the effect is dead, one to create it again                   *)
(* (DiracHelper.kt:51-76).                                                  *)
EffectFollowsRoute ==
  current # 0 /\ pending[current] = 0 /\ since = 2 =>
    LET e == effect[current]
    IN /\ speaker => e.on /\ e.state = "alive" /\ (e.volume > 0 <=> volume > Pivot)
       /\ ~speaker => ~(e.on /\ e.state = "alive")
=============================================================================
