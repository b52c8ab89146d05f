------------------------- MODULE DiracEffect_proofs -------------------------
(***************************************************************************)
(* Proofs about DiracEffect: the effect is that of the running service,    *)
(* and when no callback is on its way it follows the route and the volume, *)
(* for every volume range, every number of restarts and every order of     *)
(* changes, late callbacks, throwing calls and deaths of the audio server. *)
(*                                                                         *)
(* EffectFollowsRoute is not inductive: whether the next update turns the  *)
(* effect on or off depends on isEffectEnabled, which must agree with the  *)
(* effect (HelperInv), and on an effect that died, which no update may     *)
(* have missed (since = 0); that a late callback does nothing depends on   *)
(* every helper but the current one being released or not yet created.     *)
(***************************************************************************)
EXTENDS DiracEffect, TLAPS

Effects == [on : BOOLEAN, volume : -Scale .. Scale, state : {"none", "alive", "dead"}]

(* What DiracHelper knows of its effect is true. *)
HelperInv(h) ==
  /\ isEffectEnabled[h] = Null <=> effect[h] = NoEffect
  /\ effect[h].state = "alive" => (effect[h].on <=> isEffectEnabled[h] = 1)
  /\ effect[h].state = "dead" => since = 0
  /\ h > starts => effect[h] = NoEffect /\ ~released[h] /\ pending[h] = 0
  /\ h <= starts => (released[h] <=> h # current)

DiracInv ==
  /\ TypeOK
  /\ \A h \in Helpers : HelperInv(h)
  /\ OnlyRunningServiceHasEffect
  /\ EffectFollowsRoute
-----------------------------------------------------------------------------
(* A larger factor does not make a product smaller. *)
LEMMA Monotone ==
  ASSUME NEW a \in Nat, NEW b \in Nat, a <= b, NEW m \in Nat
  PROVE  a * m <= b * m /\ a * m \in Nat /\ b * m \in Nat
<1>1. PICK c \in Nat : b = a + c
  <2>1. b - a \in Nat /\ b = a + (b - a)
    OBVIOUS
  <2>2. QED
    BY <2>1
<1>2. (a + c) * m = a * m + c * m /\ a * m \in Nat /\ c * m \in Nat
  OBVIOUS
<1>3. QED
  BY <1>1, <1>2

(* The pivot is an inner point of the volume range. *)
LEMMA PivotInside ==
  Pivot \in Nat /\ Pivot > 0 /\ Pivot < MaxVolume /\ MaxVolume \in Nat
BY VolumeHasPivot DEF Pivot

(* A product of positive numbers is positive. *)
LEMMA Positive ==
  ASSUME NEW a \in Nat, NEW b \in Nat, a > 0, b > 0
  PROVE  a * b > 0 /\ a * b \in Nat
<1>1. a * b >= 1 * b
  BY Monotone
<1>2. QED
  BY <1>1

(* It is in the range of the effect, and positive exactly above the pivot. *)
LEMMA NormalizedInRange ==
  ASSUME NEW v \in 0 .. MaxVolume
  PROVE  /\ NormalizedVolume(v) \in -Scale .. Scale
         /\ NormalizedVolume(v) > 0 <=> v > Pivot
         /\ Scale \in Nat /\ Scale > 0
<1> DEFINE d == MaxVolume - Pivot
<1>1. d \in Nat /\ d > 0 /\ Pivot \in Nat /\ Pivot > 0 /\ MaxVolume \in Nat
      /\ MaxVolume = Pivot + d
  BY PivotInside
<1>2. Scale = Pivot * d
  BY DEF Scale
<1>3. Scale \in Nat /\ Scale > 0
  BY <1>1, <1>2, Positive
<1>4. d * Pivot = Scale
  BY <1>1, <1>2
<1>5. CASE v >= MaxVolume
  BY <1>1, <1>3, <1>5 DEF NormalizedVolume
<1>6. CASE v < MaxVolume /\ v <= 0
  BY <1>1, <1>3, <1>6 DEF NormalizedVolume
<1>7. CASE v < MaxVolume /\ v > 0 /\ v > Pivot
  <2>1. PICK a \in Nat : a = v - Pivot /\ a > 0 /\ a <= d
    BY <1>1, <1>7
  <2>2. a * Pivot <= d * Pivot /\ a * Pivot > 0 /\ a * Pivot \in Nat
    BY <1>1, <2>1, Monotone, Positive
  <2>3. NormalizedVolume(v) = a * Pivot
    BY <1>7, <2>1, PivotInside DEF NormalizedVolume
  <2>4. QED
    BY <1>3, <1>4, <1>7, <2>2, <2>3
<1>8. CASE v < MaxVolume /\ v > 0 /\ v <= Pivot
  <2>1. PICK a \in Nat : v - Pivot = -a /\ a <= Pivot
    <3>1. Pivot - v \in Nat /\ v - Pivot = -(Pivot - v) /\ Pivot - v <= Pivot
      BY <1>1, <1>8
    <3>2. QED
      BY <3>1
  <2>2. a * d <= Pivot * d /\ a * d \in Nat
    BY <1>1, <2>1, Monotone
  <2>3. NormalizedVolume(v) = (-a) * d
    BY <1>8, <2>1, PivotInside DEF NormalizedVolume
  <2>4. (-a) * d = -(a * d)
    BY <1>1
  <2>5. QED
    BY <1>1, <1>2, <1>3, <1>8, <2>2, <2>3, <2>4
<1>9. QED
  BY <1>1, <1>5, <1>6, <1>7, <1>8
-----------------------------------------------------------------------------
(* The effect follows the route and the volume. *)
Follows(e) ==
  /\ speaker => e.on /\ e.state = "alive" /\ (e.volume > 0 <=> volume > Pivot)
  /\ ~speaker => ~(e.on /\ e.state = "alive")

(* What an update leaves behind: the effect of the helper agrees with what  *)
(* isEffectEnabled says, it is not a dead one that an update on the speaker *)
(* passed over, and after two updates since the last trouble it follows the *)
(* route.                                                                   *)
LEMMA Updated ==
  ASSUME TypeOK, NEW h \in Helpers, NEW throws \in BOOLEAN, ~released[h],
         isEffectEnabled[h] = Null <=> effect[h] = NoEffect,
         effect[h].state = "alive" => (effect[h].on <=> isEffectEnabled[h] = 1),
         effect[h].state = "dead" => since = 0,
         UpdateRouting(h, throws)
  PROVE  /\ effect' \in [Helpers -> Effects]
         /\ isEffectEnabled' \in [Helpers -> {0, 1, Null}]
         /\ since' \in 0 .. 2 /\ troubles' \in Nat
         /\ \A g \in Helpers \ {h} :
              effect'[g] = effect[g] /\ isEffectEnabled'[g] = isEffectEnabled[g]
         /\ isEffectEnabled'[h] = Null <=> effect'[h] = NoEffect
         /\ effect'[h].state = "alive" => (effect'[h].on <=> isEffectEnabled'[h] = 1)
         /\ effect'[h].state = "dead" => since' = 0
         /\ since' = 2 => Follows(effect'[h])
<1>1. /\ effect \in [Helpers -> Effects] /\ effect[h] \in Effects
      /\ isEffectEnabled \in [Helpers -> {0, 1, Null}]
      /\ since \in 0 .. 2 /\ troubles \in Nat
      /\ speaker \in BOOLEAN /\ volume \in 0 .. MaxVolume
  BY DEF TypeOK, Effects
<1>2. since' \in 0 .. 2 /\ troubles' \in Nat
  BY <1>1 DEF UpdateRouting, Ignored
<1>3. NoEffect \in Effects /\ ~NoEffect.on /\ NoEffect.state = "none"
  <2>1. 0 \in -Scale .. Scale
    BY NormalizedInRange, PivotInside
  <2>2. QED
    BY <2>1 DEF NoEffect, Effects
<1>4. CASE Throws(h, throws)
  <2>1. GiveUp(h)
    BY <1>4 DEF UpdateRouting, Ignored
  <2>2. effect'[h] = NoEffect /\ isEffectEnabled'[h] = Null
    BY <1>1, <2>1 DEF GiveUp
  <2>3. effect' \in [Helpers -> Effects] /\ isEffectEnabled' \in [Helpers -> {0, 1, Null}]
    BY <1>1, <1>3, <2>1 DEF GiveUp
  <2>4. \A g \in Helpers \ {h} :
          effect'[g] = effect[g] /\ isEffectEnabled'[g] = isEffectEnabled[g]
    BY <1>1, <2>1 DEF GiveUp
  <2>5. since' = 2 => ~speaker
    BY <1>1, <1>4 DEF UpdateRouting, Ignored, Throws
  <2>6. QED
    BY <1>2, <1>3, <2>2, <2>3, <2>4, <2>5 DEF Follows
<1>5. CASE ~Throws(h, throws) /\ NeedsEffect(h)
  <2>1. SetUp(h)
    BY <1>5 DEF UpdateRouting, Ignored
  <2> DEFINE e == [on |-> speaker, state |-> "alive",
                   volume |-> IF speaker THEN NormalizedVolume(volume) ELSE effect[h].volume]
  <2>2. effect' = [effect EXCEPT ![h] = e]
        /\ isEffectEnabled' = [isEffectEnabled EXCEPT ![h] = Flag(speaker)]
    BY <2>1 DEF SetUp
  <2>3. e \in Effects /\ e.on = speaker /\ e.state = "alive" /\ e # NoEffect
        /\ (speaker => (e.volume > 0 <=> volume > Pivot))
    <3>1. /\ NormalizedVolume(volume) \in -Scale .. Scale
          /\ NormalizedVolume(volume) > 0 <=> volume > Pivot
      BY <1>1, NormalizedInRange
    <3>2. effect[h].volume \in -Scale .. Scale
      BY <1>1 DEF Effects
    <3>3. e.on = speaker /\ e.state = "alive"
          /\ e.volume = IF speaker THEN NormalizedVolume(volume) ELSE effect[h].volume
      OBVIOUS
    <3>4. e \in Effects
      BY <1>1, <3>1, <3>2 DEF Effects
    <3>5. QED
      BY <1>3, <3>1, <3>3, <3>4
  <2> HIDE DEF e
  <2>4. effect'[h] = e /\ isEffectEnabled'[h] = Flag(speaker)
    BY <1>1, <2>2
  <2>5. Flag(speaker) \in {0, 1} /\ (Flag(speaker) = 1 <=> speaker)
    BY <1>1 DEF Flag
  <2>6. effect' \in [Helpers -> Effects] /\ isEffectEnabled' \in [Helpers -> {0, 1, Null}]
    BY <1>1, <2>2, <2>3, <2>5
  <2>7. \A g \in Helpers \ {h} :
          effect'[g] = effect[g] /\ isEffectEnabled'[g] = isEffectEnabled[g]
    BY <1>1, <2>2
  <2>8. Follows(e)
    BY <2>3 DEF Follows
  <2>9. isEffectEnabled'[h] # Null
    BY <2>4, <2>5 DEF Null
  <2>10. QED
    BY <1>2, <2>3, <2>4, <2>5, <2>6, <2>7, <2>8, <2>9
<1>6. CASE ~Throws(h, throws) /\ ~NeedsEffect(h)
  <2>1. UNCHANGED <<effect, isEffectEnabled>> /\ ~speaker
    BY <1>6 DEF UpdateRouting, Ignored, NeedsEffect
  <2>2. since' = since
    BY <1>6, <2>1 DEF UpdateRouting, Ignored, Throws
  <2>3. effect[h] # NoEffect => isEffectEnabled[h] = 0
    BY <1>6, <2>1 DEF NeedsEffect, Flag
  <2>4. ~(effect[h].on /\ effect[h].state = "alive")
    BY <1>3, <2>3
  <2>5. QED
    BY <1>1, <1>2, <2>1, <2>2, <2>4 DEF Follows
<1>7. QED
  BY <1>4, <1>5, <1>6

(* The same of the update of the helper that runs after a step. *)
LEMMA UpdatedInv ==
  ASSUME DiracInv, NEW h \in Helpers, NEW throws \in BOOLEAN, UpdateRouting(h, throws),
         ~released[h], current' = h, \A g \in Helpers \ {h} : effect[g] = NoEffect,
         UNCHANGED <<released, speaker, volume, changes>>,
         starts' \in 1 .. MaxStarts, h \in 1 .. starts', starts' >= starts,
         \A g \in Helpers : g <= starts' => (released[g] <=> g # h),
         pending' \in [Helpers -> Nat],
         \A g \in Helpers : g > starts' => pending'[g] = 0
  PROVE  DiracInv'
<1>1. /\ effect' \in [Helpers -> Effects]
      /\ isEffectEnabled' \in [Helpers -> {0, 1, Null}]
      /\ since' \in 0 .. 2 /\ troubles' \in Nat
      /\ \A g \in Helpers \ {h} :
           effect'[g] = effect[g] /\ isEffectEnabled'[g] = isEffectEnabled[g]
      /\ isEffectEnabled'[h] = Null <=> effect'[h] = NoEffect
      /\ effect'[h].state = "alive" => (effect'[h].on <=> isEffectEnabled'[h] = 1)
      /\ effect'[h].state = "dead" => since' = 0
      /\ since' = 2 => Follows(effect'[h])
  BY Updated DEF DiracInv, HelperInv
<1>2. TypeOK'
  BY <1>1 DEF DiracInv, TypeOK, Effects
<1>3. ASSUME NEW g \in Helpers PROVE HelperInv(g)'
  <2>1. CASE g = h
    BY <1>1, <2>1 DEF HelperInv
  <2>2. CASE g # h
    <3>1. effect'[g] = NoEffect /\ isEffectEnabled'[g] = isEffectEnabled[g]
      BY <1>1, <2>2
    <3>2. NoEffect.state = "none"
      BY DEF NoEffect
    <3>3. g \in Int /\ starts \in Int /\ starts' \in Int
      BY DEF Helpers, DiracInv, TypeOK
    <3>4. g > starts' => ~released'[g]
      BY <3>3 DEF DiracInv, HelperInv
    <3>5. QED
      BY <2>2, <3>1, <3>2, <3>4 DEF DiracInv, HelperInv
  <2>3. QED
    BY <2>1, <2>2
<1>4. OnlyRunningServiceHasEffect'
  BY <1>1 DEF OnlyRunningServiceHasEffect
<1>5. EffectFollowsRoute'
  BY <1>1 DEF EffectFollowsRoute, Follows, Pivot
<1>6. QED
  BY <1>2, <1>3, <1>4, <1>5 DEF DiracInv
-----------------------------------------------------------------------------
(* No service was created yet. *)
LEMMA DiracInit == Init => DiracInv
<1>1. SUFFICES ASSUME Init PROVE DiracInv
  OBVIOUS
<1>2. NoEffect \in Effects /\ NoEffect.state = "none"
  <2>1. 0 \in -Scale .. Scale
    BY NormalizedInRange, PivotInside
  <2>2. QED
    BY <2>1 DEF NoEffect, Effects
<1>3. TypeOK
  BY <1>1, <1>2, BoundsAreNat DEF Init, TypeOK, Effects, Null
<1>4. ASSUME NEW h \in Helpers PROVE HelperInv(h)
  <2>1. effect[h] = NoEffect /\ isEffectEnabled[h] = Null /\ ~released[h] /\ pending[h] = 0
    BY <1>1 DEF Init
  <2>2. starts = 0 /\ ~(h <= starts)
    BY <1>1 DEF Init, Helpers
  <2>3. QED
    BY <1>2, <2>1, <2>2 DEF HelperInv
<1>5. OnlyRunningServiceHasEffect /\ EffectFollowsRoute
  BY <1>1 DEF Init, OnlyRunningServiceHasEffect, EffectFollowsRoute
<1>6. QED
  BY <1>3, <1>4, <1>5 DEF DiracInv

(* Every step keeps the invariant. *)
LEMMA DiracInductive ==
  ASSUME DiracInv, [Next]_vars
  PROVE  DiracInv'
<1> USE DEF helperVars, serviceVars, audioVars
<1>1. /\ TypeOK /\ OnlyRunningServiceHasEffect
      /\ \A h \in Helpers : HelperInv(h)
      /\ {starts, current, MaxStarts} \subseteq Nat
      /\ current <= starts /\ starts <= MaxStarts
  BY BoundsAreNat DEF DiracInv, TypeOK
<1>2. current # 0 => current \in Helpers /\ ~released[current]
  BY <1>1 DEF HelperInv, Helpers
<1>3. \A h \in Helpers : h # current => effect[h] = NoEffect
  BY <1>1 DEF OnlyRunningServiceHasEffect
<1>4. ASSUME NEW throws \in BOOLEAN, OnCreate(throws) PROVE DiracInv'
  <2> DEFINE h == starts + 1
  <2>1. h \in Helpers /\ current' = h /\ starts' = h /\ h \in 1 .. MaxStarts /\ current = 0
    BY <1>1, <1>4 DEF OnCreate, Helpers
  <2>2. UpdateRouting(h, throws)
        /\ UNCHANGED <<released, pending, speaker, volume, changes>>
    BY <1>4 DEF OnCreate
  <2>3. ~released[h] /\ \A g \in Helpers : effect[g] = NoEffect
    BY <1>1, <1>3, <2>1 DEF HelperInv, Helpers
  <2>4. \A g \in Helpers : g <= h => (released[g] <=> g # h)
    BY <1>1, <2>1, <2>3 DEF HelperInv, Helpers
  <2>5. pending' \in [Helpers -> Nat] /\ \A g \in Helpers : g > h => pending'[g] = 0
    BY <1>1, <2>2 DEF HelperInv, Helpers, TypeOK
  <2>6. starts' >= starts /\ starts' \in 1 .. MaxStarts /\ h \in 1 .. starts'
    BY <1>1, <2>1
  <2> HIDE DEF h
  <2>7. QED
    BY <2>1, <2>2, <2>3, <2>4, <2>5, <2>6, UpdatedInv
<1>5. ASSUME NEW throws \in BOOLEAN, OnStartCommand(throws) PROVE DiracInv'
  <2>1. /\ current \in Helpers /\ ~released[current] /\ UpdateRouting(current, throws)
        /\ UNCHANGED <<released, pending, current, starts, speaker, volume, changes>>
    BY <1>2, <1>5 DEF OnStartCommand
  <2>2. starts' \in 1 .. MaxStarts /\ current \in 1 .. starts' /\ starts' >= starts
    BY <1>1, <2>1 DEF Helpers, TypeOK
  <2>3. /\ \A g \in Helpers : g <= starts' => (released[g] <=> g # current)
        /\ pending' \in [Helpers -> Nat]
        /\ \A g \in Helpers : g > starts' => pending'[g] = 0
    BY <1>1, <2>1 DEF HelperInv, TypeOK
  <2>4. QED
    BY <1>3, <2>1, <2>2, <2>3, UpdatedInv
<1>6. ASSUME NEW h \in Helpers, NEW throws \in BOOLEAN, Callback(h, throws) PROVE DiracInv'
  <2>1. /\ pending[h] > 0 /\ pending' = [pending EXCEPT ![h] = @ - 1]
        /\ UpdateRouting(h, throws)
        /\ UNCHANGED <<released, current, starts, speaker, volume, changes>>
    BY <1>6 DEF Callback
  <2>2. /\ pending' \in [Helpers -> Nat] /\ pending \in [Helpers -> Nat]
        /\ \A g \in Helpers \ {h} : pending'[g] = pending[g]
    BY <1>1, <2>1 DEF TypeOK
  <2>3. h <= starts /\ h \in Nat /\ h > 0
    BY <1>1, <2>1 DEF HelperInv, Helpers
  <2>4. \A g \in Helpers : g > starts => pending'[g] = 0
    BY <1>1, <2>2, <2>3 DEF HelperInv, Helpers
  <2>5. CASE h = current
    <3>1. starts' \in 1 .. MaxStarts /\ h \in 1 .. starts' /\ starts' >= starts
      BY <1>1, <2>1, <2>3 DEF TypeOK
    <3>2. \A g \in Helpers : g <= starts' => (released[g] <=> g # h)
      BY <1>1, <2>1, <2>5 DEF HelperInv
    <3>3. ~released[h]
      BY <1>1, <2>3, <2>5 DEF HelperInv
    <3>4. QED
      BY <1>3, <2>1, <2>2, <2>4, <2>5, <3>1, <3>2, <3>3, UpdatedInv
  <2>6. CASE h # current
    <3>1. released[h]
      BY <1>1, <2>3, <2>6 DEF HelperInv
    <3>2. UNCHANGED <<effect, isEffectEnabled, since, troubles>>
      BY <2>1, <3>1 DEF UpdateRouting, Ignored
    <3>3. current # 0 => pending'[current] = pending[current]
      BY <1>2, <2>2, <2>6
    <3>4. EffectFollowsRoute'
      BY <2>1, <3>2, <3>3 DEF DiracInv, EffectFollowsRoute, Pivot
    <3>5. QED
      BY <1>1, <2>1, <2>2, <2>4, <3>2, <3>4
         DEF DiracInv, TypeOK, HelperInv, OnlyRunningServiceHasEffect
  <2>7. QED
    BY <2>5, <2>6
<1>7. CASE OnDestroy
  <2>1. /\ current \in Helpers
        /\ released' = [released EXCEPT ![current] = TRUE]
        /\ effect' = [effect EXCEPT ![current] = NoEffect]
        /\ isEffectEnabled' = [isEffectEnabled EXCEPT ![current] = Null]
        /\ current' = 0
        /\ UNCHANGED <<pending, starts, speaker, volume, changes, troubles, since>>
    BY <1>2, <1>7 DEF OnDestroy
  <2>2. NoEffect \in Effects /\ NoEffect.state = "none"
    <3>1. 0 \in -Scale .. Scale
      BY NormalizedInRange, PivotInside
    <3>2. QED
      BY <3>1 DEF NoEffect, Effects
  <2>3. TypeOK'
    BY <1>1, <2>1, <2>2 DEF TypeOK, Effects
  <2>4. \A h \in Helpers : effect'[h] = NoEffect
    BY <1>1, <1>3, <2>1 DEF TypeOK
  <2>5. ASSUME NEW h \in Helpers PROVE HelperInv(h)'
    <3>1. isEffectEnabled'[h] = Null
      BY <1>1, <1>3, <2>1 DEF TypeOK, HelperInv
    <3>2. h \in Nat /\ h > 0
      BY DEF Helpers
    <3>3. CASE h = current
      BY <1>1, <2>1, <2>2, <2>4, <3>1, <3>2, <3>3 DEF TypeOK, HelperInv
    <3>4. CASE h # current
      BY <1>1, <2>1, <2>2, <2>4, <3>1, <3>2, <3>4 DEF TypeOK, HelperInv
    <3>5. QED
      BY <3>3, <3>4
  <2>6. OnlyRunningServiceHasEffect' /\ EffectFollowsRoute'
    BY <2>1, <2>4 DEF OnlyRunningServiceHasEffect, EffectFollowsRoute
  <2>7. QED
    BY <2>3, <2>5, <2>6 DEF DiracInv
<1>8. ASSUME RouteChanges \/ \E v \in 0 .. MaxVolume : VolumeChanges(v) PROVE DiracInv'
  <2>1. /\ UNCHANGED <<effect, isEffectEnabled, released, current, starts, troubles, since>>
        /\ changes' = changes + 1 /\ pending' = Posted
        /\ speaker' \in BOOLEAN /\ volume' \in 0 .. MaxVolume
    BY <1>1, <1>8 DEF RouteChanges, VolumeChanges, TypeOK
  <2>2. /\ pending' \in [Helpers -> Nat]
        /\ current # 0 => pending'[current] > 0
        /\ \A h \in Helpers : h # current => pending'[h] = pending[h]
    BY <1>1, <1>2, <2>1 DEF Posted, TypeOK
  <2>3. TypeOK'
    BY <1>1, <2>1, <2>2 DEF TypeOK
  <2>4. ASSUME NEW h \in Helpers PROVE HelperInv(h)'
    BY <1>1, <2>1, <2>2 DEF HelperInv, Helpers
  <2>5. OnlyRunningServiceHasEffect' /\ EffectFollowsRoute'
    BY <1>1, <2>1, <2>2 DEF OnlyRunningServiceHasEffect, EffectFollowsRoute
  <2>6. QED
    BY <2>3, <2>4, <2>5 DEF DiracInv
<1>9. CASE AudioServerDies
  <2>1. /\ effect' = [h \in Helpers |-> IF effect[h] = NoEffect THEN NoEffect
                                         ELSE [effect[h] EXCEPT !.state = "dead"]]
        /\ since' = 0 /\ troubles' = troubles + 1
        /\ UNCHANGED <<isEffectEnabled, released, pending, current, starts,
                       speaker, volume, changes>>
    BY <1>9 DEF AudioServerDies
  <2>2. ASSUME NEW h \in Helpers
        PROVE  /\ effect'[h] \in Effects
               /\ effect'[h] = NoEffect <=> effect[h] = NoEffect
               /\ effect'[h].state # "alive"
    <3>1. effect[h] \in Effects
      BY <1>1 DEF TypeOK, Effects
    <3>2. CASE effect[h] = NoEffect
      BY <2>1, <3>1, <3>2 DEF NoEffect
    <3>3. CASE effect[h] # NoEffect
      <4>1. effect'[h] = [effect[h] EXCEPT !.state = "dead"]
        BY <2>1, <3>3
      <4>2. effect'[h] \in Effects /\ effect'[h].state = "dead"
        BY <3>1, <4>1 DEF Effects
      <4>3. QED
        BY <3>3, <4>2 DEF NoEffect
    <3>4. QED
      BY <3>2, <3>3
  <2>3. effect' \in [Helpers -> Effects]
    BY <2>1, <2>2
  <2>4. TypeOK'
    BY <1>1, <2>1, <2>3 DEF TypeOK, Effects
  <2>5. ASSUME NEW h \in Helpers PROVE HelperInv(h)'
    BY <1>1, <2>1, <2>2 DEF HelperInv
  <2>6. OnlyRunningServiceHasEffect' /\ EffectFollowsRoute'
    BY <1>1, <2>1, <2>2 DEF OnlyRunningServiceHasEffect, EffectFollowsRoute
  <2>7. QED
    BY <2>4, <2>5, <2>6 DEF DiracInv
<1>10. CASE UNCHANGED vars
  BY <1>1, <1>10
     DEF vars, DiracInv, TypeOK, HelperInv, OnlyRunningServiceHasEffect, EffectFollowsRoute,
         Pivot
<1>11. QED
  BY <1>4, <1>5, <1>6, <1>7, <1>8, <1>9, <1>10 DEF Next
-----------------------------------------------------------------------------
(* The invariant of the service holds in every reachable state. *)
THEOREM DiracInvariant == Spec => []DiracInv
<1>1. Init => DiracInv
  BY DiracInit
<1>2. DiracInv /\ [Next]_vars => DiracInv'
  BY DiracInductive
<1>3. QED
  BY <1>1, <1>2, PTL DEF Spec

(* The volume that is passed to the effect, and everything else, keeps its  *)
(* type, for every volume range of the stream.                              *)
THEOREM TypeCorrect == Spec => []TypeOK
<1>1. DiracInv => TypeOK
  BY DEF DiracInv
<1>2. QED
  BY <1>1, DiracInvariant, PTL

(* No released helper keeps an effect or creates one again, however late    *)
(* its callbacks run (DiracHelper.kt:52,78-85).                             *)
THEOREM EffectOwned == Spec => []OnlyRunningServiceHasEffect
<1>1. DiracInv => OnlyRunningServiceHasEffect
  BY DEF DiracInv
<1>2. QED
  BY <1>1, DiracInvariant, PTL

(* When no callback is on its way the effect follows the route and the      *)
(* volume, two updates on the speaker after the last trouble                *)
(* (DiracHelper.kt:51-76).                                                  *)
THEOREM EffectFollows == Spec => []EffectFollowsRoute
<1>1. DiracInv => EffectFollowsRoute
  BY DEF DiracInv
<1>2. QED
  BY <1>1, DiracInvariant, PTL
=============================================================================
