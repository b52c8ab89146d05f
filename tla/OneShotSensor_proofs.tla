------------------------- MODULE OneShotSensor_proofs -------------------------
(***************************************************************************)
(* Proofs about OneShotSensor: a one-shot sensor reports once per          *)
(* activation, its thread misses no change of enabled, mode or stop, and   *)
(* its steps are steps of SensorContract, for every size of the wait pipe, *)
(* every number of calls and of touches.                                   *)
(*                                                                         *)
(* OneEventPerActivation is not inductive: the event of an activation is   *)
(* still owed while the thread polls, also after a call disabled the       *)
(* sensor (Owed).  ChangeNeverMissed needs that a thread that polls has a  *)
(* wait pipe and that no byte is taken but one that poll() reported        *)
(* (PollInv), and what holds until the constructor has returned (Born).    *)
(***************************************************************************)
EXTENDS OneShotSensor, TLAPS

(* Nobody calls a sensor that is under construction, and one that lacks its *)
(* pipe or its file was told to stop.                                       *)
Born ==
  /\ binder = "constructing" =>
       /\ ~enabled /\ ~wired /\ ~built
       /\ run = "waiting" => ~stop
       /\ run \notin {"polling", "polled", "posting", "woken"}
  /\ built => wired
  /\ binder # "constructing" => built \/ stop

(* The thread polls only a pipe that exists, and what it reads is there. *)
PollInv ==
  /\ run \in {"polling", "polled"} => wired
  /\ revents.pipe => run = "polled" /\ pipe > 0

(* An activation pays for the event that the thread may still post. *)
Owed ==
  oneShot =>
    /\ run = "posting" => ~enabled
    /\ posts + (IF enabled \/ run \in {"polling", "polled", "posting"} THEN 1 ELSE 0)
         <= activations

(* The inductive invariant. *)
SensorInv == TypeOK /\ Born /\ PollInv /\ Owed /\ ChangeNeverMissed

-----------------------------------------------------------------------------
(* The thread may have entered either run(), and stop at once or not. *)
LEMMA SensorInit == Init => SensorInv
<1> SUFFICES ASSUME Init PROVE SensorInv
  OBVIOUS
<1>1. TypeOK
  <2>1. /\ class \in Classes
        /\ {enabled, stop, wired, oneShot, behind, notified, built} \subseteq BOOLEAN
    BY Zenon DEF Init
  <2>2. pipe \in 0..PipeSize /\ {calls, touches, activations, posts} \subseteq Nat
    BY BoundsAreNat DEF Init
  <2>3. revents \in [pipe : BOOLEAN, fp : BOOLEAN, failed : BOOLEAN]
    BY DEF Init, NoEvents
  <2>4. QED
    BY <2>1, <2>2, <2>3 DEF Init, TypeOK, Modes
<1>2. Born /\ PollInv /\ Owed /\ ChangeNeverMissed
  BY DEF Init, Born, PollInv, Owed, ChangeNeverMissed, NoEvents
<1>3. QED
  BY <1>1, <1>2 DEF SensorInv

(* Every step keeps the types; the pipe never holds more than its size. *)
LEMMA TypesKept == SensorInv /\ [Next]_vars => TypeOK'
<1> SUFFICES ASSUME SensorInv, [Next]_vars PROVE TypeOK'
  OBVIOUS
<1> USE BoundsAreNat DEF SensorInv, TypeOK, vars, objectVars, runVars, binderVars,
           fingerVars, history
<1>1. CASE RunLoop
  BY <1>1 DEF RunLoop
<1>2. CASE Wake
  BY <1>2 DEF Wake
<1>3. CASE SleepEnds
  BY <1>3 DEF SleepEnds
<1>4. CASE PollReturns
  BY <1>4 DEF PollReturns
<1>5. CASE PollFails
  BY <1>5 DEF PollFails, NoEvents
<1>6. CASE HandlePoll
  <2>1. PICK finger \in FingerRead :
          IF revents.fp /\ finger
          THEN TakeFinger
          ELSE pipe' = PipeRead /\ run' = "locked" /\ UNCHANGED enabled
    BY <1>6 DEF HandlePoll
  <2>2. CASE revents.fp /\ finger
    BY <1>6, <2>1, <2>2 DEF HandlePoll, TakeFinger, NoEvents
  <2>3. CASE ~(revents.fp /\ finger)
    <3>1. pipe' \in 0..PipeSize
      BY <2>1, <2>3 DEF PipeRead, PollInv
    <3>2. QED
      BY <1>6, <2>1, <2>3, <3>1 DEF HandlePoll, NoEvents
  <2>4. QED
    BY <2>2, <2>3
<1>7. CASE PostEvent
  BY <1>7 DEF PostEvent
<1>8. CASE Construct
  BY <1>8 DEF Construct
<1>9. CASE FinishActivate
  BY <1>9 DEF FinishActivate, WritePipe, Notified
<1>10. CASE InterruptPoll
  BY <1>10 DEF InterruptPoll, WritePipe
<1>11. CASE StopThread
  BY <1>11 DEF StopThread, Notified
<1>12. CASE Join
  BY <1>12 DEF Join
<1>13. CASE Destroy
  BY <1>13 DEF Destroy
<1>14. CASE Touch
  <2>1. file' \in Contents
    BY <1>14 DEF Touch
  <2>2. QED
    BY <1>14, <2>1 DEF Touch
<1>15. CASE ClockJumps
  BY <1>15 DEF ClockJumps
<1>16. CASE \E enable \in BOOLEAN : Activate(enable)
  BY <1>16 DEF Activate
<1>17. CASE \E m \in Modes : SetOperationMode(m)
  BY <1>17 DEF SetOperationMode, Notified
<1>18. CASE UNCHANGED vars
  BY <1>18
<1>19. QED
  BY <1>1, <1>2, <1>3, <1>4, <1>5, <1>6, <1>7, <1>8, <1>9,
     <1>10, <1>11, <1>12, <1>13, <1>14, <1>15, <1>16, <1>17, <1>18 DEF Next, Run, Binder

(* Only Construct builds, and it stops the thread when it could not. *)
LEMMA BornKept == SensorInv /\ [Next]_vars => Born'
<1> SUFFICES ASSUME SensorInv, [Next]_vars PROVE Born'
  OBVIOUS
<1> USE DEF SensorInv, TypeOK, Born, vars, objectVars, runVars, binderVars, fingerVars, history
<1>1. CASE RunLoop
  <2>1. run' \in {"exited", "waiting", "polling", "sleeping", "posting"}
    BY <1>1 DEF RunLoop
  <2>2. run' = "waiting" => ~stop
    BY <1>1 DEF RunLoop
  <2>3. run' \in {"polling", "posting"} => enabled
    BY <1>1 DEF RunLoop, Active
  <2>4. QED
    BY <1>1, <2>1, <2>2, <2>3 DEF RunLoop
<1>2. CASE Wake
  BY <1>2 DEF Wake
<1>3. CASE SleepEnds
  BY <1>3 DEF SleepEnds
<1>4. CASE PollReturns
  BY <1>4 DEF PollReturns
<1>5. CASE PollFails
  BY <1>5 DEF PollFails, NoEvents
<1>6. CASE HandlePoll
  <2>1. PICK finger \in FingerRead :
          IF revents.fp /\ finger
          THEN TakeFinger
          ELSE pipe' = PipeRead /\ run' = "locked" /\ UNCHANGED enabled
    BY <1>6 DEF HandlePoll
  <2>2. CASE revents.fp /\ finger
    BY <1>6, <2>1, <2>2 DEF HandlePoll, TakeFinger, NoEvents
  <2>3. CASE ~(revents.fp /\ finger)
    BY <1>6, <2>1, <2>3 DEF HandlePoll, PipeRead, NoEvents
  <2>4. QED
    BY <2>2, <2>3
<1>7. CASE PostEvent
  BY <1>7 DEF PostEvent
<1>8. CASE Construct
  <2>1. binder' = "idle" /\ wired' \in BOOLEAN /\ built' \in {FALSE, wired'}
    BY <1>8 DEF Construct
  <2>2. CASE built' = FALSE
    BY <1>8, <2>1, <2>2 DEF Construct
  <2>3. CASE built' = wired'
    BY <1>8, <2>1, <2>3 DEF Construct
  <2>4. QED
    BY <2>1, <2>2, <2>3
<1>9. CASE FinishActivate
  BY <1>9 DEF FinishActivate, WritePipe, Notified
<1>10. CASE InterruptPoll
  BY <1>10 DEF InterruptPoll, WritePipe
<1>11. CASE StopThread
  BY <1>11 DEF StopThread, Notified
<1>12. CASE Join
  BY <1>12 DEF Join
<1>13. CASE Destroy
  BY <1>13 DEF Destroy
<1>14. CASE Touch
  BY <1>14 DEF Touch
<1>15. CASE ClockJumps
  BY <1>15 DEF ClockJumps
<1>16. CASE \E enable \in BOOLEAN : Activate(enable)
  BY <1>16 DEF Activate
<1>17. CASE \E m \in Modes : SetOperationMode(m)
  BY <1>17 DEF SetOperationMode, Notified
<1>18. CASE UNCHANGED vars
  BY <1>18
<1>19. QED
  BY <1>1, <1>2, <1>3, <1>4, <1>5, <1>6, <1>7, <1>8, <1>9,
     <1>10, <1>11, <1>12, <1>13, <1>14, <1>15, <1>16, <1>17, <1>18 DEF Next, Run, Binder

(* To poll the sensor must be active, so constructed and not stopped. *)
LEMMA PollKept == SensorInv /\ [Next]_vars => PollInv'
<1> SUFFICES ASSUME SensorInv, [Next]_vars PROVE PollInv'
  OBVIOUS
<1> USE DEF SensorInv, TypeOK, PollInv, vars, objectVars, runVars, binderVars, fingerVars, history
<1>1. CASE RunLoop
  BY <1>1 DEF RunLoop, Born, Active
<1>2. CASE Wake
  BY <1>2 DEF Wake
<1>3. CASE SleepEnds
  BY <1>3 DEF SleepEnds
<1>4. CASE PollReturns
  BY <1>4 DEF PollReturns
<1>5. CASE PollFails
  BY <1>5 DEF PollFails, NoEvents
<1>6. CASE HandlePoll
  <2>1. PICK finger \in FingerRead :
          IF revents.fp /\ finger
          THEN TakeFinger
          ELSE pipe' = PipeRead /\ run' = "locked" /\ UNCHANGED enabled
    BY <1>6 DEF HandlePoll
  <2>2. CASE revents.fp /\ finger
    BY <1>6, <2>1, <2>2 DEF HandlePoll, TakeFinger, NoEvents
  <2>3. CASE ~(revents.fp /\ finger)
    BY <1>6, <2>1, <2>3 DEF HandlePoll, PipeRead, NoEvents
  <2>4. QED
    BY <2>2, <2>3
<1>7. CASE PostEvent
  BY <1>7 DEF PostEvent
<1>8. CASE Construct
  BY <1>8 DEF Construct, Born
<1>9. CASE FinishActivate
  BY <1>9 DEF FinishActivate, WritePipe, Notified
<1>10. CASE InterruptPoll
  BY <1>10 DEF InterruptPoll, WritePipe
<1>11. CASE StopThread
  BY <1>11 DEF StopThread, Notified
<1>12. CASE Join
  BY <1>12 DEF Join
<1>13. CASE Destroy
  BY <1>13 DEF Destroy
<1>14. CASE Touch
  BY <1>14 DEF Touch
<1>15. CASE ClockJumps
  BY <1>15 DEF ClockJumps
<1>16. CASE \E enable \in BOOLEAN : Activate(enable)
  BY <1>16 DEF Activate
<1>17. CASE \E m \in Modes : SetOperationMode(m)
  BY <1>17 DEF SetOperationMode, Notified
<1>18. CASE UNCHANGED vars
  BY <1>18
<1>19. QED
  BY <1>1, <1>2, <1>3, <1>4, <1>5, <1>6, <1>7, <1>8, <1>9,
     <1>10, <1>11, <1>12, <1>13, <1>14, <1>15, <1>16, <1>17, <1>18 DEF Next, Run, Binder

(* To enable the sensor is one more activation, to poll needs an enabled    *)
(* sensor, and the finger that is taken disables it.                        *)
LEMMA OwedKept == SensorInv /\ [Next]_vars => Owed'
<1> SUFFICES ASSUME SensorInv, [Next]_vars PROVE Owed'
  OBVIOUS
<1> USE DEF SensorInv, TypeOK, Owed, vars, objectVars, runVars, binderVars, fingerVars, history
<1>1. CASE RunLoop
  BY <1>1 DEF RunLoop, Born, Active
<1>2. CASE Wake
  BY <1>2 DEF Wake
<1>3. CASE SleepEnds
  BY <1>3 DEF SleepEnds
<1>4. CASE PollReturns
  BY <1>4 DEF PollReturns
<1>5. CASE PollFails
  BY <1>5 DEF PollFails, NoEvents
<1>6. CASE HandlePoll
  <2>1. PICK finger \in FingerRead :
          IF revents.fp /\ finger
          THEN TakeFinger
          ELSE pipe' = PipeRead /\ run' = "locked" /\ UNCHANGED enabled
    BY <1>6 DEF HandlePoll
  <2>2. CASE revents.fp /\ finger
    BY <1>6, <2>1, <2>2 DEF HandlePoll, TakeFinger, NoEvents
  <2>3. CASE ~(revents.fp /\ finger)
    BY <1>6, <2>1, <2>3 DEF HandlePoll, PipeRead, NoEvents
  <2>4. QED
    BY <2>2, <2>3
<1>7. CASE PostEvent
  <2>1. posts' \in {posts, posts + 1} /\ posts \in Nat /\ activations \in Nat
    BY <1>7 DEF PostEvent
  <2>2. oneShot => posts + 1 <= activations /\ run' = "locked"
    BY <1>7 DEF PostEvent
  <2>3. UNCHANGED <<oneShot, enabled, activations>>
    BY <1>7 DEF PostEvent
  <2>4. CASE oneShot
    <3>1. {posts', activations', posts, activations} \subseteq Nat
      BY <2>1, <2>3
    <3>2. posts' <= activations /\ (enabled' <=> enabled) /\ activations' = activations
      BY <2>1, <2>2, <2>3, <2>4, <3>1
    <3>3. ~enabled
      BY <1>7, <2>4 DEF PostEvent
    <3>4. QED
      BY <2>2, <2>4, <3>1, <3>2, <3>3
  <2>5. QED
    BY <2>3, <2>4
<1>8. CASE Construct
  BY <1>8 DEF Construct, Born
<1>9. CASE FinishActivate
  BY <1>9 DEF FinishActivate, WritePipe, Notified
<1>10. CASE InterruptPoll
  BY <1>10 DEF InterruptPoll, WritePipe
<1>11. CASE StopThread
  BY <1>11 DEF StopThread, Notified
<1>12. CASE Join
  BY <1>12 DEF Join
<1>13. CASE Destroy
  BY <1>13 DEF Destroy
<1>14. CASE Touch
  BY <1>14 DEF Touch
<1>15. CASE ClockJumps
  BY <1>15 DEF ClockJumps
<1>16. CASE \E enable \in BOOLEAN : Activate(enable)
  BY <1>16 DEF Activate, RunMutexFree
<1>17. CASE \E m \in Modes : SetOperationMode(m)
  BY <1>17 DEF SetOperationMode, Notified
<1>18. CASE UNCHANGED vars
  BY <1>18
<1>19. QED
  BY <1>1, <1>2, <1>3, <1>4, <1>5, <1>6, <1>7, <1>8, <1>9,
     <1>10, <1>11, <1>12, <1>13, <1>14, <1>15, <1>16, <1>17, <1>18 DEF Next, Run, Binder

(* A call that makes the sensor inactive leaves a byte in the pipe before   *)
(* the next call; a thread that waits is notified of what it waits for.     *)
LEMMA ChangeKept == SensorInv /\ [Next]_vars => ChangeNeverMissed'
<1> SUFFICES ASSUME SensorInv, [Next]_vars PROVE ChangeNeverMissed'
  OBVIOUS
<1> USE DEF SensorInv, TypeOK, ChangeNeverMissed, Active, vars, objectVars, runVars,
           binderVars, fingerVars, history
<1>1. CASE RunLoop
  BY <1>1 DEF RunLoop
<1>2. CASE Wake
  BY <1>2 DEF Wake
<1>3. CASE SleepEnds
  BY <1>3 DEF SleepEnds
<1>4. CASE PollReturns
  BY <1>4 DEF PollReturns
<1>5. CASE PollFails
  BY <1>5 DEF PollFails, NoEvents
<1>6. CASE HandlePoll
  <2>1. PICK finger \in FingerRead :
          IF revents.fp /\ finger
          THEN TakeFinger
          ELSE pipe' = PipeRead /\ run' = "locked" /\ UNCHANGED enabled
    BY <1>6 DEF HandlePoll
  <2>2. CASE revents.fp /\ finger
    BY <1>6, <2>1, <2>2 DEF HandlePoll, TakeFinger, NoEvents
  <2>3. CASE ~(revents.fp /\ finger)
    BY <1>6, <2>1, <2>3 DEF HandlePoll, PipeRead, NoEvents
  <2>4. QED
    BY <2>2, <2>3
<1>7. CASE PostEvent
  BY <1>7 DEF PostEvent
<1>8. CASE Construct
  BY <1>8 DEF Construct, Born
<1>9. CASE FinishActivate
  BY <1>9 DEF FinishActivate, WritePipe, Notified, PollInv
<1>10. CASE InterruptPoll
  BY <1>10 DEF InterruptPoll, WritePipe, PollInv
<1>11. CASE StopThread
  BY <1>11 DEF StopThread, Notified
<1>12. CASE Join
  BY <1>12 DEF Join
<1>13. CASE Destroy
  BY <1>13 DEF Destroy
<1>14. CASE Touch
  BY <1>14 DEF Touch
<1>15. CASE ClockJumps
  BY <1>15 DEF ClockJumps
<1>16. CASE \E enable \in BOOLEAN : Activate(enable)
  BY <1>16 DEF Activate, RunMutexFree
<1>17. CASE \E m \in Modes : SetOperationMode(m)
  BY <1>17 DEF SetOperationMode, Notified, RunMutexFree
<1>18. CASE UNCHANGED vars
  BY <1>18
<1>19. QED
  BY <1>1, <1>2, <1>3, <1>4, <1>5, <1>6, <1>7, <1>8, <1>9,
     <1>10, <1>11, <1>12, <1>13, <1>14, <1>15, <1>16, <1>17, <1>18 DEF Next, Run, Binder

(* Every step keeps the invariant. *)
LEMMA SensorInductive == SensorInv /\ [Next]_vars => SensorInv'
BY TypesKept, BornKept, PollKept, OwedKept, ChangeKept DEF SensorInv

(* The invariant holds. *)
THEOREM SensorInvariant == Spec => []SensorInv
BY SensorInit, SensorInductive, PTL DEF Spec

(* Every variable has its type. *)
THEOREM TypeCorrect == Spec => []TypeOK
<1>1. SensorInv => TypeOK
  BY DEF SensorInv
<1>2. QED
  BY <1>1, SensorInvariant, PTL

(* A sensor whose thread entered the run() of the derived class posts no    *)
(* more events than it was activated (Sensor.cpp:325-327).                  *)
THEOREM OneReportPerActivation == Spec => []OneEventPerActivation
<1>1. SensorInv => OneEventPerActivation
  BY DEF SensorInv, TypeOK, Owed, OneEventPerActivation
<1>2. QED
  BY <1>1, SensorInvariant, PTL

(* The thread is never left in poll() or in the wait by a change it missed  *)
(* (Sensor.cpp:289-303,306-334).                                            *)
THEOREM NoChangeMissed == Spec => []ChangeNeverMissed
<1>1. SensorInv => ChangeNeverMissed
  BY DEF SensorInv
<1>2. QED
  BY <1>1, SensorInvariant, PTL
-----------------------------------------------------------------------------
(* A new sensor is a new sensor of the contract. *)
LEMMA ContractInit == Init => Contract!Init
BY DEF Init, Phase, PipeWrite, Contract!Init

(* mRunMutex: the thread runs its loop or posts, or activate interrupts the *)
(* poll, but never both.                                                    *)
Exclusive == binder = "activating" => run \notin {"locked", "posting"}

LEMMA ExclusiveInit == Init => Exclusive
BY DEF Init, Exclusive

LEMMA ExclusiveKept == Exclusive /\ [Next]_vars => Exclusive'
<1> SUFFICES ASSUME Exclusive, [Next]_vars PROVE Exclusive'
  OBVIOUS
<1> USE DEF Exclusive, vars, objectVars, runVars, binderVars, fingerVars, history
<1>1. CASE RunLoop \/ PostEvent
  BY <1>1 DEF RunLoop, PostEvent
<1>2. CASE Wake \/ SleepEnds \/ HandlePoll
  BY <1>2 DEF Wake, SleepEnds, HandlePoll, RunMutexFree
<1>3. CASE PollReturns \/ PollFails
  BY <1>3 DEF PollReturns, PollFails
<1>4. CASE Binder
  BY <1>4 DEF Binder, Construct, FinishActivate, InterruptPoll, StopThread, Join
<1>5. CASE \E enable \in BOOLEAN : Activate(enable)
  BY <1>5 DEF Activate, RunMutexFree
<1>6. CASE (\E m \in Modes : SetOperationMode(m)) \/ Destroy
  BY <1>6 DEF SetOperationMode, Destroy
<1>7. CASE Touch \/ ClockJumps \/ UNCHANGED vars
  BY <1>7 DEF Touch, ClockJumps
<1>8. QED
  BY <1>1, <1>2, <1>3, <1>4, <1>5, <1>6, <1>7 DEF Next, Run

(* The steps of the run thread are Watch, Rest, Report, Sample and Posted,  *)
(* those of the binder thread Activate, SetOperationMode, Return and        *)
(* Destroy; the others leave what the contract speaks of unchanged.         *)
LEMMA ContractStep == Exclusive /\ [Next]_vars => [Contract!Next]_(Contract!vars)
<1> SUFFICES ASSUME Exclusive, [Next]_vars PROVE [Contract!Next]_(Contract!vars)
  OBVIOUS
<1> USE DEF vars, objectVars, runVars, binderVars, fingerVars, history
<1> DEFINE Rested == /\ UNCHANGED <<enabled, mode, oneShot>>
                     /\ Phase' = Phase /\ PipeWrite' = PipeWrite
<1>0. Rested => UNCHANGED Contract!vars
  BY DEF Contract!vars
<1>a. Contract!Run => Contract!Next
  BY DEF Contract!Next
<1>b. binder # "activating" => Contract!RunMutexFree
  BY DEF PipeWrite, Contract!RunMutexFree
<1>c. UNCHANGED binder => PipeWrite' = PipeWrite
  BY DEF PipeWrite
<1>1. CASE RunLoop
  <2>1. /\ Phase = "resting" /\ UNCHANGED <<enabled, mode, oneShot>>
        /\ PipeWrite' = PipeWrite /\ Contract!RunMutexFree
    BY <1>1, <1>b, <1>c DEF RunLoop, Phase, Exclusive
  <2>2. CASE run' = "polling"
    <3>1. Contract!Watch
      BY <1>1, <2>1, <2>2 DEF RunLoop, Phase, Active, Contract!Watch, Contract!Active
    <3>2. QED
      BY <1>a, <3>1 DEF Contract!Run
  <2>3. CASE run' = "posting"
    <3>1. Contract!Sample
      BY <1>1, <2>1, <2>3 DEF RunLoop, Phase, Active, Contract!Sample, Contract!Active
    <3>2. QED
      BY <1>a, <3>1 DEF Contract!Run
  <2>4. CASE run' \notin {"polling", "posting"}
    <3>1. Phase' = "resting"
      BY <1>1, <2>4 DEF RunLoop, Phase
    <3>2. QED
      BY <1>0, <2>1, <3>1
  <2>5. QED
    BY <2>2, <2>3, <2>4
<1>2. CASE HandlePoll
  <2>1. /\ Phase = "watching" /\ UNCHANGED <<mode, oneShot>>
        /\ PipeWrite' = PipeWrite /\ Contract!RunMutexFree
    BY <1>2, <1>b, <1>c DEF HandlePoll, Phase, RunMutexFree
  <2>2. CASE TakeFinger
    <3>1. Contract!Report
      BY <2>1, <2>2 DEF TakeFinger, Phase, Contract!Report
    <3>2. QED
      BY <1>a, <3>1 DEF Contract!Run
  <2>3. CASE run' = "locked" /\ UNCHANGED enabled
    <3>1. Contract!Rest
      BY <2>1, <2>3 DEF Phase, Contract!Rest
    <3>2. QED
      BY <1>a, <3>1 DEF Contract!Run
  <2>4. QED
    BY <1>2, <2>2, <2>3 DEF HandlePoll
<1>3. CASE PostEvent
  <2>1. Contract!Posted
    BY <1>3, <1>c DEF PostEvent, Phase, Contract!Posted
  <2>2. QED
    BY <1>a, <2>1 DEF Contract!Run
<1>4. ASSUME NEW enable \in BOOLEAN, Activate(enable) PROVE [Contract!Next]_(Contract!vars)
  <2>1. UNCHANGED <<mode, oneShot>> /\ Phase # "posting" /\ Phase' = Phase /\ enabled' = enable
    BY <1>4 DEF Activate, RunMutexFree, Phase
  <2>2. PipeWrite = "none" /\ PipeWrite' = IF enabled = enable THEN "none" ELSE "activating"
    BY <1>4 DEF Activate, PipeWrite
  <2>3. Contract!Activate(enable)
    BY <2>1, <2>2 DEF Contract!Activate
  <2>4. QED
    BY <2>3 DEF Contract!Next
<1>5. ASSUME NEW m \in Modes, SetOperationMode(m) PROVE [Contract!Next]_(Contract!vars)
  <2>1. UNCHANGED <<enabled, oneShot>> /\ Phase # "posting" /\ Phase' = Phase /\ mode' = m
    BY <1>5 DEF SetOperationMode, RunMutexFree, Phase, Notified
  <2>2. PipeWrite = "none" /\ PipeWrite' = "interrupting"
    BY <1>5 DEF SetOperationMode, PipeWrite
  <2>3. Contract!SetOperationMode(m) /\ m \in Contract!Modes
    BY <2>1, <2>2 DEF Contract!SetOperationMode, Contract!Modes, Modes
  <2>4. QED
    BY <2>3 DEF Contract!Next
<1>6. CASE StopThread
  <2>1. UNCHANGED <<mode, oneShot>> /\ Phase # "posting" /\ Phase' = Phase /\ enabled' = FALSE
    BY <1>6 DEF StopThread, RunMutexFree, Phase, Notified
  <2>2. PipeWrite = "none" /\ PipeWrite' = "none"
    BY <1>6 DEF StopThread, PipeWrite
  <2>3. Contract!Destroy
    BY <2>1, <2>2 DEF Contract!Destroy
  <2>4. QED
    BY <2>3 DEF Contract!Next
<1>7. CASE FinishActivate \/ (InterruptPoll /\ binder = "interrupting")
  <2>1. UNCHANGED <<enabled, mode, oneShot>> /\ Phase' = Phase
    BY <1>7 DEF FinishActivate, InterruptPoll, Notified, Phase
  <2>2. PipeWrite # "none" /\ PipeWrite' = "none"
    BY <1>7 DEF FinishActivate, InterruptPoll, PipeWrite
  <2>3. Contract!Return
    BY <2>1, <2>2 DEF Contract!Return
  <2>4. QED
    BY <2>3 DEF Contract!Next
<1>8. CASE Wake \/ SleepEnds \/ PollReturns \/ PollFails
  BY <1>0, <1>8, <1>c DEF Wake, SleepEnds, PollReturns, PollFails, Phase
<1>9. CASE Construct \/ (InterruptPoll /\ binder # "interrupting") \/ Join \/ Destroy
  <2>1. PipeWrite = "none" /\ PipeWrite' = "none"
    BY <1>9 DEF Construct, InterruptPoll, Join, Destroy, PipeWrite
  <2>2. QED
    BY <1>0, <1>9, <2>1 DEF Construct, InterruptPoll, Join, Destroy, Phase
<1>10. CASE Touch \/ ClockJumps \/ UNCHANGED vars
  BY <1>0, <1>10, <1>c DEF Touch, ClockJumps, Phase
<1>11. QED
  BY <1>1, <1>2, <1>3, <1>4, <1>5, <1>6, <1>7, <1>8, <1>9, <1>10 DEF Next, Run, Binder

(* The sensor implements its contract, but for the fairness of Posted. *)
THEOREM ContractKept == Spec => Contract!Init /\ [][Contract!Next]_(Contract!vars)
BY ContractInit, ExclusiveInit, ExclusiveKept, ContractStep, PTL DEF Spec
=============================================================================
