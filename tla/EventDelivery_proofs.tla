------------------------ MODULE EventDelivery_proofs ------------------------
(***************************************************************************)
(* Proofs about EventDelivery.  The inductive invariant DeliveryInv has    *)
(* five parts.  QueueInv types the variables and says that what            *)
(* sizePending counts is in the queue and that the writer has a batch to   *)
(* write; SleepInv says what a sleeping thread has seen, RestartInv in     *)
(* which order initialize() stops, silences and starts, ScopeInv what a    *)
(* poster's ScopedWakelock is worth, and OrderInv how the events stand in  *)
(* the FMQ and in the batches that wait behind it.                         *)
(*                                                                         *)
(* The refinement of SharedWakelock follows: what each action does to the  *)
(* counts InFlight and Acknowledged, the bounds they keep (BoundInv), what *)
(* a pending batch can give back (WakeInv), and the step it maps to.       *)
(***************************************************************************)
EXTENDS EventQueues_proofs

(* The queues: what mSizePendingWriteEventsQueue counts is there, and the   *)
(* writer has a batch to write.                                             *)
QueueInv ==
  /\ TypeOK
  /\ PendingAccounting
  /\ writer \in {"writing", "written"} => pending # <<>>
  /\ rpc \in {"disable", "start"} => writer = "off" /\ wlThread = "off"
-----------------------------------------------------------------------------
(* The operations on the reference count keep its types. *)
LEMMA IncrementTyped ==
  ASSUME WakelockTypeOK, NEW delta \in Nat, Increment(delta)
  PROVE  refCount' \in Nat /\ held' \in BOOLEAN /\ elapsed' \in BOOLEAN
<1>1. refCount' \in Nat
  BY DEF Increment, WakelockTypeOK
<1>2. held' \in BOOLEAN /\ elapsed' \in BOOLEAN
  BY Zenon DEF Increment, WakelockTypeOK
<1>3. QED
  BY <1>1, <1>2

(* Giving references back keeps the types too, ... *)
LEMMA DecrementTyped ==
  ASSUME WakelockTypeOK, NEW delta \in Nat, NEW stale \in BOOLEAN, Decrement(delta, stale)
  PROVE  refCount' \in Nat /\ held' \in BOOLEAN
<1>1. refCount' \in Nat
  BY DEF Decrement, WakelockTypeOK
<1>2. held' \in BOOLEAN
  BY Zenon DEF Decrement, WakelockTypeOK
<1>3. QED
  BY <1>1, <1>2

(* ... so does resetting the shared wake lock, ... *)
LEMMA ResetTyped ==
  ASSUME WakelockTypeOK, ResetShared
  PROVE  WakelockTypeOK'
<1>1. refCount' \in Nat /\ held' \in BOOLEAN
  BY DecrementTyped DEF ResetShared, WakelockTypeOK
<1>2. scope' \in [Posters -> ScopeStates]
  BY DEF ResetShared, WakelockTypeOK, ScopeStates
<1>3. threadsRun' \in BOOLEAN /\ elapsed' \in BOOLEAN
  BY DEF ResetShared, WakelockTypeOK
<1>4. QED
  BY <1>1, <1>2, <1>3 DEF WakelockTypeOK

(* ... creating a ScopedWakelock ... *)
LEMMA CreateScopeTyped ==
  ASSUME WakelockTypeOK, NEW p \in Posters, NEW lock \in BOOLEAN, CreateScope(p, lock)
  PROVE  WakelockTypeOK'
<1>1. refCount' \in Nat /\ held' \in BOOLEAN /\ elapsed' \in BOOLEAN
  <2>1. CASE lock
    BY <2>1, IncrementTyped DEF CreateScope
  <2>2. CASE ~lock
    BY <2>2 DEF CreateScope, WakelockTypeOK
  <2>3. QED
    BY <2>1, <2>2
<1>2. scope' \in [Posters -> ScopeStates]
  BY DEF CreateScope, WakelockTypeOK, ScopeStates
<1>3. QED
  BY <1>1, <1>2 DEF CreateScope, WakelockTypeOK

(* ... and destroying it. *)
LEMMA DestroyScopeTyped ==
  ASSUME WakelockTypeOK, NEW p \in Posters, DestroyScope(p)
  PROVE  WakelockTypeOK'
<1>1. refCount' \in Nat /\ held' \in BOOLEAN
  <2>1. CASE IsLocked(p)
    BY <2>1, DecrementTyped DEF DestroyScope
  <2>2. CASE ~IsLocked(p)
    BY <2>2 DEF DestroyScope, WakelockTypeOK
  <2>3. QED
    BY <2>1, <2>2
<1>2. scope' \in [Posters -> ScopeStates]
  BY DEF DestroyScope, WakelockTypeOK, ScopeStates
<1>3. QED
  BY <1>1, <1>2 DEF DestroyScope, WakelockTypeOK
-----------------------------------------------------------------------------
(* A batch has a natural number of wake-up events. *)
LEMMA NumWakeupsType ==
  ASSUME NEW b \in Seq(Kinds)
  PROVE  NumWakeups(b) \in Nat
<1>1. {i \in DOMAIN b : b[i] = "wake"} \in SUBSET (1 .. Len(b)) /\ Len(b) \in Nat
  OBVIOUS
<1>2. IsFiniteSet(1 .. Len(b))
  BY <1>1, FS_Interval
<1>3. QED
  BY <1>1, <1>2, FS_Subset, FS_CardinalityType DEF NumWakeups

(* The types of the module in terms of Event and PendingBatch. *)
LEMMA TypeOKQueues ==
  ASSUME TypeOK
  PROVE  /\ fmq \in Seq(Event) /\ Len(fmq) \in Nat /\ Len(fmq) <= QueueSize
         /\ pending \in Seq(PendingBatch)
         /\ QueueSize \in Nat /\ QueueSize > 0 /\ MaxPending \in Nat
         /\ \A p \in Posters : batch[p] \in Seq(Kinds) /\ NumWakeups(batch[p]) \in Nat
<1>1. fmq \in Seq(Event) /\ pending \in Seq(PendingBatch)
  BY DEF TypeOK, Event, PendingBatch
<1>2. QueueSize \in Nat /\ QueueSize > 0 /\ MaxPending \in Nat
  BY SizesArePositive
<1>3. \A p \in Posters : batch[p] \in Seq(Kinds)
  <2>1. SUFFICES ASSUME NEW p \in Posters PROVE batch[p] \in Seq(Kinds)
    OBVIOUS
  <2>2. batch[p] \in Batches \cup {<<>>}
    BY DEF TypeOK
  <2>3. <<>> \in Seq(Kinds)
    OBVIOUS
  <2>4. QED
    BY <2>2, <2>3, BatchesAreEvents
<1>4. \A b \in Seq(Kinds) : NumWakeups(b) \in Nat
  BY NumWakeupsType
<1>5. QED
  BY <1>1, <1>2, <1>3, <1>4 DEF TypeOK

(* The events of a posted batch, and what of them finds room in the FMQ. *)
LEMMA PostedEvents ==
  ASSUME TypeOK, NEW p \in Posters, NEW events, NEW n, NEW left,
         events = ProcessEvents(batch[p]), n = DirectWrite(events), left = Drop(events, n)
  PROVE  /\ events \in Seq(Event) /\ n \in 0 .. Len(events) /\ Len(fmq) + n <= QueueSize
         /\ KeptOf(batch[p], Len(batch[p]), events)
         /\ SubSeq(events, 1, n) \in Seq(Event) /\ Len(SubSeq(events, 1, n)) = n
         /\ left \in Seq(Event) /\ Len(left) \in Nat /\ Len(left) = Len(events) - n
         /\ events = SubSeq(events, 1, n) \o left
         /\ pending # <<>> => n = 0 /\ left = events
<1>1. KeptOf(batch[p], Len(batch[p]), events)
  BY ProcessEventsKeeps, TypeOKQueues DEF TypeOK
<1>2. events \in Seq(Event) /\ Len(events) \in Nat
  BY <1>1 DEF KeptOf
<1>3. n \in 0 .. Len(events) /\ Len(fmq) + n <= QueueSize
  BY <1>2, TypeOKQueues DEF DirectWrite, Room
<1>4. pending # <<>> => n = 0 /\ left = events
  <2>1. ASSUME pending # <<>> PROVE n = 0 /\ left = events
    <3>1. n = 0
      BY <2>1 DEF DirectWrite
    <3>2. Drop(events, 0) = events
      BY <1>2, SubSeqFull DEF Drop
    <3>3. QED
      BY <3>1, <3>2
  <2>2. QED
    BY <2>1
<1>5. Len(left) \in Nat
  BY <1>2, <1>3, Split
<1>6. /\ SubSeq(events, 1, n) \in Seq(Event) /\ Len(SubSeq(events, 1, n)) = n
      /\ Drop(events, n) \in Seq(Event) /\ Len(Drop(events, n)) = Len(events) - n
      /\ events = SubSeq(events, 1, n) \o Drop(events, n)
  <2>1. n \in 0 .. Len(events)
    BY <1>3
  <2>2. SubSeq(events, 1, n) \in Seq(Event) /\ Len(SubSeq(events, 1, n)) = n
    BY <1>2, <2>1, Split
  <2>3. Drop(events, n) \in Seq(Event) /\ Len(Drop(events, n)) = Len(events) - n
    BY <1>2, <2>1, Split
  <2>4. events = SubSeq(events, 1, n) \o Drop(events, n)
    BY <1>2, <2>1, Split, SMTT(60)
  <2>5. QED
    BY <2>2, <2>3, <2>4
<1>7. QED
  BY <1>1, <1>2, <1>3, <1>4, <1>5, <1>6

(* The batches that wait, as a function of the pending queue. *)
LEMMA UnwrittenIs ==
  ASSUME TypeOK
  PROVE  Unwritten = LeftOf(pending, writer) /\ (pending # <<>> => NumToWrite = Chunk(pending))
<1>1. pending \in Seq(PendingBatch)
  BY TypeOKQueues
<1>2. CASE pending = <<>>
  BY <1>2 DEF Unwritten, LeftOf
<1>3. CASE pending # <<>>
  <2>1. FrontBatch = pending[1]
    BY <1>3, <1>1 DEF FrontBatch
  <2>2. NumToWrite = Chunk(pending)
    BY <2>1 DEF NumToWrite, Chunk
  <2>3. QED
    BY <1>3, <2>1, <2>2 DEF Unwritten, LeftOf
<1>4. QED
  BY <1>2, <1>3

(* What the writer writes of the batch in front, and what it leaves. *)
LEMMA FrontWritten ==
  ASSUME TypeOK, pending # <<>>
  PROVE  /\ FrontBatch \in PendingBatch /\ FrontBatch = pending[1]
         /\ FrontBatch.events \in Seq(Event) /\ Len(FrontBatch.events) \in Nat
         /\ FrontBatch.wake \in Nat
         /\ NumToWrite \in 0 .. Len(FrontBatch.events) /\ NumToWrite <= QueueSize
         /\ LostReferences \in Nat
<1>1. FrontBatch \in PendingBatch /\ FrontBatch = pending[1]
  BY TypeOKQueues DEF FrontBatch
<1>2. /\ FrontBatch.events \in Seq(Event) /\ Len(FrontBatch.events) \in Nat
      /\ FrontBatch.wake \in Nat
  BY <1>1 DEF PendingBatch
<1>3. NumToWrite \in 0 .. Len(FrontBatch.events) /\ NumToWrite <= QueueSize
  BY <1>2, TypeOKQueues DEF NumToWrite
<1>4. LostReferences \in Nat
  <2>1. CASE Len(FrontBatch.events) > QueueSize
    <3>1. QueueSize \in 0 .. Len(FrontBatch.events)
      BY <1>2, <2>1, TypeOKQueues
    <3>2. Wakes(SubSeq(FrontBatch.events, 1, QueueSize)) \in Nat
      BY <1>2, <3>1, WakesSplit
    <3>3. QED
      BY <1>2, <3>2 DEF LostReferences
  <2>2. CASE ~(Len(FrontBatch.events) > QueueSize)
    BY <1>2, <2>2 DEF LostReferences
  <2>3. QED
    BY <2>1, <2>2
<1>5. QED
  BY <1>1, <1>2, <1>3, <1>4

(* The pending queue after FinishWrite. *)
LEMMA FrontFinished ==
  ASSUME TypeOK, pending # <<>>
  PROVE  /\ PopWritten \in Seq(PendingBatch)
         /\ EventsOf(PopWritten) = EventsOf(pending) - NumToWrite
         /\ EventsOf(PopWritten) \in Nat
<1>1. pending \in Seq(PendingBatch) /\ pending[1] \in PendingBatch /\ Len(pending) \in Nat
      /\ 1 \in 1 .. Len(pending)
  BY TypeOKQueues
<1>2. FrontBatch = pending[1] /\ FrontBatch.events \in Seq(Event)
      /\ Len(FrontBatch.events) \in Nat
  BY FrontWritten
<1>3. CASE Len(FrontBatch.events) > QueueSize
  <2> DEFINE b == [pending[1] EXCEPT !.events = Drop(FrontBatch.events, QueueSize)]
  <2>1. PopWritten = [pending EXCEPT ![1] = b]
    BY <1>1, <1>2, <1>3 DEF PopWritten
  <2>2. QueueSize \in 0 .. Len(FrontBatch.events)
    BY <1>2, <1>3, TypeOKQueues
  <2>3. Drop(FrontBatch.events, QueueSize) \in Seq(Event)
        /\ Len(Drop(FrontBatch.events, QueueSize)) = Len(FrontBatch.events) - QueueSize
    BY <1>2, <2>2, Split, SMTT(60)
  <2>4. b \in PendingBatch /\ b.events = Drop(FrontBatch.events, QueueSize)
    BY <1>1, <2>3 DEF PendingBatch
  <2> HIDE DEF b
  <2>5. /\ PopWritten \in Seq(PendingBatch) /\ Len(PopWritten) = Len(pending)
        /\ PopWritten[1] = b
        /\ \A i \in 2 .. Len(pending) : PopWritten[i] = pending[i]
    BY <1>1, <2>1, <2>4, ExceptSeq
  <2>6. EventsOf(PopWritten) + Len(pending[1].events)
          = EventsOf(pending) + Len(PopWritten[1].events)
    BY <1>1, <2>5, EventsOfReplace
  <2>7. NumToWrite = QueueSize
    BY <1>2, <1>3, TypeOKQueues DEF NumToWrite
  <2>8. EventsOf(PopWritten) \in Nat /\ EventsOf(pending) \in Nat
    BY <1>1, <2>5, EventsOfType
  <2>9. EventsOf(PopWritten) + Len(FrontBatch.events)
          = EventsOf(pending) + (Len(FrontBatch.events) - QueueSize)
    BY <1>2, <2>3, <2>4, <2>5, <2>6
  <2>10. QueueSize \in Nat /\ Len(FrontBatch.events) \in Nat
    BY <1>2, TypeOKQueues
  <2>11. EventsOf(PopWritten) = EventsOf(pending) - QueueSize
    <3> DEFINE now    == EventsOf(PopWritten)
               before == EventsOf(pending)
               length == Len(FrontBatch.events)
    <3>1. {now, before, length} \subseteq Nat /\ now + length = before + (length - QueueSize)
      BY <2>8, <2>9, <2>10
    <3> HIDE DEF now, before, length
    <3>2. now = before - QueueSize
      BY <2>10, <3>1
    <3>3. QED
      BY <3>2 DEF now, before
  <2>12. QED
    BY <2>5, <2>7, <2>8, <2>11
<1>4. CASE ~(Len(FrontBatch.events) > QueueSize)
  <2>1. PopWritten = Tail(pending) /\ Tail(pending) \in Seq(PendingBatch)
    BY <1>1, <1>4 DEF PopWritten
  <2>2. EventsOf(pending) = Len(pending[1].events) + EventsOf(Tail(pending))
    BY <1>1, EventsOfTail
  <2>3. NumToWrite = Len(FrontBatch.events)
    BY <1>2, <1>4, TypeOKQueues DEF NumToWrite
  <2>4. EventsOf(Tail(pending)) \in Nat
    BY <2>1, EventsOfType
  <2>5. QED
    BY <1>2, <2>1, <2>2, <2>3, <2>4
<1>5. QED
  BY <1>3, <1>4
-----------------------------------------------------------------------------
(* Every step keeps the queues and their account. *)
LEMMA QueueInductive ==
  ASSUME QueueInv, [Next]_vars
  PROVE  QueueInv'
<1> USE DEF wakelockVars, queueVars, pendingVars, sensorVars, countVars,
            WakelockRest, RpcRest, Woken
<1>1. CASE \E p \in Posters : Trigger(p)
  BY <1>1, SMTT(60) DEF Trigger, QueueInv, TypeOK, WakelockTypeOK, PendingAccounting, LoopStates
<1>2. CASE \E p \in Posters : Begin(p)
  <2>1. PICK p \in Posters : Begin(p)
    BY <1>2
  <2>2. PICK b \in Batches : /\ batch' = [batch EXCEPT ![p] = b]
                             /\ CreateScope(p, NeedsLock(b))
                             /\ NotifyIfAcquired(NeedsLock(b))
    BY <2>1 DEF Begin
  <2>3. WakelockTypeOK'
    BY <2>2, CreateScopeTyped DEF QueueInv, TypeOK, NeedsLock
  <2>4. wlThread' \in LoopStates \cup {"reading", "untimed"}
    BY <2>2 DEF NotifyIfAcquired, LoopStates, QueueInv, TypeOK
  <2>5. rpc' \in {"disable", "start"} => writer' = "off" /\ wlThread' = "off"
    BY <2>1, <2>2 DEF Begin, NotifyIfAcquired, QueueInv
  <2>6. QED
    BY <2>1, <2>2, <2>3, <2>4, <2>5, SMTT(60) DEF Begin, QueueInv, TypeOK, PendingAccounting
<1>3. CASE \E p \in Posters : CheckRunning(p)
  BY <1>3, SMTT(60) DEF CheckRunning, QueueInv, TypeOK, WakelockTypeOK, PendingAccounting, LoopStates
<1>4. CASE \E p \in Posters : PostEvents(p)
  <2>1. PICK p \in Posters : PostEvents(p)
    BY <1>4
  <2> DEFINE events == ProcessEvents(batch[p])
             n      == DirectWrite(events)
             left   == Drop(events, n)
             b      == [events |-> left, wake |-> NumWakeups(batch[p])]
  <2>2. /\ SubSeq(events, 1, n) \in Seq(Event) /\ Len(SubSeq(events, 1, n)) = n
        /\ n \in Nat /\ Len(fmq) + n <= QueueSize
        /\ left \in Seq(Event) /\ Len(left) \in Nat
        /\ NumWakeups(batch[p]) \in Nat
    <3> HIDE DEF events, n, left
    <3>1. events = ProcessEvents(batch[p]) /\ n = DirectWrite(events) /\ left = Drop(events, n)
      BY DEF events, n, left
    <3>2. QED
      BY <3>1, PostedEvents, TypeOKQueues, SMTT(60) DEF QueueInv
  <2>3. b \in PendingBatch /\ b.events = left
    BY <2>2 DEF PendingBatch
  <2> HIDE DEF events, n, left, b
  <2>4. /\ fmq' = fmq \o SubSeq(events, 1, n)
        /\ IF left # <<>> /\ Fits(left)
           THEN /\ pending' = Append(pending, b)
                /\ sizePending' = sizePending + Len(left)
                /\ writer' = Woken(writer)
           ELSE UNCHANGED <<pendingVars, writer>>
    BY <2>1 DEF PostEvents, events, n, left, b
  <2>5. fmq' \in Seq(Event) /\ Len(fmq') <= QueueSize
    BY <2>2, <2>4, TypeOKQueues DEF QueueInv
  <2>6. WakelockTypeOK'
    <3>1. refCount' \in Nat /\ held' \in BOOLEAN /\ elapsed' \in BOOLEAN
      <4>1. CASE IsLocked(p)
        BY <2>1, <2>2, <4>1, IncrementTyped DEF PostEvents, QueueInv, TypeOK
      <4>2. CASE ~IsLocked(p)
        BY <2>1, <4>2 DEF PostEvents, QueueInv, TypeOK, WakelockTypeOK
      <4>3. QED
        BY <4>1, <4>2
    <3>2. QED
      BY <2>1, <3>1 DEF PostEvents, QueueInv, TypeOK, WakelockTypeOK
  <2>7. /\ pending' \in Seq(PendingBatch) /\ sizePending' \in Nat
        /\ PendingAccounting'
        /\ writer' \in LoopStates \cup {"writing", "written"}
        /\ writer' \in {"writing", "written"} => pending' # <<>>
    <3>1. /\ pending \in Seq(PendingBatch) /\ sizePending = EventsOf(pending)
          /\ sizePending \in Nat
          /\ writer \in LoopStates \cup {"writing", "written"}
          /\ writer \in {"writing", "written"} => pending # <<>>
      BY TypeOKQueues DEF QueueInv, TypeOK, PendingAccounting, EventsOf
    <3>2. CASE left # <<>> /\ Fits(left)
      <4>1. pending' = Append(pending, b) /\ sizePending' = sizePending + Len(left)
            /\ writer' = Woken(writer) /\ sizePending + Len(left) <= MaxPending
        BY <2>4, <3>2 DEF Fits
      <4>2. EventsOf(pending') = sizePending + Len(left)
        BY <2>3, <3>1, <4>1, EventsOfAppend
      <4>3. PendingAccounting'
        BY <4>1, <4>2 DEF PendingAccounting, EventsOf
      <4>4. QED
        BY <2>2, <2>3, <3>1, <4>1, <4>3, SMTT(60) DEF LoopStates
    <3>3. CASE ~(left # <<>> /\ Fits(left))
      <4>1. UNCHANGED <<pending, sizePending, writer>>
        BY <2>4, <3>3
      <4>2. QED
        BY <3>1, <4>1 DEF QueueInv, PendingAccounting
    <3>4. QED
      BY <3>2, <3>3
  <2>8. wlThread' \in LoopStates \cup {"reading", "untimed"} /\ breached' \in BOOLEAN
    <3>1. wlThread' \in {wlThread, Woken(wlThread)}
      BY <2>1 DEF PostEvents, NotifyIfAcquired
    <3>2. breached' \in BOOLEAN
      BY <2>1 DEF PostEvents
    <3>3. QED
      BY <3>1, <3>2 DEF LoopStates, QueueInv, TypeOK
  <2>9. nextId' \in Nat
    <3>1. nextId \in Nat /\ Len(batch[p]) \in Nat
      BY TypeOKQueues, LenProperties DEF QueueInv, TypeOK
    <3>2. nextId' = nextId + Len(batch[p])
      BY <2>1 DEF PostEvents
    <3>3. QED
      BY <3>1, <3>2
  <2>10. rpc' \in {"disable", "start"} => writer' = "off" /\ wlThread' = "off"
    <3>1. wlThread' \in {wlThread, Woken(wlThread)} /\ writer' \in {writer, Woken(writer)}
          /\ rpc' = rpc
      BY <2>1, <2>4 DEF PostEvents, NotifyIfAcquired
    <3>2. QED
      BY <3>1 DEF QueueInv
  <2>11. QED
    BY <2>1, <2>5, <2>6, <2>7, <2>8, <2>9, <2>10
       DEF PostEvents, QueueInv, TypeOK, Event, PendingBatch
<1>5. CASE \E p \in Posters : Finish(p)
  <2>1. PICK p \in Posters : Finish(p)
    BY <1>5
  <2>2. WakelockTypeOK'
    BY <2>1, DestroyScopeTyped DEF Finish, QueueInv, TypeOK
  <2>3. QED
    BY <2>1, <2>2 DEF Finish, QueueInv, TypeOK, PendingAccounting, LoopStates
<1>6. CASE WriterTop
  BY <1>6 DEF WriterTop, QueueInv, TypeOK, WakelockTypeOK, PendingAccounting, LoopStates
<1>7. CASE WriterPark
  BY <1>7 DEF WriterPark, QueueInv, TypeOK, WakelockTypeOK, PendingAccounting, LoopStates
<1>8. CASE WriteOk
  <2>1. pending # <<>>
    BY <1>8 DEF WriteOk, QueueInv
  <2>2. SubSeq(FrontBatch.events, 1, NumToWrite) \in Seq(Event)
        /\ Len(SubSeq(FrontBatch.events, 1, NumToWrite)) = NumToWrite
    BY <2>1, FrontWritten, Split DEF QueueInv
  <2>3. fmq' \in Seq(Event) /\ Len(fmq') <= QueueSize
    BY <2>2, <1>8, TypeOKQueues DEF WriteOk, QueueInv
  <2>4. QED
    BY <2>1, <2>3, <1>8, SMTT(60)
       DEF WriteOk, Event, WakelockTypeOK, QueueInv, TypeOK, PendingAccounting, LoopStates
<1>9. CASE WriteFails
  <2>1. pending # <<>>
    BY <1>9 DEF WriteFails, QueueInv
  <2>2. refCount' \in Nat /\ held' \in BOOLEAN
    BY <2>1, <1>9, FrontWritten, DecrementTyped DEF WriteFails, QueueInv, TypeOK
  <2>3. WakelockTypeOK'
    BY <2>2, <1>9 DEF WriteFails, WakelockTypeOK, QueueInv, TypeOK
  <2>4. breached' \in BOOLEAN
    BY <1>9 DEF WriteFails
  <2>5. QED
    BY <2>1, <2>3, <2>4, <1>9
       DEF WriteFails, QueueInv, TypeOK, PendingAccounting, LoopStates
<1>10. CASE FinishWrite
  <2>1. pending # <<>>
    BY <1>10 DEF FinishWrite, QueueInv
  <2>2. pending' \in Seq(PendingBatch) /\ EventsOf(pending') = sizePending - NumToWrite
        /\ sizePending - NumToWrite \in Nat /\ NumToWrite \in Nat
    BY <2>1, <1>10, FrontFinished, FrontWritten
       DEF FinishWrite, QueueInv, PendingAccounting, EventsOf
  <2>3. PendingAccounting'
    BY <2>2, <1>10, SizesArePositive, SMTT(60)
       DEF FinishWrite, QueueInv, PendingAccounting, EventsOf, TypeOK
  <2>4. QED
    BY <2>2, <2>3, <1>10
       DEF FinishWrite, PendingBatch, Event, WakelockTypeOK, QueueInv, TypeOK, LoopStates
<1>11. CASE WakelockTop
  BY <1>11, SMTT(60) DEF WakelockTop, QueueInv, TypeOK, WakelockTypeOK, PendingAccounting, LoopStates
<1>12. CASE WakelockPark
  BY <1>12, SMTT(60) DEF WakelockPark, QueueInv, TypeOK, WakelockTypeOK, PendingAccounting, LoopStates
<1>13. CASE WakelockTimeout
  <2>1. WakelockTypeOK'
    BY <1>13, ResetTyped DEF WakelockTimeout, QueueInv, TypeOK
  <2>2. breached' \in BOOLEAN
    BY <1>13 DEF WakelockTimeout
  <2>3. QED
    BY <2>1, <2>2, <1>13
       DEF WakelockTimeout, QueueInv, TypeOK, PendingAccounting, LoopStates
<1>14. CASE WakelockRead
  <2>1. Head(wakeQueue) \in Nat /\ Tail(wakeQueue) \in Seq(Nat)
    BY <1>14, SMTT(60) DEF WakelockRead, QueueInv, TypeOK
  <2>2. refCount' \in Nat /\ held' \in BOOLEAN
    BY <2>1, <1>14, DecrementTyped DEF WakelockRead, QueueInv, TypeOK
  <2>3. WakelockTypeOK'
    BY <2>2, <1>14 DEF WakelockRead, WakelockTypeOK, QueueInv, TypeOK
  <2>4. QED
    BY <2>1, <2>3, <1>14 DEF WakelockRead, QueueInv, TypeOK, PendingAccounting, LoopStates
<1>15. CASE WakelockReadTimeout
  BY <1>15
     DEF WakelockReadTimeout, QueueInv, TypeOK, WakelockTypeOK, PendingAccounting,
         LoopStates
<1>16. CASE WakelockExit
  <2>1. WakelockTypeOK'
    BY <1>16, ResetTyped DEF WakelockExit, QueueInv, TypeOK
  <2>2. QED
    BY <2>1, <1>16 DEF WakelockExit, QueueInv, TypeOK, PendingAccounting, LoopStates
<1>17. CASE DrainQueues
  <2>1. QueueSize >= 0 /\ Len(<<>>) = 0
    BY SizesArePositive
  <2>2. wakeQueue' \in Seq(Nat)
    BY <1>17 DEF DrainQueues, QueueInv, TypeOK
  <2>3. QED
    BY <2>1, <2>2, <1>17, SMTT(60)
       DEF DrainQueues, WakelockTypeOK, QueueInv, TypeOK, PendingAccounting, LoopStates
<1>18. CASE NotifyWakelock
  BY <1>18
     DEF NotifyWakelock, QueueInv, TypeOK, WakelockTypeOK, PendingAccounting, LoopStates
<1>19. CASE NotifyWriter
  BY <1>19 DEF NotifyWriter, QueueInv, TypeOK, WakelockTypeOK, PendingAccounting, LoopStates
<1>20. CASE JoinThreads
  <2>1. WakelockTypeOK'
    BY <1>20, ResetTyped DEF JoinThreads, QueueInv, TypeOK
  <2>2. QED
    BY <2>1, <1>20 DEF JoinThreads, QueueInv, TypeOK, PendingAccounting, LoopStates
<1>21. CASE \E p \in Posters : DisableSensor(p)
  BY <1>21
     DEF DisableSensor, QueueInv, TypeOK, WakelockTypeOK, PendingAccounting, LoopStates
<1>22. CASE ReplaceQueues
  <2>1. WakelockTypeOK' /\ pending' = <<>> /\ sizePending' = 0 /\ MaxPending >= 0
    BY <1>22, SizesArePositive DEF ReplaceQueues, QueueInv, TypeOK, WakelockTypeOK
  <2>2. PendingAccounting'
    BY <2>1, EventsOfEmpty DEF PendingAccounting, EventsOf
  <2>3. QueueSize >= 0 /\ Len(<<>>) = 0
    BY SizesArePositive
  <2>4. writer' \notin {"writing", "written"}
    BY <1>22 DEF ReplaceQueues, QueueInv
  <2>5. /\ fmq' = <<>> /\ wakeQueue' = <<>> /\ unacked' = 0 /\ rpc' = "start"
        /\ breached' \in BOOLEAN
        /\ UNCHANGED <<writer, wlThread, toDisable, post, enabled, batch, nextId, begun, inits>>
    BY <1>22 DEF ReplaceQueues
  <2>6. /\ fmq' \in Seq([id : Nat, wake : BOOLEAN]) /\ Len(fmq') <= QueueSize
        /\ wakeQueue' \in Seq(Nat) /\ unacked' \in Nat /\ sizePending' \in Nat
        /\ pending' \in Seq([events : Seq([id : Nat, wake : BOOLEAN]), wake : Nat])
    BY <2>1, <2>3, <2>5
  <2>7. TypeOK'
    BY <2>1, <2>5, <2>6 DEF QueueInv, TypeOK
  <2>8. QED
    BY <2>2, <2>4, <2>7, <1>22 DEF ReplaceQueues, QueueInv
<1>23. CASE StartThreads
  BY <1>23 DEF StartThreads, QueueInv, TypeOK, WakelockTypeOK, PendingAccounting, LoopStates
<1>24. CASE StopThreads
  <2>1. WakelockTypeOK'
    BY <1>24 DEF StopThreads, QueueInv, TypeOK, WakelockTypeOK
  <2>2. QED
    BY <2>1, <1>24, SMTT(60) DEF StopThreads, QueueInv, TypeOK, PendingAccounting, LoopStates
<1>25. CASE \E p \in Posters, enable \in BOOLEAN : Activate(p, enable)
  BY <1>25, SMTT(60) DEF Activate, QueueInv, TypeOK, WakelockTypeOK, PendingAccounting, LoopStates
<1>26. CASE FrameworkRead
  <2>1. /\ fmq' \in Seq(Event) /\ Len(fmq') <= QueueSize /\ unacked' \in Nat
    BY <1>26, TypeOKQueues, SMTT(60) DEF FrameworkRead, QueueInv, TypeOK, Event
  <2>2. QED
    BY <2>1, <1>26, SMTT(60)
       DEF FrameworkRead, Event, WakelockTypeOK, QueueInv, TypeOK, PendingAccounting,
           LoopStates
<1>27. CASE FrameworkAck
  BY <1>27, SMTT(60) DEF FrameworkAck, QueueInv, TypeOK, WakelockTypeOK, PendingAccounting, LoopStates
<1>28. CASE Tick
  <2>1. WakelockTypeOK'
    BY <1>28 DEF Tick, TimePasses, QueueInv, TypeOK, WakelockTypeOK
  <2>2. QED
    BY <2>1, <1>28 DEF Tick, QueueInv, TypeOK, PendingAccounting, LoopStates
<1>29. CASE UNCHANGED vars
  BY <1>29, SMTT(60) DEF QueueInv, TypeOK, WakelockTypeOK, PendingAccounting, vars
<1>30. CASE \E p \in Posters : LockEvents(p)
  BY <1>30, SMTT(60) DEF LockEvents, QueueInv, TypeOK, WakelockTypeOK, PendingAccounting, LoopStates
<1>31. QED
  BY <1>1, <1>2, <1>3, <1>4, <1>5, <1>6, <1>7, <1>8, <1>9, <1>10, <1>11, <1>12, <1>13,
     <1>14, <1>15, <1>16, <1>17, <1>18, <1>19, <1>20, <1>21, <1>22, <1>23, <1>24, <1>25,
     <1>26, <1>27, <1>28, <1>29, <1>30
     DEF Next, Poster, Writer, WakelockThread, Initialize
-----------------------------------------------------------------------------
(* A thread that sleeps, or is about to, has seen nothing to do; while it is *)
(* about to, no poster has the mutex of its predicate.                       *)
SleepInv ==
  /\ writer \in {"parking", "parked"} => pending = <<>>
  /\ wlThread \in {"parking", "parked"} => refCount = 0
  /\ writer = "parking" => \A p \in Posters : post[p] # "holding"

(* No step sends a thread to sleep that has something to do, and none gives a *)
(* sleeping thread something to do without waking it.                          *)
LEMMA SleepInductive ==
  ASSUME QueueInv, SleepInv, [Next]_vars
  PROVE  SleepInv'
<1> USE DEF wakelockVars, queueVars, pendingVars, sensorVars, countVars,
            WakelockRest, RpcRest, Woken
<1>1. CASE \E p \in Posters : Trigger(p)
  BY <1>1 DEF Trigger, SleepInv, QueueInv, TypeOK
<1>2. CASE \E p \in Posters : Begin(p)
  BY <1>2 DEF Begin, SleepInv, QueueInv, TypeOK, WakelockMutexFree, NotifyIfAcquired, CreateScope,
           Increment
<1>3. CASE \E p \in Posters : CheckRunning(p)
  BY <1>3 DEF CheckRunning, SleepInv, QueueInv, TypeOK
<1>4. CASE \E p \in Posters : PostEvents(p)
  BY <1>4 DEF PostEvents, SleepInv, QueueInv, TypeOK, WakelockMutexFree,
           NotifyIfAcquired, Woken, Increment
<1>5. CASE \E p \in Posters : Finish(p)
  BY <1>5 DEF Finish, SleepInv, QueueInv, TypeOK, DestroyScope, Decrement
<1>6. CASE WriterTop
  BY <1>6 DEF WriterTop, EventMutexFree, SleepInv
<1>7. CASE WriterPark
  BY <1>7 DEF WriterPark, SleepInv
<1>8. CASE WriteOk
  BY <1>8 DEF WriteOk, SleepInv
<1>9. CASE WriteFails
  BY <1>9 DEF WriteFails, SleepInv, ResetShared, Decrement
<1>10. CASE FinishWrite
  BY <1>10 DEF FinishWrite, SleepInv
<1>11. CASE WakelockTop
  BY <1>11 DEF WakelockTop, SleepInv, QueueInv, TypeOK, WakelockTypeOK
<1>12. CASE WakelockPark
  BY <1>12 DEF WakelockPark, SleepInv
<1>13. CASE WakelockTimeout
  BY <1>13 DEF WakelockTimeout, SleepInv, ResetShared, Decrement
<1>14. CASE WakelockRead
  BY <1>14 DEF WakelockRead, SleepInv, ResetShared, Decrement
<1>15. CASE WakelockReadTimeout
  BY <1>15 DEF WakelockReadTimeout, SleepInv
<1>16. CASE WakelockExit
  BY <1>16 DEF WakelockExit, SleepInv, ResetShared, Decrement
<1>17. CASE DrainQueues
  BY <1>17 DEF DrainQueues, SleepInv
<1>18. CASE NotifyWakelock
  BY <1>18 DEF NotifyWakelock, SleepInv
<1>19. CASE NotifyWriter
  BY <1>19 DEF NotifyWriter, SleepInv
<1>20. CASE JoinThreads
  BY <1>20 DEF JoinThreads, SleepInv, ResetShared, Decrement
<1>21. CASE \E p \in Posters : DisableSensor(p)
  BY <1>21 DEF DisableSensor, SleepInv
<1>22. CASE ReplaceQueues
  BY <1>22 DEF ReplaceQueues, SleepInv
<1>23. CASE StartThreads
  BY <1>23 DEF StartThreads, SleepInv
<1>24. CASE StopThreads
  BY <1>24 DEF StopThreads, SleepInv
<1>25. CASE \E p \in Posters, enable \in BOOLEAN : Activate(p, enable)
  BY <1>25 DEF Activate, SleepInv
<1>26. CASE FrameworkRead
  BY <1>26 DEF FrameworkRead, SleepInv
<1>27. CASE FrameworkAck
  BY <1>27 DEF FrameworkAck, SleepInv
<1>28. CASE Tick
  BY <1>28 DEF Tick, SleepInv, TimePasses
<1>29. CASE UNCHANGED vars
  BY <1>29 DEF vars, SleepInv
<1>30. CASE \E p \in Posters : LockEvents(p)
  BY <1>30 DEF LockEvents, EventMutexFree, SleepInv, QueueInv, TypeOK
<1>31. QED
  BY <1>1, <1>2, <1>3, <1>4, <1>5, <1>6, <1>7, <1>8, <1>9, <1>10, <1>11, <1>12, <1>13,
     <1>14, <1>15, <1>16, <1>17, <1>18, <1>19, <1>20, <1>21, <1>22, <1>23, <1>24, <1>25,
     <1>26, <1>27, <1>28, <1>29, <1>30
     DEF Next, Poster, Writer, WakelockThread, Initialize
-----------------------------------------------------------------------------
(* A poster that is not one-shot is silent from the moment initialize() has *)
(* disabled its sensor until the threads run again.                         *)
SilentPoster(p) == post[p] = "idle" /\ ~enabled[p]

(* The threads run between two calls of initialize() and only then, and no  *)
(* reference of an old session is counted when the queues are replaced.     *)
RestartInv ==
  /\ threadsRun => rpc = "idle"
  /\ rpc = "idle" /\ inits > 0 => threadsRun
  /\ inits = 0 => rpc = "idle" /\ ~threadsRun /\ \A p \in Posters : SilentPoster(p)
  /\ rpc \in {"disable", "start"} => Locked = {}
  /\ \A p \in Posters \ OneShot :
       /\ post[p] # "triggered"
       /\ rpc = "disable" /\ p \notin toDisable => SilentPoster(p)
       /\ rpc = "start" => SilentPoster(p)

(* A poster has a ScopedWakelock while it posts; it is locked when the batch *)
(* needs it, unless a one-shot sensor or a restart of the threads came      *)
(* between.                                                                 *)
ScopeOf(p) ==
  /\ scope[p] # "none" <=> post[p] \in {"scoped", "checked", "holding", "posted"}
  /\ IsLocked(p) => NeedsLock(batch[p])
  /\ post[p] \in {"scoped", "checked", "holding"} => batch[p] \in Batches
  /\ p \notin OneShot /\ NeedsLock(batch[p]) =>
       /\ post[p] = "scoped" /\ threadsRun => IsLocked(p)
       /\ InPost(p) => IsLocked(p)

ScopeInv == \A p \in Posters : ScopeOf(p)

(* Every step keeps the order in which initialize() stops and starts. *)
LEMMA RestartInductive ==
  ASSUME QueueInv, RestartInv, ScopeInv, [Next]_vars
  PROVE  RestartInv' /\ ScopeInv'
<1> USE DEF wakelockVars, queueVars, pendingVars, sensorVars, countVars,
            WakelockRest, RpcRest, Woken
<1>1. CASE \E p \in Posters : Trigger(p)
  BY <1>1
     DEF Trigger, QueueInv, TypeOK, WakelockTypeOK, RestartInv, ScopeInv, SilentPoster,
         ScopeOf, InPost, Locked, IsLocked
<1>2. CASE \E p \in Posters : Begin(p)
  BY <1>2, SMTT(60)
     DEF Begin, CreateScope, QueueInv, TypeOK, WakelockTypeOK, RestartInv, ScopeInv,
         SilentPoster, ScopeOf, InPost, Locked, IsLocked
<1>3. CASE \E p \in Posters : CheckRunning(p)
  BY <1>3
     DEF CheckRunning, QueueInv, TypeOK, WakelockTypeOK, RestartInv, ScopeInv,
         SilentPoster, ScopeOf, InPost, Locked, IsLocked
<1>4. CASE \E p \in Posters : PostEvents(p)
  BY <1>4, SMTT(60)
     DEF PostEvents, QueueInv, TypeOK, WakelockTypeOK, RestartInv, ScopeInv, SilentPoster,
         ScopeOf, InPost, Locked, IsLocked
<1>5. CASE \E p \in Posters : Finish(p)
  BY <1>5, SMTT(60)
     DEF Finish, DestroyScope, QueueInv, TypeOK, WakelockTypeOK, RestartInv, ScopeInv,
         SilentPoster, ScopeOf, InPost, Locked, IsLocked
<1>6. CASE WriterTop
  BY <1>6 DEF WriterTop, RestartInv, ScopeInv, SilentPoster, ScopeOf, InPost, Locked, IsLocked
<1>7. CASE WriterPark
  BY <1>7 DEF WriterPark, RestartInv, ScopeInv, SilentPoster, ScopeOf, InPost, Locked, IsLocked
<1>8. CASE WriteOk
  BY <1>8 DEF WriteOk, RestartInv, ScopeInv, SilentPoster, ScopeOf, InPost, Locked, IsLocked
<1>9. CASE WriteFails
  BY <1>9 DEF WriteFails, RestartInv, ScopeInv, SilentPoster, ScopeOf, InPost, Locked, IsLocked
<1>10. CASE FinishWrite
  BY <1>10 DEF FinishWrite, RestartInv, ScopeInv, SilentPoster, ScopeOf, InPost, Locked, IsLocked
<1>11. CASE WakelockTop
  BY <1>11 DEF WakelockTop, RestartInv, ScopeInv, SilentPoster, ScopeOf, InPost, Locked, IsLocked
<1>12. CASE WakelockPark
  BY <1>12 DEF WakelockPark, RestartInv, ScopeInv, SilentPoster, ScopeOf, InPost, Locked, IsLocked
<1>13. CASE WakelockTimeout
  BY <1>13
     DEF WakelockTimeout, ResetShared, QueueInv, TypeOK, WakelockTypeOK, RestartInv,
         ScopeInv, SilentPoster, ScopeOf, InPost, Locked, IsLocked
<1>14. CASE WakelockRead
  BY <1>14 DEF WakelockRead, RestartInv, ScopeInv, SilentPoster, ScopeOf, InPost, Locked, IsLocked
<1>15. CASE WakelockReadTimeout
  BY <1>15
     DEF WakelockReadTimeout, RestartInv, ScopeInv, SilentPoster, ScopeOf, InPost, Locked, IsLocked
<1>16. CASE WakelockExit
  BY <1>16
     DEF WakelockExit, ResetShared, QueueInv, TypeOK, WakelockTypeOK, RestartInv, ScopeInv,
         SilentPoster, ScopeOf, InPost, Locked, IsLocked
<1>17. CASE DrainQueues
  BY <1>17 DEF DrainQueues, RestartInv, ScopeInv, SilentPoster, ScopeOf, InPost, Locked, IsLocked
<1>18. CASE NotifyWakelock
  BY <1>18 DEF NotifyWakelock, RestartInv, ScopeInv, SilentPoster, ScopeOf, InPost, Locked, IsLocked
<1>19. CASE NotifyWriter
  BY <1>19 DEF NotifyWriter, RestartInv, ScopeInv, SilentPoster, ScopeOf, InPost, Locked, IsLocked
<1>20. CASE JoinThreads
  BY <1>20
     DEF JoinThreads, ResetShared, QueueInv, TypeOK, WakelockTypeOK, RestartInv, ScopeInv,
         SilentPoster, ScopeOf, InPost, Locked, IsLocked
<1>21. CASE \E p \in Posters : DisableSensor(p)
  BY <1>21
     DEF DisableSensor, RunMutexFree, QueueInv, TypeOK, WakelockTypeOK, RestartInv,
         ScopeInv, SilentPoster, ScopeOf, InPost, Locked, IsLocked
<1>22. CASE ReplaceQueues
  BY <1>22 DEF ReplaceQueues, RestartInv, ScopeInv, SilentPoster, ScopeOf, InPost, Locked, IsLocked
<1>23. CASE StartThreads
  BY <1>23
     DEF StartThreads, QueueInv, TypeOK, WakelockTypeOK, RestartInv, ScopeInv,
         SilentPoster, ScopeOf, InPost, Locked, IsLocked
<1>24. CASE StopThreads
  BY <1>24, SizesArePositive, SMTT(60)
     DEF StopThreads, QueueInv, TypeOK, WakelockTypeOK, RestartInv, ScopeInv, SilentPoster,
         ScopeOf, InPost, Locked, IsLocked
<1>25. CASE \E p \in Posters, enable \in BOOLEAN : Activate(p, enable)
  BY <1>25, SMTT(60)
     DEF Activate, RunMutexFree, QueueInv, TypeOK, WakelockTypeOK, RestartInv, ScopeInv,
         SilentPoster, ScopeOf, InPost, Locked, IsLocked
<1>26. CASE FrameworkRead
  BY <1>26 DEF FrameworkRead, RestartInv, ScopeInv, SilentPoster, ScopeOf, InPost, Locked, IsLocked
<1>27. CASE FrameworkAck
  BY <1>27 DEF FrameworkAck, RestartInv, ScopeInv, SilentPoster, ScopeOf, InPost, Locked, IsLocked
<1>28. CASE Tick
  BY <1>28
     DEF Tick, TimePasses, QueueInv, TypeOK, WakelockTypeOK, RestartInv, ScopeInv,
         SilentPoster, ScopeOf, InPost, Locked, IsLocked
<1>29. CASE UNCHANGED vars
  BY <1>29 DEF vars, RestartInv, ScopeInv, SilentPoster, ScopeOf, InPost, Locked, IsLocked
<1>30. CASE \E p \in Posters : LockEvents(p)
  BY <1>30
     DEF LockEvents, QueueInv, TypeOK, WakelockTypeOK, RestartInv, ScopeInv,
         SilentPoster, ScopeOf, InPost, Locked, IsLocked
<1>31. QED
  BY <1>1, <1>2, <1>3, <1>4, <1>5, <1>6, <1>7, <1>8, <1>9, <1>10, <1>11, <1>12, <1>13,
     <1>14, <1>15, <1>16, <1>17, <1>18, <1>19, <1>20, <1>21, <1>22, <1>23, <1>24, <1>25,
     <1>26, <1>27, <1>28, <1>29, <1>30
     DEF Next, Poster, Writer, WakelockThread, Initialize
-----------------------------------------------------------------------------
(* What waits is a function of pending and writer, after a step too. *)
QueueShape ==
  /\ pending \in Seq(PendingBatch) /\ fmq \in Seq(Event)
  /\ Unwritten = LeftOf(pending, writer)
  /\ pending # <<>> => NumToWrite = Chunk(pending)

(* The same holds after a step. *)
LEMMA ShapeNext == TypeOK' => QueueShape'
<1>1. TypeOK => QueueShape
  BY UnwrittenIs, TypeOKQueues DEF QueueShape
<1>2. QED
  BY <1>1, PTL

(* What waits after a step that leaves the pending queue alone, ... *)
LEMMA UnwrittenSame ==
  ASSUME pending' = pending, writer' = "written" <=> writer = "written"
  PROVE  Unwritten' = Unwritten
BY DEF Unwritten, FrontBatch, NumToWrite

(* ... after one that appends a batch, ... *)
LEMMA UnwrittenPosted ==
  ASSUME QueueInv, QueueInv', NEW b \in PendingBatch, pending' = Append(pending, b),
         writer' = Woken(writer)
  PROVE  Unwritten' = Append(Unwritten, b.events)
<1>1. pending \in Seq(PendingBatch) /\ Unwritten = LeftOf(pending, writer)
  BY TypeOKQueues, UnwrittenIs DEF QueueInv
<1>2. Unwritten' = LeftOf(pending', writer')
  BY ShapeNext DEF QueueShape, QueueInv
<1>3. (writer = "written" => pending # <<>>) /\ (writer' = "written" <=> writer = "written")
  BY DEF QueueInv, Woken
<1>4. QED
  BY <1>1, <1>2, <1>3, LeftAppend

(* ... when the writer wrote the chunk in front or gave it up, ... *)
LEMMA UnwrittenWritten ==
  ASSUME QueueInv, QueueInv', writer = "writing", writer' = "written", pending' = pending
  PROVE  /\ Unwritten \in Seq(Seq(Event)) /\ Unwritten # <<>>
         /\ Unwritten' \in Seq(Seq(Event)) /\ Len(Unwritten') = Len(Unwritten)
         /\ NumToWrite \in 0 .. Len(Unwritten[1]) /\ Unwritten[1] = FrontBatch.events
         /\ Unwritten'[1] = Drop(Unwritten[1], NumToWrite)
         /\ \A i \in 2 .. Len(Unwritten) : Unwritten'[i] = Unwritten[i]
<1>1. pending \in Seq(PendingBatch) /\ pending # <<>> /\ FrontBatch = pending[1]
      /\ Unwritten = LeftOf(pending, writer) /\ NumToWrite = Chunk(pending)
  BY TypeOKQueues, UnwrittenIs, FrontWritten DEF QueueInv
<1>2. Unwritten' = LeftOf(pending, "written")
  BY ShapeNext DEF QueueShape, QueueInv
<1>3. /\ Unwritten[1] = pending[1].events
      /\ Unwritten'[1] = Drop(pending[1].events, Chunk(pending))
      /\ Len(Unwritten') = Len(Unwritten)
      /\ \A i \in 2 .. Len(Unwritten) : Unwritten'[i] = Unwritten[i]
  BY <1>1, <1>2, LeftWritten
<1>4. /\ Unwritten \in Seq(Seq(Event)) /\ Unwritten # <<>> /\ Unwritten' \in Seq(Seq(Event))
      /\ Chunk(pending) \in 0 .. Len(pending[1].events)
  BY <1>1, <1>2, LeftType
<1>5. QED
  BY <1>1, <1>3, <1>4

(* ... and when it has erased it: nothing more leaves the queue. *)
LEMMA UnwrittenFinished ==
  ASSUME QueueInv, QueueInv', FinishWrite
  PROVE  /\ Unwritten \in Seq(Seq(Event))
         /\ \/ Unwritten' = Unwritten
            \/ Unwritten # <<>> /\ Unwritten[1] = <<>> /\ Unwritten' = Tail(Unwritten)
<1>1. /\ pending \in Seq(PendingBatch) /\ pending # <<>> /\ FrontBatch = pending[1]
      /\ Unwritten = LeftOf(pending, "written")
  BY TypeOKQueues, UnwrittenIs, FrontWritten DEF QueueInv, FinishWrite
<1>2. Unwritten' = LeftOf(pending', "top") /\ pending' \in Seq(PendingBatch)
  BY ShapeNext DEF QueueShape, QueueInv, FinishWrite
<1>3. pending' = IF Len(pending[1].events) > QueueSize
                 THEN [pending EXCEPT ![1].events = Drop(@, QueueSize)]
                 ELSE Tail(pending)
  BY <1>1 DEF FinishWrite, PopWritten
<1>4. Unwritten \in Seq(Seq(Event))
  BY <1>1, LeftType
<1>5. QED
  BY <1>1, <1>2, <1>3, <1>4, LeftFinished

(* All but seven actions leave the events where they are. *)
QuietStep == UNCHANGED <<fmq, pending, nextId>> /\ (writer' = "written" <=> writer = "written")

(* The others are these. *)
LEMMA MostStepsQuiet ==
  ASSUME QueueInv, [Next]_vars
  PROVE  \/ QuietStep
         \/ \E p \in Posters : PostEvents(p)
         \/ WriteOk \/ WriteFails \/ FinishWrite \/ DrainQueues \/ ReplaceQueues
         \/ FrameworkRead
<1> USE DEF wakelockVars, queueVars, pendingVars, sensorVars, countVars,
            WakelockRest, RpcRest, Woken,
            QuietStep
<1>1. CASE \E p \in Posters : Trigger(p)
  BY <1>1 DEF Trigger
<1>2. CASE \E p \in Posters : Begin(p)
  BY <1>2 DEF Begin
<1>3. CASE \E p \in Posters : CheckRunning(p)
  BY <1>3 DEF CheckRunning
<1>4. CASE \E p \in Posters : Finish(p)
  BY <1>4 DEF Finish
<1>5. CASE WriterTop
  BY <1>5 DEF WriterTop
<1>6. CASE WriterPark
  BY <1>6 DEF WriterPark
<1>7. CASE WakelockTop
  BY <1>7 DEF WakelockTop
<1>8. CASE WakelockPark
  BY <1>8 DEF WakelockPark
<1>9. CASE WakelockTimeout
  BY <1>9 DEF WakelockTimeout
<1>10. CASE WakelockRead
  BY <1>10 DEF WakelockRead
<1>11. CASE WakelockReadTimeout
  BY <1>11 DEF WakelockReadTimeout
<1>12. CASE WakelockExit
  BY <1>12 DEF WakelockExit
<1>13. CASE NotifyWakelock
  BY <1>13 DEF NotifyWakelock
<1>14. CASE NotifyWriter
  BY <1>14 DEF NotifyWriter
<1>15. CASE JoinThreads
  BY <1>15 DEF JoinThreads
<1>16. CASE \E p \in Posters : DisableSensor(p)
  BY <1>16 DEF DisableSensor
<1>17. CASE StartThreads
  BY <1>17 DEF QueueInv, StartThreads
<1>18. CASE StopThreads
  BY <1>18 DEF StopThreads
<1>19. CASE \E p \in Posters, enable \in BOOLEAN : Activate(p, enable)
  BY <1>19 DEF Activate
<1>20. CASE FrameworkAck
  BY <1>20 DEF FrameworkAck
<1>21. CASE Tick
  BY <1>21 DEF Tick
<1>22. CASE UNCHANGED vars
  BY <1>22 DEF vars
<1>23. CASE \E p \in Posters : LockEvents(p)
  BY <1>23 DEF LockEvents
<1>24. QED
  BY <1>1, <1>2, <1>3, <1>4, <1>5, <1>6, <1>7, <1>8, <1>9, <1>10, <1>11, <1>12, <1>13,
     <1>14, <1>15, <1>16, <1>17, <1>18, <1>19, <1>20, <1>21, <1>22, <1>23
     DEF Next, Poster, Writer, WakelockThread, Initialize
-----------------------------------------------------------------------------
(* The FMQ, and behind it what waits, are in the order of the ids. *)
OrderInv == Ordered(fmq, Unwritten, nextId)

(* Every step keeps the order of the events. *)
LEMMA OrderInductive ==
  ASSUME QueueInv, QueueInv', OrderInv, [Next]_vars
  PROVE  OrderInv'
<1>1. CASE QuietStep
  BY <1>1, UnwrittenSame DEF OrderInv, QuietStep
<1>2. CASE \E p \in Posters : PostEvents(p)
  <2>1. PICK p \in Posters : PostEvents(p)
    BY <1>2
  <2> DEFINE events == ProcessEvents(batch[p])
             n      == DirectWrite(events)
             left   == Drop(events, n)
             b      == [events |-> left, wake |-> NumWakeups(batch[p])]
             w      == SubSeq(events, 1, n)
  <2>2. /\ events = ProcessEvents(batch[p]) /\ n = DirectWrite(events) /\ left = Drop(events, n)
        /\ w = SubSeq(events, 1, n)
    OBVIOUS
  <2>3. /\ fmq' = fmq \o w /\ nextId' = nextId + Len(batch[p])
        /\ IF left # <<>> /\ Fits(left)
           THEN pending' = Append(pending, b) /\ writer' = Woken(writer)
           ELSE UNCHANGED <<pending, writer>>
    BY <2>1 DEF PostEvents, pendingVars
  <2>4. NumWakeups(batch[p]) \in Nat /\ nextId \in Nat /\ Len(batch[p]) \in Nat
    BY TypeOKQueues, LenProperties DEF QueueInv, TypeOK
  <2>5. b = [events |-> left, wake |-> NumWakeups(batch[p])]
    OBVIOUS
  <2> HIDE DEF events, n, left, b, w
  <2>6. /\ events \in Seq(Event) /\ n \in 0 .. Len(events)
        /\ KeptOf(batch[p], Len(batch[p]), events)
        /\ left \in Seq(Event)
        /\ pending # <<>> => n = 0 /\ left = events
    BY <2>2, PostedEvents DEF QueueInv
  <2>7. /\ Ascending(events) /\ UpTo(events, nextId + Len(batch[p]))
        /\ \A i \in DOMAIN events : events[i].id > nextId
    BY <2>6 DEF KeptOf, UpTo
  <2>8. /\ w \in Seq(Event) /\ Ascending(w) /\ Ascending(left) /\ Before(w, left)
        /\ UpTo(w, nextId + Len(batch[p])) /\ UpTo(left, nextId + Len(batch[p]))
    BY <2>2, <2>6, <2>7, SplitOrdered
  <2>9. /\ \A i \in DOMAIN w : w[i].id > nextId
        /\ \A i \in DOMAIN left : left[i].id > nextId
    <3>1. events \in Seq(Event) /\ n \in 0 .. Len(events)
      BY <2>6
    <3>2. \A i \in DOMAIN events : events[i].id > nextId
      BY <2>7
    <3>3. /\ \A i \in DOMAIN SubSeq(events, 1, n) : SubSeq(events, 1, n)[i].id > nextId
          /\ \A i \in DOMAIN Drop(events, n) : Drop(events, n)[i].id > nextId
      BY <3>1, <3>2, SplitNewer
    <3>4. QED
      BY <2>2, <3>3
  <2>10. b \in PendingBatch /\ b.events = left
    BY <2>4, <2>5, <2>6 DEF PendingBatch
  <2>11. Unwritten \in Seq(Seq(Event)) /\ (pending = <<>> => Unwritten = <<>>)
    BY TypeOKQueues, UnwrittenIs, LeftType DEF QueueInv
  <2>12. nextId <= nextId + Len(batch[p]) /\ nextId + Len(batch[p]) \in Nat
    BY <2>4
  <2>13. fmq \in Seq(Event)
    BY TypeOKQueues DEF QueueInv
  <2>14. Ordered(fmq', Unwritten, nextId')
    <3>1. CASE pending = <<>>
      BY <2>3, <2>4, <2>8, <2>9, <2>11, <2>12, <2>13, <3>1, DirectOrdered DEF OrderInv
    <3>2. CASE pending # <<>>
      <4>1. w = <<>>
        BY <2>2, <2>6, <3>2, SubSeqEmpty
      <4>2. fmq' = fmq
        BY <2>3, <2>13, <4>1, ConcatEmptySeq
      <4>3. QED
        BY <2>3, <2>4, <2>11, <2>12, <2>13, <4>2, NewerOrdered DEF OrderInv
    <3>3. QED
      BY <3>1, <3>2
  <2>15. CASE left # <<>> /\ Fits(left)
    <3>1. Unwritten' = Append(Unwritten, left)
      BY <2>3, <2>10, <2>15, UnwrittenPosted
    <3>2. Ordered(fmq', Append(Unwritten, left), nextId')
      <4>1. CASE pending = <<>>
        <5>1. Unwritten = <<>>
          BY <2>11, <4>1
        <5>2. Before(fmq, left)
          <6>1. UpTo(fmq, nextId)
            BY DEF OrderInv, Ordered
          <6>2. QED
            BY <2>4, <2>6, <2>9, <2>13, <6>1, NewerIsBehind
        <5>3. Before(fmq', left)
          BY <2>3, <2>6, <2>8, <2>13, <5>2, BeforeConcat
        <5>4. Append(Unwritten, left) = <<left>>
          BY <5>1
        <5>5. DOMAIN <<left>> = {1} /\ <<left>>[1] = left
          OBVIOUS
        <5>6. Ascending(fmq') /\ UpTo(fmq', nextId')
          BY <2>14 DEF Ordered
        <5>7. QED
          BY <2>3, <2>8, <5>3, <5>4, <5>5, <5>6 DEF Ordered
      <4>2. CASE pending # <<>>
        <5>1. fmq' = fmq /\ left = events
          <6>1. w = <<>>
            BY <2>2, <2>6, <4>2, SubSeqEmpty
          <6>2. QED
            BY <2>3, <2>6, <2>13, <4>2, <6>1, ConcatEmptySeq
        <5>2. QED
          BY <2>3, <2>4, <2>6, <2>7, <2>11, <2>12, <2>13, <5>1, BehindOrdered DEF OrderInv
      <4>3. QED
        BY <4>1, <4>2
    <3>3. QED
      BY <3>1, <3>2 DEF OrderInv
  <2>16. CASE ~(left # <<>> /\ Fits(left))
    <3>1. Unwritten' = Unwritten
      BY <2>3, <2>16, UnwrittenSame
    <3>2. QED
      BY <2>14, <3>1 DEF OrderInv
  <2>17. QED
    BY <2>15, <2>16
<1>3. CASE WriteOk
  <2>1. /\ writer = "writing" /\ writer' = "written" /\ UNCHANGED <<pending, nextId>>
    BY <1>3 DEF WriteOk, pendingVars, queueVars, countVars
  <2>2. /\ Unwritten \in Seq(Seq(Event)) /\ Unwritten # <<>>
        /\ Unwritten' \in Seq(Seq(Event)) /\ Len(Unwritten') = Len(Unwritten)
        /\ NumToWrite \in 0 .. Len(Unwritten[1]) /\ Unwritten[1] = FrontBatch.events
        /\ Unwritten'[1] = Drop(Unwritten[1], NumToWrite)
        /\ \A i \in 2 .. Len(Unwritten) : Unwritten'[i] = Unwritten[i]
    BY <2>1, UnwrittenWritten
  <2>3. fmq \in Seq(Event)
    BY TypeOKQueues DEF QueueInv
  <2>4. /\ Ordered(fmq, Unwritten', nextId)
        /\ Ordered(fmq \o SubSeq(Unwritten[1], 1, NumToWrite), Unwritten', nextId)
    BY <2>2, <2>3, WriteOrdered DEF OrderInv
  <2>5. QED
    BY <2>1, <2>2, <2>4, <1>3 DEF OrderInv, WriteOk
<1>4. CASE WriteFails
  <2>1. /\ writer = "writing" /\ writer' = "written" /\ UNCHANGED <<pending, nextId, fmq>>
    BY <1>4 DEF WriteFails, pendingVars, queueVars, countVars
  <2>2. /\ Unwritten \in Seq(Seq(Event)) /\ Unwritten # <<>>
        /\ Unwritten' \in Seq(Seq(Event)) /\ Len(Unwritten') = Len(Unwritten)
        /\ NumToWrite \in 0 .. Len(Unwritten[1]) /\ Unwritten[1] = FrontBatch.events
        /\ Unwritten'[1] = Drop(Unwritten[1], NumToWrite)
        /\ \A i \in 2 .. Len(Unwritten) : Unwritten'[i] = Unwritten[i]
    BY <2>1, UnwrittenWritten
  <2>3. fmq \in Seq(Event)
    BY TypeOKQueues DEF QueueInv
  <2>4. /\ Ordered(fmq, Unwritten', nextId)
        /\ Ordered(fmq \o SubSeq(Unwritten[1], 1, NumToWrite), Unwritten', nextId)
    BY <2>2, <2>3, WriteOrdered DEF OrderInv
  <2>5. QED
    BY <2>1, <2>2, <2>4, <1>4 DEF OrderInv, WriteFails
<1>5. CASE FinishWrite
  <2>1. UNCHANGED <<fmq, nextId>>
    BY <1>5 DEF FinishWrite, queueVars, countVars
  <2>2. /\ Unwritten \in Seq(Seq(Event))
        /\ \/ Unwritten' = Unwritten
           \/ Unwritten # <<>> /\ Unwritten[1] = <<>> /\ Unwritten' = Tail(Unwritten)
    BY <1>5, UnwrittenFinished
  <2>3. fmq \in Seq(Event)
    BY TypeOKQueues DEF QueueInv
  <2>4. QED
    BY <2>1, <2>2, <2>3, PopOrdered DEF OrderInv
<1>6. CASE DrainQueues
  <2>1. UNCHANGED <<pending, nextId, writer>> /\ fmq' = <<>>
    BY <1>6 DEF DrainQueues, RpcRest, pendingVars
  <2>2. QED
    BY <2>1, UnwrittenSame, EmptyOrdered DEF OrderInv
<1>7. CASE ReplaceQueues
  <2>1. pending' = <<>> /\ fmq' = <<>>
    BY <1>7 DEF ReplaceQueues
  <2>2. Unwritten' = <<>>
    BY <2>1 DEF Unwritten
  <2>3. QED
    BY <2>1, <2>2 DEF OrderInv, Ordered, Ascending, UpTo
<1>8. CASE FrameworkRead
  <2>1. UNCHANGED <<pending, nextId, writer>> /\ fmq # <<>> /\ fmq' = Tail(fmq)
    BY <1>8 DEF FrameworkRead, countVars, pendingVars
  <2>2. fmq \in Seq(Event) /\ Unwritten \in Seq(Seq(Event))
    BY TypeOKQueues, UnwrittenIs, LeftType DEF QueueInv
  <2>3. QED
    BY <2>1, <2>2, UnwrittenSame, TailOrdered DEF OrderInv
<1>9. QED
  BY <1>1, <1>2, <1>3, <1>4, <1>5, <1>6, <1>7, <1>8, MostStepsQuiet

(* Only four actions take an event out of the queues. *)
LEMMA LiveStep ==
  ASSUME QueueInv, QueueInv', [Next]_vars
  PROVE  Live \subseteq Live' \/ FrameworkRead \/ WriteFails \/ DrainQueues \/ ReplaceQueues
<1>1. CASE QuietStep
  BY <1>1, UnwrittenSame DEF Live, QuietStep
<1>2. CASE \E p \in Posters : PostEvents(p)
  <2>1. PICK p \in Posters : PostEvents(p)
    BY <1>2
  <2> DEFINE events == ProcessEvents(batch[p])
             n      == DirectWrite(events)
             left   == Drop(events, n)
             b      == [events |-> left, wake |-> NumWakeups(batch[p])]
             w      == SubSeq(events, 1, n)
  <2>2. /\ fmq' = fmq \o w
        /\ IF left # <<>> /\ Fits(left)
           THEN pending' = Append(pending, b) /\ writer' = Woken(writer)
           ELSE UNCHANGED <<pending, writer>>
    BY <2>1 DEF PostEvents, pendingVars
  <2>3. w \in Seq(Event) /\ b \in PendingBatch /\ b.events = left /\ left \in Seq(Event)
    <3>1. left = Drop(events, n) /\ w = SubSeq(events, 1, n)
      OBVIOUS
    <3>2. b = [events |-> left, wake |-> NumWakeups(batch[p])]
      OBVIOUS
    <3> HIDE DEF left, w, b
    <3>3. w \in Seq(Event) /\ left \in Seq(Event)
      BY <3>1, PostedEvents DEF QueueInv
    <3>4. NumWakeups(batch[p]) \in Nat
      BY TypeOKQueues DEF QueueInv
    <3>5. QED
      BY <3>2, <3>3, <3>4 DEF PendingBatch
  <2> HIDE DEF events, n, left, b, w
  <2>4. fmq \in Seq(Event) /\ Unwritten \in Seq(Seq(Event))
    BY TypeOKQueues, UnwrittenIs, LeftType DEF QueueInv
  <2>5. Ids(fmq) \subseteq Ids(fmq')
    BY <2>2, <2>3, <2>4, IdsConcat
  <2>6. CASE left # <<>> /\ Fits(left)
    <3>1. Unwritten' = Append(Unwritten, left)
      BY <2>2, <2>3, <2>6, UnwrittenPosted
    <3>2. WaitingIds(Unwritten) \subseteq WaitingIds(Unwritten')
      BY <2>3, <2>4, <3>1, WaitingAppend
    <3>3. QED
      BY <2>5, <3>2 DEF Live, WaitingIds
  <2>7. CASE ~(left # <<>> /\ Fits(left))
    <3>1. Unwritten' = Unwritten
      BY <2>2, <2>7, UnwrittenSame
    <3>2. QED
      BY <2>5, <3>1 DEF Live
  <2>8. QED
    BY <2>6, <2>7
<1>3. CASE WriteOk
  <2>1. /\ writer = "writing" /\ writer' = "written" /\ pending' = pending
        /\ fmq' = fmq \o SubSeq(FrontBatch.events, 1, NumToWrite)
    BY <1>3 DEF WriteOk, pendingVars
  <2>2. /\ Unwritten \in Seq(Seq(Event)) /\ Unwritten # <<>>
        /\ Unwritten' \in Seq(Seq(Event)) /\ Len(Unwritten') = Len(Unwritten)
        /\ NumToWrite \in 0 .. Len(Unwritten[1]) /\ Unwritten[1] = FrontBatch.events
        /\ Unwritten'[1] = Drop(Unwritten[1], NumToWrite)
        /\ \A i \in 2 .. Len(Unwritten) : Unwritten'[i] = Unwritten[i]
    BY <2>1, UnwrittenWritten
  <2>3. fmq \in Seq(Event)
    BY TypeOKQueues DEF QueueInv
  <2>4. Ids(fmq) \cup WaitingIds(Unwritten)
          \subseteq Ids(fmq \o SubSeq(Unwritten[1], 1, NumToWrite)) \cup WaitingIds(Unwritten')
    BY <2>2, <2>3, WaitingWrite
  <2>5. QED
    BY <2>1, <2>2, <2>4 DEF Live, WaitingIds
<1>4. CASE WriteFails
  BY <1>4
<1>5. CASE FinishWrite
  <2>1. UNCHANGED fmq
    BY <1>5 DEF FinishWrite, queueVars
  <2>2. /\ Unwritten \in Seq(Seq(Event))
        /\ \/ Unwritten' = Unwritten
           \/ Unwritten # <<>> /\ Unwritten[1] = <<>> /\ Unwritten' = Tail(Unwritten)
    BY <1>5, UnwrittenFinished
  <2>3. WaitingIds(Unwritten) \subseteq WaitingIds(Unwritten')
    BY <2>2, WaitingPop
  <2>4. QED
    BY <2>1, <2>3 DEF Live, WaitingIds
<1>6. CASE DrainQueues
  BY <1>6
<1>7. CASE ReplaceQueues
  BY <1>7
<1>8. CASE FrameworkRead
  BY <1>8
<1>9. QED
  BY <1>1, <1>2, <1>3, <1>4, <1>5, <1>6, <1>7, <1>8, MostStepsQuiet
-----------------------------------------------------------------------------
(* The inductive invariant. *)
DeliveryInv == QueueInv /\ SleepInv /\ RestartInv /\ ScopeInv /\ OrderInv

(* The first state satisfies every part. *)
LEMMA DeliveryInit ==
  ASSUME Init
  PROVE  DeliveryInv
<1>1. QueueInv
  <2>1. PendingAccounting
    BY EventsOfEmpty, SizesArePositive DEF Init, PendingAccounting, EventsOf
  <2>2. WakelockTypeOK
    BY DEF Init, WakelockInit, WakelockTypeOK, ScopeStates
  <2>3. <<>> \in Seq(Event) /\ Len(<<>>) = 0 /\ <<>> \in Seq(Nat) /\ <<>> \in Seq(PendingBatch)
        /\ QueueSize >= 0
    BY SizesArePositive
  <2>4. /\ fmq \in Seq(Event) /\ Len(fmq) <= QueueSize /\ wakeQueue \in Seq(Nat)
        /\ pending \in Seq(PendingBatch)
    BY <2>3 DEF Init
  <2>5. /\ post \in [Posters -> {"idle", "triggered", "scoped", "checked", "holding", "posted"}]
        /\ enabled \in [Posters -> BOOLEAN]
    BY DEF Init
  <2>6. batch \in [Posters -> Batches \cup {<<>>}]
    BY Zenon DEF Init
  <2>7. TypeOK
    <3>1. {nextId, begun, inits} \subseteq Nat /\ unacked \in Nat /\ sizePending \in Nat
      BY DEF Init
    <3>2. /\ writer \in LoopStates \cup {"writing", "written"}
          /\ wlThread \in LoopStates \cup {"reading", "untimed"}
          /\ rpc \in {"idle", "drain", "notifyWakelock", "notifyWriter", "join",
                      "disable", "start"}
          /\ toDisable \subseteq Posters /\ breached \in BOOLEAN
      BY DEF Init, LoopStates
    <3>3. QED
      BY <2>2, <2>4, <2>5, <2>6, <3>1, <3>2 DEF TypeOK, Event, PendingBatch
  <2>8. QED
    BY <2>1, <2>7 DEF Init, QueueInv
<1>2. SleepInv
  BY DEF Init, SleepInv
<1>3. RestartInv /\ ScopeInv
  BY DEF Init, WakelockInit, RestartInv, ScopeInv, ScopeOf, SilentPoster, InPost, IsLocked
<1>4. OrderInv
  BY DEF Init, OrderInv, Ordered, Unwritten, Ascending, UpTo
<1>5. QED
  BY <1>1, <1>2, <1>3, <1>4 DEF DeliveryInv

(* The invariant from which the theorems below follow.                      *)
THEOREM DeliveryInvariant == Spec => []DeliveryInv
<1>1. Init => DeliveryInv
  BY DeliveryInit
<1>2. DeliveryInv /\ [Next]_vars => DeliveryInv'
  <2>1. SUFFICES ASSUME DeliveryInv, [Next]_vars PROVE DeliveryInv'
    OBVIOUS
  <2>2. QueueInv'
    BY <2>1, QueueInductive DEF DeliveryInv
  <2>3. SleepInv' /\ RestartInv' /\ ScopeInv'
    BY <2>1, SleepInductive, RestartInductive DEF DeliveryInv
  <2>4. OrderInv'
    BY <2>1, <2>2, OrderInductive DEF DeliveryInv
  <2>5. QED
    BY <2>2, <2>3, <2>4 DEF DeliveryInv
<1>3. QED
  BY <1>1, <1>2, PTL DEF Spec

(* Every variable keeps its type and the FMQ its capacity.                  *)
THEOREM TypesCorrect == Spec => []TypeOK
<1>1. DeliveryInv => TypeOK
  BY DEF DeliveryInv, QueueInv
<1>2. QED
  BY <1>1, DeliveryInvariant, PTL

(* The counter the posters compare with the limit is the number of pending  *)
(* events, whatever the writer does between two locks of the mutex.         *)
THEOREM PendingAccounted == Spec => []PendingAccounting
<1>1. DeliveryInv => PendingAccounting
  BY DEF DeliveryInv, QueueInv
<1>2. QED
  BY <1>1, DeliveryInvariant, PTL

(* No thread of the proxy sleeps while there is something to do for it.     *)
THEOREM NotificationsKept == Spec => []NoLostNotification
<1>1. DeliveryInv => NoLostNotification
  BY DEF DeliveryInv, SleepInv, NoLostNotification
<1>2. QED
  BY <1>1, DeliveryInvariant, PTL

(* A batch with wake-up events needs the lock. *)
LEMMA WakeupsNeedLock ==
  ASSUME NEW b, NumWakeups(b) > 0
  PROVE  NeedsLock(b)
<1>1. ASSUME ~NeedsLock(b) PROVE FALSE
  <2>1. {i \in DOMAIN b : b[i] = "wake"} = {}
    BY <1>1 DEF NeedsLock
  <2>2. NumWakeups(b) = 0
    BY <2>1, FS_EmptySet DEF NumWakeups
  <2>3. QED
    BY <2>2
<1>2. QED
  BY <1>1

(* The posters of the framework's sensors post wake-up events under a       *)
(* locked ScopedWakelock: initialize() silences them before it starts the   *)
(* threads again.                                                           *)
THEOREM WakeEventsUnderLock == Spec => []WakeEventsLocked
<1>1. DeliveryInv => WakeEventsLocked
  BY WakeupsNeedLock DEF DeliveryInv, ScopeInv, ScopeOf, WakeEventsLocked, Unlocked, InPost
<1>2. QED
  BY <1>1, DeliveryInvariant, PTL

(* When initialize() replaces the queues it is alone with them.             *)
THEOREM QueuesUnshared == Spec => []QueuesReplacedAlone
<1>1. DeliveryInv => QueuesReplacedAlone
  BY DEF DeliveryInv, QueueInv, RestartInv, SilentPoster, InPost, QueuesReplacedAlone
<1>2. QED
  BY <1>1, DeliveryInvariant, PTL

(* The events stand in the queues in the order in which they were accepted. *)
THEOREM EventsInOrder == Spec => []InOrder
<1>1. DeliveryInv => InOrder
  BY DEF DeliveryInv, OrderInv, Ordered, InOrder
<1>2. QED
  BY <1>1, DeliveryInvariant, PTL

(* No event leaves the queues but by the four actions that read, give up or *)
(* drop it.                                                                 *)
THEOREM EventsNeverSilentlyLost == Spec => NeverSilentlyLost
<1>1. QueueInv /\ QueueInv' /\ [Next]_vars =>
        [Live \subseteq Live' \/ FrameworkRead \/ WriteFails \/ DrainQueues
           \/ ReplaceQueues]_<<fmq, pending, writer>>
  BY LiveStep
<1>2. DeliveryInv => QueueInv
  BY DEF DeliveryInv
<1>3. QED
  BY <1>1, <1>2, DeliveryInvariant, PTL DEF Spec, NeverSilentlyLost
-----------------------------------------------------------------------------
(* The two counts of SharedWakelock, by the operators of EventQueues_proofs. *)
Counts ==
  /\ InFlight = Wakes(fmq) + WakesOf(Unwritten) + unacked
  /\ Acknowledged = AcksOf(wakeQueue)
  /\ {Wakes(fmq), WakesOf(Unwritten), unacked, InFlight, Acknowledged} \subseteq Nat

(* The lengths that the model counts are the sums of EventQueues_proofs, ... *)
LEMMA CountsAre == TypeOK => Counts
<1>1. SUFFICES ASSUME TypeOK PROVE Counts
  OBVIOUS
<1>2. /\ InFlight = Wakes(fmq) + WakesOf(Unwritten) + unacked
      /\ Acknowledged = AcksOf(wakeQueue)
  BY DEF InFlight, Acknowledged, WakesOf, AcksOf
<1>3. Wakes(fmq) \in Nat /\ WakesOf(Unwritten) \in Nat
  BY <1>1, TypeOKQueues, UnwrittenIs, LeftType, WakesType, WakesOfType
<1>4. AcksOf(wakeQueue) \in Nat /\ unacked \in Nat
  BY <1>1, AcksOfType DEF TypeOK
<1>5. QED
  BY <1>2, <1>3, <1>4 DEF Counts

(* ... after a step too. *)
LEMMA CountsNext == TypeOK' => Counts'
BY CountsAre, PTL

(* A step that moves no event leaves both counts, ... *)
LEMMA CountsSame ==
  ASSUME QuietStep, UNCHANGED <<wakeQueue, unacked>>
  PROVE  InFlight' = InFlight /\ Acknowledged' = Acknowledged
<1>1. Unwritten' = Unwritten /\ fmq' = fmq /\ unacked' = unacked /\ wakeQueue' = wakeQueue
  BY UnwrittenSame DEF QuietStep
<1>2. QED
  BY <1>1 DEF InFlight, Acknowledged

(* ... a posted batch adds its wake-up events but for those that find no room, ... *)
LEMMA CountsPosted ==
  ASSUME QueueInv, QueueInv', NEW p \in Posters, PostEvents(p), NEW left, NEW lost,
         left = Drop(ProcessEvents(batch[p]), DirectWrite(ProcessEvents(batch[p]))),
         lost = IF Fits(left) THEN 0 ELSE Wakes(left)
  PROVE  /\ InFlight' = InFlight + NumWakeups(batch[p]) - lost
         /\ Acknowledged' = Acknowledged
         /\ lost \in 0 .. NumWakeups(batch[p])
<1> DEFINE events == ProcessEvents(batch[p])
           n      == DirectWrite(events)
           b      == [events |-> left, wake |-> NumWakeups(batch[p])]
           w      == SubSeq(events, 1, n)
<1>1. /\ events = ProcessEvents(batch[p]) /\ n = DirectWrite(events) /\ left = Drop(events, n)
      /\ w = SubSeq(events, 1, n) /\ b = [events |-> left, wake |-> NumWakeups(batch[p])]
  OBVIOUS
<1>2. /\ fmq' = fmq \o w
      /\ IF left # <<>> /\ Fits(left)
         THEN pending' = Append(pending, b) /\ writer' = Woken(writer)
         ELSE UNCHANGED <<pending, writer>>
      /\ UNCHANGED <<wakeQueue, unacked>>
  BY DEF PostEvents, pendingVars
<1> HIDE DEF events, n, b, w
<1>3. /\ events \in Seq(Event) /\ n \in 0 .. Len(events)
      /\ KeptOf(batch[p], Len(batch[p]), events)
      /\ left \in Seq(Event)
  BY <1>1, PostedEvents DEF QueueInv
<1>4. NumWakeups(batch[p]) = Wakes(events)
  <2>1. batch[p] \in Seq(Kinds)
    BY TypeOKQueues DEF QueueInv
  <2>2. DOMAIN batch[p] = 1 .. Len(batch[p])
    BY <2>1, LenProperties
  <2>3. QED
    BY <1>3, <2>2 DEF KeptOf, NumWakeups
<1>5. /\ Wakes(events) = Wakes(w) + Wakes(left) /\ Wakes(w) \in Nat /\ Wakes(left) \in Nat
      /\ w \in Seq(Event)
  BY <1>1, <1>3, WakesSplit, Split
<1>6. b \in PendingBatch /\ b.events = left
  BY <1>1, <1>3, <1>4, <1>5 DEF PendingBatch
<1>7. fmq \in Seq(Event) /\ Unwritten \in Seq(Seq(Event))
  BY TypeOKQueues, UnwrittenIs, LeftType DEF QueueInv
<1>8. Wakes(fmq') = Wakes(fmq) + Wakes(w)
  BY <1>2, <1>5, <1>7, WakesConcat
<1>9. WakesOf(Unwritten') = WakesOf(Unwritten) + Wakes(left) - lost
  <2>1. CASE left # <<>> /\ Fits(left)
    <3>1. Unwritten' = Append(Unwritten, left)
      BY <1>2, <1>6, <2>1, UnwrittenPosted
    <3>2. WakesOf(Unwritten') = WakesOf(Unwritten) + Wakes(left)
      BY <1>3, <1>7, <3>1, WakesOfAppend
    <3>3. QED
      BY <1>5, <1>7, <2>1, <3>2, WakesOfType
  <2>2. CASE ~(left # <<>> /\ Fits(left))
    <3>1. Unwritten' = Unwritten
      BY <1>2, <2>2, UnwrittenSame
    <3>2. lost = Wakes(left)
      BY <2>2, WakesEmpty
    <3>3. QED
      BY <1>5, <1>7, <3>1, <3>2, WakesOfType
  <2>3. QED
    BY <2>1, <2>2
<1>10. Counts /\ Counts'
  BY CountsAre, CountsNext DEF QueueInv
<1>11. Acknowledged' = Acknowledged
  BY <1>2 DEF Acknowledged
<1>12. lost \in 0 .. NumWakeups(batch[p])
  BY <1>4, <1>5
<1>13. QED
  <2>1. InFlight' = Wakes(fmq') + WakesOf(Unwritten') + unacked
    BY <1>2, <1>10 DEF Counts
  <2>2. InFlight = Wakes(fmq) + WakesOf(Unwritten) + unacked
        /\ Wakes(fmq) \in Nat /\ WakesOf(Unwritten) \in Nat /\ unacked \in Nat
    BY <1>10 DEF Counts
  <2>3. lost \in Nat
    BY <1>4, <1>5
  <2>4. InFlight' = (Wakes(fmq) + Wakes(w)) + (WakesOf(Unwritten) + Wakes(left) - lost)
                    + unacked
    BY <1>8, <1>9, <2>1, Zenon
  <2>5. NumWakeups(batch[p]) = Wakes(w) + Wakes(left)
    BY <1>4, <1>5, Zenon
  <2>6. InFlight' = InFlight + NumWakeups(batch[p]) - lost
    <3>1. Wakes(w) \in Nat
      BY <1>5
    <3>2. Wakes(left) \in Nat
      BY <1>5
    <3>3. Wakes(fmq) \in Nat
      BY <2>2
    <3>4. WakesOf(Unwritten) \in Nat
      BY <2>2
    <3>5. unacked \in Nat
      BY <2>2
    <3>6. lost \in Nat
      BY <2>3
    <3>7. QED
      BY <2>2, <2>4, <2>5, <3>1, <3>2, <3>3, <3>4, <3>5, <3>6
  <2>7. QED
    BY <1>11, <1>12, <2>6

(* ... a chunk takes its own out of what waits, ... *)
LEMMA ChunkWakes ==
  ASSUME QueueInv, QueueInv', writer = "writing", writer' = "written", pending' = pending,
         NEW k, k = Wakes(SubSeq(FrontBatch.events, 1, NumToWrite))
  PROVE  /\ WakesOf(Unwritten') = WakesOf(Unwritten) - k
         /\ k \in Nat /\ SubSeq(FrontBatch.events, 1, NumToWrite) \in Seq(Event)
<1>1. /\ Unwritten \in Seq(Seq(Event)) /\ Unwritten # <<>>
      /\ Unwritten' \in Seq(Seq(Event)) /\ Len(Unwritten') = Len(Unwritten)
      /\ NumToWrite \in 0 .. Len(Unwritten[1]) /\ Unwritten[1] = FrontBatch.events
      /\ Unwritten'[1] = Drop(Unwritten[1], NumToWrite)
      /\ \A i \in 2 .. Len(Unwritten) : Unwritten'[i] = Unwritten[i]
  BY UnwrittenWritten
<1>2. WakesOf(Unwritten') + Wakes(Unwritten[1]) = WakesOf(Unwritten) + Wakes(Unwritten'[1])
  BY <1>1, WakesOfReplace
<1>3. Unwritten[1] \in Seq(Event)
  BY <1>1, ElementOfSeq
<1>4. /\ Wakes(Unwritten[1]) = k + Wakes(Unwritten'[1])
      /\ k \in Nat /\ Wakes(Unwritten'[1]) \in Nat
  BY <1>1, <1>3, WakesSplit
<1>5. WakesOf(Unwritten) \in Nat /\ WakesOf(Unwritten') \in Nat
  BY <1>1, WakesOfType
<1>6. SubSeq(FrontBatch.events, 1, NumToWrite) \in Seq(Event)
  BY <1>1, <1>3, Split
<1>7. QED
  BY <1>2, <1>4, <1>5, <1>6

(* ... so that a written chunk changes nothing ... *)
LEMMA CountsWritten ==
  ASSUME QueueInv, QueueInv', WriteOk
  PROVE  InFlight' = InFlight /\ Acknowledged' = Acknowledged
<1> DEFINE c == SubSeq(FrontBatch.events, 1, NumToWrite)
<1>1. /\ writer = "writing" /\ writer' = "written" /\ pending' = pending /\ fmq' = fmq \o c
      /\ UNCHANGED <<wakeQueue, unacked>>
  BY DEF WriteOk, pendingVars
<1>2. /\ WakesOf(Unwritten') = WakesOf(Unwritten) - Wakes(c)
      /\ Wakes(c) \in Nat /\ c \in Seq(Event)
  BY <1>1, ChunkWakes
<1> HIDE DEF c
<1>3. fmq \in Seq(Event)
  BY TypeOKQueues DEF QueueInv
<1>4. Wakes(fmq') = Wakes(fmq) + Wakes(c)
  BY <1>1, <1>2, <1>3, WakesConcat
<1>5. Counts /\ Counts'
  BY CountsAre, CountsNext DEF QueueInv
<1>6. Acknowledged' = Acknowledged
  BY <1>1 DEF Acknowledged
<1>7. QED
  BY <1>1, <1>2, <1>4, <1>5, <1>6 DEF Counts

(* ... and one that is given up loses them. *)
LEMMA CountsGivenUp ==
  ASSUME QueueInv, QueueInv', WriteFails, NEW k,
         k = Wakes(SubSeq(FrontBatch.events, 1, NumToWrite))
  PROVE  InFlight' = InFlight - k /\ Acknowledged' = Acknowledged /\ k \in 0 .. InFlight
<1>1. /\ writer = "writing" /\ writer' = "written" /\ pending' = pending /\ fmq' = fmq
      /\ UNCHANGED <<wakeQueue, unacked>>
  BY DEF WriteFails, pendingVars, queueVars
<1>2. WakesOf(Unwritten') = WakesOf(Unwritten) - k /\ k \in Nat
  BY <1>1, ChunkWakes
<1>3. Counts /\ Counts'
  BY CountsAre, CountsNext DEF QueueInv
<1>4. Acknowledged' = Acknowledged
  BY <1>1 DEF Acknowledged
<1>5. QED
  BY <1>1, <1>2, <1>3, <1>4 DEF Counts

(* Erasing the chunk changes nothing, ... *)
LEMMA CountsErased ==
  ASSUME QueueInv, QueueInv', FinishWrite
  PROVE  InFlight' = InFlight /\ Acknowledged' = Acknowledged
<1>1. UNCHANGED <<fmq, wakeQueue, unacked>>
  BY DEF FinishWrite, queueVars
<1>2. /\ Unwritten \in Seq(Seq(Event))
      /\ \/ Unwritten' = Unwritten
         \/ Unwritten # <<>> /\ Unwritten[1] = <<>> /\ Unwritten' = Tail(Unwritten)
  BY UnwrittenFinished
<1>3. Tail(Unwritten) \in Seq(Seq(Event)) \/ Unwritten = <<>>
  BY <1>2
<1>4. WakesOf(Unwritten') = WakesOf(Unwritten)
  <2>1. CASE Unwritten' = Unwritten
    BY <2>1
  <2>2. CASE Unwritten # <<>> /\ Unwritten[1] = <<>> /\ Unwritten' = Tail(Unwritten)
    <3>1. WakesOf(Unwritten) = Wakes(<<>>) + WakesOf(Unwritten')
      BY <1>2, <2>2, WakesOfTail
    <3>2. WakesOf(Unwritten') \in Nat
      BY <1>3, <2>2, WakesOfType
    <3>3. QED
      BY <3>1, <3>2, WakesEmpty
  <2>3. QED
    BY <1>2, <2>1, <2>2
<1>5. Counts /\ Counts'
  BY CountsAre, CountsNext DEF QueueInv
<1>6. QED
  BY <1>1, <1>4, <1>5 DEF Counts

(* ... draining the FMQ loses what was in it, ... *)
LEMMA CountsDrained ==
  ASSUME QueueInv, QueueInv', DrainQueues
  PROVE  InFlight' = InFlight - Wakes(fmq) /\ Acknowledged' = Acknowledged
         /\ Wakes(fmq) \in 0 .. InFlight
<1>1. /\ fmq' = <<>> /\ UNCHANGED <<pending, writer, unacked>>
      /\ wakeQueue' \in {wakeQueue, Append(wakeQueue, 0)}
  BY DEF DrainQueues, RpcRest, pendingVars
<1>2. Unwritten' = Unwritten
  BY <1>1, UnwrittenSame
<1>3. wakeQueue \in Seq(Nat)
  BY DEF QueueInv, TypeOK
<1>4. AcksOf(wakeQueue') = AcksOf(wakeQueue)
  <2>1. AcksOf(Append(wakeQueue, 0)) = AcksOf(wakeQueue) + 0 /\ AcksOf(wakeQueue) \in Nat
    BY <1>3, AcksOfAppend, AcksOfType
  <2>2. CASE wakeQueue' = wakeQueue
    BY <2>2
  <2>3. CASE wakeQueue' = Append(wakeQueue, 0)
    <3>1. AcksOf(wakeQueue') = AcksOf(wakeQueue) + 0
      BY <2>1, <2>3, Zenon
    <3>2. QED
      BY <2>1, <3>1
  <2>4. QED
    BY <1>1, <2>2, <2>3
<1>5. Counts /\ Counts'
  BY CountsAre, CountsNext DEF QueueInv
<1>6. QED
  BY <1>1, <1>2, <1>4, <1>5, WakesEmpty DEF Counts

(* ... replacing the queues loses everything. *)
LEMMA CountsReplaced ==
  ASSUME ReplaceQueues, QueueInv'
  PROVE  InFlight' = 0 /\ Acknowledged' = 0
<1>1. pending' = <<>> /\ fmq' = <<>> /\ wakeQueue' = <<>> /\ unacked' = 0
  BY DEF ReplaceQueues
<1>2. Unwritten' = <<>>
  BY <1>1 DEF Unwritten
<1>3. Counts'
  BY CountsNext DEF QueueInv
<1>4. QED
  BY <1>1, <1>2, <1>3, WakesEmpty, WakesOfEmpty, AcksOfEmpty DEF Counts

(* What the framework reads it has to acknowledge, ... *)
LEMMA CountsRead ==
  ASSUME QueueInv, QueueInv', FrameworkRead
  PROVE  InFlight' = InFlight /\ Acknowledged' = Acknowledged
<1>1. /\ fmq # <<>> /\ fmq' = Tail(fmq) /\ UNCHANGED <<wakeQueue, pending, writer>>
      /\ unacked' = unacked + (IF Head(fmq).wake THEN 1 ELSE 0)
  BY DEF FrameworkRead, pendingVars
<1>2. Unwritten' = Unwritten
  BY <1>1, UnwrittenSame
<1>3. fmq \in Seq(Event)
  BY TypeOKQueues DEF QueueInv
<1>4. Wakes(fmq) = (IF Head(fmq).wake THEN 1 ELSE 0) + Wakes(fmq')
  BY <1>1, <1>3, WakesTail
<1>5. Counts /\ Counts'
  BY CountsAre, CountsNext DEF QueueInv
<1>6. QED
  BY <1>1, <1>2, <1>4, <1>5, SMTT(60) DEF Counts

(* ... what it acknowledges is no longer in flight, ... *)
LEMMA CountsAcked ==
  ASSUME QueueInv, QueueInv', NEW n \in 1 .. unacked, unacked' = unacked - n,
         wakeQueue' = Append(wakeQueue, n), QuietStep
  PROVE  InFlight' = InFlight - n /\ Acknowledged' = Acknowledged + n /\ n \in 1 .. InFlight
<1>1. Unwritten' = Unwritten /\ fmq' = fmq
  BY UnwrittenSame DEF QuietStep
<1>2. wakeQueue \in Seq(Nat) /\ unacked \in Nat
  BY DEF QueueInv, TypeOK
<1>3. AcksOf(wakeQueue') = AcksOf(wakeQueue) + n
  BY <1>2, AcksOfAppend
<1>4. Counts /\ Counts'
  BY CountsAre, CountsNext DEF QueueInv
<1>5. QED
  BY <1>1, <1>2, <1>3, <1>4, SMTT(60) DEF Counts

(* ... until the wake lock thread has read the acknowledgement. *)
LEMMA CountsProcessed ==
  ASSUME QueueInv, QueueInv', WakelockRead
  PROVE  InFlight' = InFlight /\ Acknowledged' = Acknowledged - Head(wakeQueue)
         /\ Head(wakeQueue) \in 0 .. Acknowledged
<1>1. UNCHANGED <<fmq, unacked, pending, writer>> /\ wakeQueue # <<>>
      /\ wakeQueue' = Tail(wakeQueue)
  BY DEF WakelockRead, pendingVars
<1>2. Unwritten' = Unwritten
  BY <1>1, UnwrittenSame
<1>3. wakeQueue \in Seq(Nat) /\ Head(wakeQueue) \in Nat /\ wakeQueue[1] = Head(wakeQueue)
  <2>1. wakeQueue \in Seq(Nat) /\ wakeQueue # <<>>
    BY <1>1 DEF QueueInv, TypeOK
  <2>2. QED
    BY <2>1, HeadTailProperties
<1>4. AcksOf(wakeQueue) = Head(wakeQueue) + AcksOf(wakeQueue')
  BY <1>1, <1>3, AcksOfTail
<1>5. Counts /\ Counts'
  BY CountsAre, CountsNext DEF QueueInv
<1>6. QED
  BY <1>1, <1>2, <1>3, <1>4, <1>5, SMTT(60) DEF Counts

-----------------------------------------------------------------------------
(* The posters whose batch is not yet counted, and what bounds the counts: each *)
(* batch begun stands for one ScopedWakelock and MaxEvents events at most.      *)
Posting == {p \in Posters : post[p] \in {"scoped", "checked", "holding"}}

BoundInv ==
  /\ begun <= MaxBatches
  /\ refCount + MaxEvents * Cardinality(Posting) <= (MaxEvents + 1) * begun
  /\ InFlight + Acknowledged + MaxEvents * Cardinality(Posting) <= MaxEvents * begun

WakeInv ==
  /\ \A i \in DOMAIN pending : pending[i].wake <= MaxEvents
  /\ pending # <<>> \/ Posting # {} => begun >= 1

(* The bounds are sums of natural numbers. *)
LEMMA BoundTypes ==
  ASSUME QueueInv
  PROVE  /\ IsFiniteSet(Posting) /\ Cardinality(Posting) \in Nat
         /\ begun \in Nat /\ refCount \in Nat /\ InFlight \in Nat /\ Acknowledged \in Nat
         /\ MaxEvents \in Nat /\ MaxBatches \in Nat
<1>1. IsFiniteSet(Posting)
  BY PostersFinite, FS_Subset DEF Posting
<1>2. Cardinality(Posting) \in Nat
  BY <1>1, FS_CardinalityType
<1>3. begun \in Nat /\ refCount \in Nat
  BY DEF QueueInv, TypeOK, WakelockTypeOK
<1>4. InFlight \in Nat /\ Acknowledged \in Nat
  BY CountsAre DEF QueueInv, Counts
<1>5. QED
  BY <1>1, <1>2, <1>3, <1>4, SizesArePositive

(* A batch has MaxEvents wake-up events at most. *)
LEMMA BatchWakeups ==
  ASSUME TypeOK, NEW p \in Posters
  PROVE  NumWakeups(batch[p]) \in 0 .. MaxEvents
<1> DEFINE W == {i \in DOMAIN batch[p] : batch[p][i] = "wake"}
<1>1. batch[p] \in Seq(Kinds) /\ Len(batch[p]) <= MaxEvents /\ MaxEvents \in Nat
  <2>1. batch[p] \in Batches \cup {<<>>}
    BY DEF TypeOK
  <2>2. <<>> \in Seq(Kinds) /\ Len(<<>>) = 0
    OBVIOUS
  <2>3. MaxEvents \in Nat
    BY SizesArePositive
  <2>4. CASE batch[p] \in Batches
    BY <2>3, <2>4, BatchesAreEvents
  <2>5. CASE batch[p] = <<>>
    BY <2>2, <2>3, <2>5
  <2>6. QED
    BY <2>1, <2>3, <2>4, <2>5
<1>2. W \subseteq 1 .. Len(batch[p]) /\ Len(batch[p]) \in Nat
  BY <1>1, LenProperties
<1>3. IsFiniteSet(1 .. Len(batch[p])) /\ Cardinality(1 .. Len(batch[p])) = Len(batch[p])
  BY <1>2, IndexesFinite
<1>4. Cardinality(W) \in Nat /\ Cardinality(W) <= Len(batch[p])
  BY <1>2, <1>3, FS_Subset, FS_CardinalityType
<1>5. QED
  BY <1>1, <1>2, <1>4 DEF NumWakeups

(* Giving references back never adds one, ... *)
LEMMA DecrementLowers ==
  ASSUME refCount \in Nat, NEW d \in Nat, NEW stale, Decrement(d, stale)
  PROVE  refCount' <= refCount
BY DEF Decrement

(* ... nor does resetSharedWakelock. *)
LEMMA ResetLowers ==
  ASSUME refCount \in Nat, ResetShared
  PROVE  refCount' <= refCount
BY DecrementLowers DEF ResetShared

(* A step that adds neither a reference nor an event keeps the bounds: ... *)
LEMMA BoundKept ==
  ASSUME QueueInv, QueueInv', BoundInv, Posting' = Posting, begun' = begun,
         refCount' <= refCount, InFlight' + Acknowledged' <= InFlight + Acknowledged
  PROVE  BoundInv'
<1>1. {refCount', InFlight', Acknowledged'} \subseteq Nat
  <2>1. Counts'
    BY CountsNext DEF QueueInv
  <2>2. refCount' \in Nat
    BY DEF QueueInv, TypeOK, WakelockTypeOK
  <2>3. QED
    BY <2>1, <2>2 DEF Counts
<1> DEFINE k == MaxEvents * Cardinality(Posting)
           m == MaxEvents * begun
           n == (MaxEvents + 1) * begun
<1>2. {k, m, n} \subseteq Nat
  BY BoundTypes
<1>3. refCount + k <= n /\ InFlight + Acknowledged + k <= m
  BY DEF BoundInv
<1>4. (MaxEvents * Cardinality(Posting))' = k /\ (MaxEvents * begun)' = m
      /\ ((MaxEvents + 1) * begun)' = n
  BY DEF k, m, n
<1> HIDE DEF k, m, n
<1>5. {refCount, InFlight, Acknowledged} \subseteq Nat
  BY BoundTypes
<1>6. refCount' + k <= n /\ InFlight' + Acknowledged' + k <= m
  BY <1>1, <1>2, <1>3, <1>5
<1>7. QED
  BY <1>4, <1>6 DEF BoundInv


(* ... the one that leaves the queues alone, ... *)
LEMMA BoundSame ==
  ASSUME QueueInv, QueueInv', BoundInv, QuietStep, UNCHANGED <<wakeQueue, unacked>>,
         Posting' = Posting, begun' = begun, refCount' <= refCount
  PROVE  BoundInv'
<1>1. InFlight' = InFlight /\ Acknowledged' = Acknowledged
  BY CountsSame
<1>2. {InFlight, Acknowledged} \subseteq Nat
  BY BoundTypes
<1>3. InFlight' + Acknowledged' <= InFlight + Acknowledged
  BY <1>1, <1>2
<1>4. QED
  BY <1>3, BoundKept

(* Linear forms of the products in BoundInv. *)
LEMMA OneMore ==
  ASSUME NEW M \in Nat, NEW k \in Nat
  PROVE  M * (k + 1) = M * k + M /\ (M + 1) * (k + 1) = (M + 1) * k + M + 1
         /\ M * k \in Nat /\ (M + 1) * k \in Nat
OBVIOUS

(* ... when a batch is begun, ... *)
LEMMA BoundBegun ==
  ASSUME QueueInv, QueueInv', BoundInv, NEW p \in Posters, p \notin Posting,
         Posting' = Posting \cup {p}, begun < MaxBatches, begun' = begun + 1,
         QuietStep, UNCHANGED <<wakeQueue, unacked>>, refCount' <= refCount + 1
  PROVE  BoundInv'
<1>1. Counts' /\ refCount' \in Nat
  BY CountsNext DEF QueueInv, TypeOK, WakelockTypeOK
<1>2. InFlight' = InFlight /\ Acknowledged' = Acknowledged
  BY CountsSame
<1>3. Cardinality(Posting') = Cardinality(Posting) + 1
  BY BoundTypes, FS_AddElement
<1> DEFINE k == MaxEvents * Cardinality(Posting)
           m == MaxEvents * begun
           n == (MaxEvents + 1) * begun
<1>4. refCount + k <= n /\ InFlight + Acknowledged + k <= m
  BY DEF BoundInv
<1>5. /\ MaxEvents * Cardinality(Posting') = k + MaxEvents
      /\ MaxEvents * begun' = m + MaxEvents
      /\ (MaxEvents + 1) * begun' = n + MaxEvents + 1
      /\ {k, m, n} \subseteq Nat
  BY <1>3, OneMore, BoundTypes
<1>6. (MaxEvents * Cardinality(Posting))' = MaxEvents * Cardinality(Posting')
      /\ (MaxEvents * begun)' = MaxEvents * begun'
      /\ ((MaxEvents + 1) * begun)' = (MaxEvents + 1) * begun'
  OBVIOUS
<1> HIDE DEF k, m, n
<1>7. {refCount, InFlight, Acknowledged, MaxEvents, refCount', begun, MaxBatches} \subseteq Nat
  BY <1>1, BoundTypes
<1>8. refCount' + (k + MaxEvents) <= n + MaxEvents + 1
  BY <1>4, <1>5, <1>7
<1>9. InFlight' + Acknowledged' + (k + MaxEvents) <= m + MaxEvents
  BY <1>2, <1>4, <1>5, <1>7
<1>10. begun' <= MaxBatches
  BY <1>7
<1>11. QED
  BY <1>5, <1>6, <1>8, <1>9, <1>10 DEF BoundInv

(* ... and when its events are counted. *)
LEMMA BoundPosted ==
  ASSUME QueueInv, QueueInv', BoundInv, NEW p \in Posting,
         Posting' = Posting \ {p}, begun' = begun, NEW w \in 0 .. MaxEvents,
         refCount' <= refCount + w,
         InFlight' + Acknowledged' <= InFlight + Acknowledged + w
  PROVE  BoundInv'
<1>1. Counts' /\ refCount' \in Nat
  BY CountsNext DEF QueueInv, TypeOK, WakelockTypeOK
<1>2. Cardinality(Posting') = Cardinality(Posting) - 1 /\ IsFiniteSet(Posting')
  BY BoundTypes, FS_RemoveElement
<1>3. PICK c \in Nat : c = Cardinality(Posting')
  BY <1>2, FS_CardinalityType
<1> DEFINE k == MaxEvents * c
           m == MaxEvents * begun
           n == (MaxEvents + 1) * begun
<1>4. MaxEvents * Cardinality(Posting) = k + MaxEvents /\ {k, m, n} \subseteq Nat
  <2>1. Cardinality(Posting) = c + 1
    BY <1>2, <1>3, BoundTypes
  <2>2. MaxEvents * (c + 1) = k + MaxEvents /\ k \in Nat
    BY OneMore, BoundTypes
  <2>3. m \in Nat /\ n \in Nat
    BY OneMore, BoundTypes
  <2>4. QED
    BY <2>1, <2>2, <2>3
<1>5. refCount + (k + MaxEvents) <= n /\ InFlight + Acknowledged + (k + MaxEvents) <= m
  BY <1>4 DEF BoundInv
<1>6. (MaxEvents * Cardinality(Posting))' = k /\ (MaxEvents * begun)' = m
      /\ ((MaxEvents + 1) * begun)' = n
  BY <1>3 DEF k, m, n
<1> HIDE DEF k, m, n
<1>7. {refCount, InFlight, Acknowledged, MaxEvents, refCount', InFlight', Acknowledged'}
        \subseteq Nat /\ w \in Nat /\ w <= MaxEvents
  BY <1>1, BoundTypes DEF Counts
<1>8. refCount' + k <= n
  BY <1>4, <1>5, <1>7
<1>9. InFlight' + Acknowledged' + k <= m
  BY <1>4, <1>5, <1>7
<1>10. QED
  BY <1>6, <1>8, <1>9 DEF BoundInv
-----------------------------------------------------------------------------
(* What the steps leave alone that neither move an event nor touch the wake *)
(* lock.                                                                    *)
IdleStep ==
  /\ QuietStep
  /\ UNCHANGED <<wakelockVars, breached, begun, wakeQueue, unacked>>
  /\ Posting' = Posting

(* All but eighteen actions are such steps. *)
LEMMA MostStepsIdle ==
  ASSUME QueueInv, [Next]_vars
  PROVE  \/ IdleStep
         \/ \E p \in Posters : Begin(p)
         \/ \E p \in Posters : CheckRunning(p)
         \/ \E p \in Posters : PostEvents(p)
         \/ \E p \in Posters : Finish(p)
         \/ WriteOk \/ WriteFails \/ FinishWrite \/ WakelockTimeout
         \/ WakelockRead \/ WakelockExit \/ DrainQueues \/ JoinThreads
         \/ ReplaceQueues \/ StartThreads \/ StopThreads \/ FrameworkRead
         \/ FrameworkAck \/ Tick
<1> USE DEF wakelockVars, queueVars, pendingVars, sensorVars, countVars,
            WakelockRest, RpcRest, Woken, IdleStep, QuietStep, Posting
<1>1. CASE \E p \in Posters : Trigger(p)
  BY <1>1 DEF Trigger, QueueInv, TypeOK
<1>2. CASE WriterTop
  BY <1>2 DEF WriterTop
<1>3. CASE WriterPark
  BY <1>3 DEF WriterPark
<1>4. CASE WakelockTop
  BY <1>4 DEF WakelockTop
<1>5. CASE WakelockPark
  BY <1>5 DEF WakelockPark
<1>6. CASE WakelockReadTimeout
  BY <1>6 DEF WakelockReadTimeout
<1>7. CASE NotifyWakelock
  BY <1>7 DEF NotifyWakelock
<1>8. CASE NotifyWriter
  BY <1>8 DEF NotifyWriter
<1>9. CASE \E p \in Posters : DisableSensor(p)
  BY <1>9 DEF DisableSensor
<1>10. CASE \E p \in Posters, enable \in BOOLEAN : Activate(p, enable)
  BY <1>10 DEF Activate
<1>11. CASE UNCHANGED vars
  BY <1>11 DEF vars
<1>12. CASE \E p \in Posters : LockEvents(p)
  BY <1>12 DEF LockEvents, QueueInv, TypeOK
<1>13. QED
  BY <1>1, <1>2, <1>3, <1>4, <1>5, <1>6, <1>7, <1>8, <1>9, <1>10, <1>11, <1>12
     DEF Next, Poster, Writer, WakelockThread, Initialize
-----------------------------------------------------------------------------
(* Every step keeps the bounds. *)
LEMMA BoundInductive ==
  ASSUME QueueInv, QueueInv', BoundInv, [Next]_vars
  PROVE  BoundInv'
<1> USE DEF wakelockVars, queueVars, pendingVars, sensorVars, countVars,
            WakelockRest, RpcRest, Woken
<1>a. refCount \in Nat
  BY DEF QueueInv, TypeOK, WakelockTypeOK
<1>1. CASE IdleStep
  <2>1. QuietStep /\ UNCHANGED <<wakeQueue, unacked>> /\ Posting' = Posting /\ begun' = begun
        /\ refCount' = refCount
    BY <1>1 DEF IdleStep
  <2>2. refCount' <= refCount
    BY <1>a, <2>1
  <2>3. QED
    BY <2>1, <2>2, BoundSame
<1>2. CASE \E p \in Posters : Begin(p)
  <2>1. PICK p \in Posters : Begin(p)
    BY <1>2
  <2>2. /\ QuietStep /\ UNCHANGED <<wakeQueue, unacked>>
        /\ begun < MaxBatches /\ begun' = begun + 1
    BY <2>1 DEF Begin, QuietStep
  <2>3. p \notin Posting /\ Posting' = Posting \cup {p}
    BY <2>1, SMTT(60) DEF Begin, Posting, QueueInv, TypeOK
  <2>4. refCount' <= refCount + 1
    BY <1>a, <2>1 DEF Begin, CreateScope, Increment
  <2>5. QED
    BY <2>2, <2>3, <2>4, BoundBegun
<1>3. CASE \E p \in Posters : CheckRunning(p)
  <2>1. PICK p \in Posters : CheckRunning(p)
    BY <1>3
  <2>2. QuietStep /\ UNCHANGED <<wakeQueue, unacked, begun, refCount>> /\ refCount' <= refCount
    BY <1>a, <2>1 DEF CheckRunning, QuietStep
  <2>3. CASE threadsRun
    <3>1. Posting' = Posting
      BY <2>1, <2>3 DEF CheckRunning, Posting, QueueInv, TypeOK
    <3>2. QED
      BY <2>2, <3>1, BoundSame
  <2>4. CASE ~threadsRun
    <3>1. p \in Posting /\ Posting' = Posting \ {p}
      BY <2>1, <2>4 DEF CheckRunning, Posting, QueueInv, TypeOK
    <3>2. InFlight' = InFlight /\ Acknowledged' = Acknowledged
      BY <2>2, CountsSame
    <3>3. InFlight' + Acknowledged' <= InFlight + Acknowledged + 0 /\ refCount' <= refCount + 0
          /\ 0 \in 0 .. MaxEvents
      BY <2>2, <3>2, BoundTypes
    <3>4. QED
      BY <2>2, <3>1, <3>3, BoundPosted
  <2>5. QED
    BY <2>3, <2>4
<1>4. CASE \E p \in Posters : PostEvents(p)
  <2>1. PICK p \in Posters : PostEvents(p)
    BY <1>4
  <2>2. p \in Posting /\ Posting' = Posting \ {p} /\ begun' = begun
    BY <2>1 DEF PostEvents, Posting, QueueInv, TypeOK
  <2>3. PICK left : left = Drop(ProcessEvents(batch[p]), DirectWrite(ProcessEvents(batch[p])))
    OBVIOUS
  <2>4. PICK lost : lost = IF Fits(left) THEN 0 ELSE Wakes(left)
    OBVIOUS
  <2>5. PICK w : w = NumWakeups(batch[p])
    OBVIOUS
  <2>6. InFlight' = InFlight + w - lost /\ Acknowledged' = Acknowledged /\ lost \in 0 .. w
    BY <2>1, <2>3, <2>4, <2>5, CountsPosted
  <2>7. w \in 0 .. MaxEvents
    BY <2>5, BatchWakeups DEF QueueInv
  <2>8. refCount' <= refCount + w
    <3>1. refCount' = refCount + w \/ refCount' = refCount
      BY <2>1, <2>5 DEF PostEvents, Increment
    <3>2. w \in Nat
      BY <2>7
    <3>3. QED
      BY <1>a, <3>1, <3>2
  <2>9. InFlight' + Acknowledged' <= InFlight + Acknowledged + w
    <3>1. w \in Nat /\ lost \in Nat
      BY <2>6, <2>7
    <3>2. QED
      BY <2>6, <3>1, BoundTypes
  <2>10. QED
    BY <2>2, <2>7, <2>8, <2>9, BoundPosted
<1>5. CASE \E p \in Posters : Finish(p)
  <2>1. PICK p \in Posters : Finish(p)
    BY <1>5
  <2>2. QuietStep /\ UNCHANGED <<wakeQueue, unacked, begun>>
    BY <2>1 DEF Finish, QuietStep
  <2>3. Posting' = Posting
    BY <2>1 DEF Finish, Posting, QueueInv, TypeOK
  <2>4. refCount' <= refCount
    BY <1>a, <2>1 DEF Finish, DestroyScope, Decrement
  <2>5. QED
    BY <2>2, <2>3, <2>4, BoundSame
<1>6. CASE WriteOk
  <2>1. UNCHANGED <<post, begun>>
    BY <1>6 DEF WriteOk
  <2>2. Posting' = Posting
    BY <2>1 DEF Posting
  <2>3. refCount' <= refCount
    BY <1>6, <1>a DEF WriteOk
  <2>4. InFlight' + Acknowledged' <= InFlight + Acknowledged
    BY <1>6, CountsWritten, BoundTypes
  <2>5. QED
    BY <2>1, <2>2, <2>3, <2>4, BoundKept
<1>7. CASE WriteFails
  <2>1. UNCHANGED <<post, begun>>
    BY <1>7 DEF WriteFails
  <2>2. Posting' = Posting
    BY <2>1 DEF Posting
  <2>3. refCount' <= refCount
    <3>1. LostReferences \in Nat
      BY <1>7, FrontWritten DEF WriteFails, QueueInv
    <3>2. QED
      BY <1>7, <1>a, <3>1, DecrementLowers DEF WriteFails
  <2>4. InFlight' + Acknowledged' <= InFlight + Acknowledged
    BY <1>7, CountsGivenUp, BoundTypes
  <2>5. QED
    BY <2>1, <2>2, <2>3, <2>4, BoundKept
<1>8. CASE FinishWrite
  <2>1. UNCHANGED <<post, begun>>
    BY <1>8 DEF FinishWrite
  <2>2. Posting' = Posting
    BY <2>1 DEF Posting
  <2>3. refCount' <= refCount
    BY <1>8, <1>a DEF FinishWrite
  <2>4. InFlight' + Acknowledged' <= InFlight + Acknowledged
    BY <1>8, CountsErased, BoundTypes
  <2>5. QED
    BY <2>1, <2>2, <2>3, <2>4, BoundKept
<1>9. CASE WakelockTimeout
  <2>1. QuietStep /\ UNCHANGED <<wakeQueue, unacked, post, begun>> /\ ResetShared
    BY <1>9 DEF WakelockTimeout, QuietStep
  <2>2. refCount' <= refCount /\ Posting' = Posting
    BY <1>a, <2>1, ResetLowers DEF Posting
  <2>3. QED
    BY <2>1, <2>2, BoundSame
<1>10. CASE WakelockRead
  <2>1. UNCHANGED <<post, begun>>
    BY <1>10 DEF WakelockRead
  <2>2. Posting' = Posting
    BY <2>1 DEF Posting
  <2>3. refCount' <= refCount
    BY <1>10, <1>a DEF WakelockRead, Decrement, QueueInv, TypeOK
  <2>4. InFlight' + Acknowledged' <= InFlight + Acknowledged
    BY <1>10, CountsProcessed, BoundTypes
  <2>5. QED
    BY <2>1, <2>2, <2>3, <2>4, BoundKept
<1>11. CASE WakelockExit
  <2>1. QuietStep /\ UNCHANGED <<wakeQueue, unacked, post, begun>> /\ ResetShared
    BY <1>11 DEF WakelockExit, QuietStep
  <2>2. refCount' <= refCount /\ Posting' = Posting
    BY <1>a, <2>1, ResetLowers DEF Posting
  <2>3. QED
    BY <2>1, <2>2, BoundSame
<1>12. CASE DrainQueues
  <2>1. UNCHANGED <<post, begun>>
    BY <1>12 DEF DrainQueues
  <2>2. Posting' = Posting
    BY <2>1 DEF Posting
  <2>3. refCount' <= refCount
    BY <1>12, <1>a DEF DrainQueues
  <2>4. InFlight' + Acknowledged' <= InFlight + Acknowledged
    BY <1>12, CountsDrained, BoundTypes
  <2>5. QED
    BY <2>1, <2>2, <2>3, <2>4, BoundKept
<1>13. CASE JoinThreads
  <2>1. QuietStep /\ UNCHANGED <<wakeQueue, unacked, post, begun>> /\ ResetShared
    BY <1>13 DEF JoinThreads, QuietStep
  <2>2. refCount' <= refCount /\ Posting' = Posting
    BY <1>a, <2>1, ResetLowers DEF Posting
  <2>3. QED
    BY <2>1, <2>2, BoundSame
<1>14. CASE ReplaceQueues
  <2>1. UNCHANGED <<post, begun>>
    BY <1>14 DEF ReplaceQueues
  <2>2. Posting' = Posting
    BY <2>1 DEF Posting
  <2>3. refCount' <= refCount
    BY <1>14, <1>a DEF ReplaceQueues
  <2>4. InFlight' + Acknowledged' <= InFlight + Acknowledged
    BY <1>14, CountsReplaced, BoundTypes
  <2>5. QED
    BY <2>1, <2>2, <2>3, <2>4, BoundKept
<1>15. CASE StartThreads
  <2>1. QuietStep /\ UNCHANGED <<wakeQueue, unacked>> /\ UNCHANGED <<post, begun, refCount>>
    BY <1>15 DEF StartThreads, QueueInv, QuietStep
  <2>2. refCount' <= refCount /\ Posting' = Posting
    BY <1>a, <2>1 DEF Posting
  <2>3. QED
    BY <2>1, <2>2, BoundSame
<1>16. CASE StopThreads
  <2>1. QuietStep /\ UNCHANGED <<wakeQueue, unacked>> /\ UNCHANGED <<post, begun, refCount>>
    BY <1>16 DEF StopThreads, QuietStep
  <2>2. refCount' <= refCount /\ Posting' = Posting
    BY <1>a, <2>1 DEF Posting
  <2>3. QED
    BY <2>1, <2>2, BoundSame
<1>17. CASE FrameworkRead
  <2>1. UNCHANGED <<post, begun>>
    BY <1>17 DEF FrameworkRead
  <2>2. Posting' = Posting
    BY <2>1 DEF Posting
  <2>3. refCount' <= refCount
    BY <1>17, <1>a DEF FrameworkRead
  <2>4. InFlight' + Acknowledged' <= InFlight + Acknowledged
    BY <1>17, CountsRead, BoundTypes
  <2>5. QED
    BY <2>1, <2>2, <2>3, <2>4, BoundKept
<1>18. CASE FrameworkAck
  <2>1. UNCHANGED <<post, begun, refCount>> /\ QuietStep
    BY <1>18 DEF FrameworkAck, QuietStep
  <2>2. Posting' = Posting /\ refCount' <= refCount
    BY <1>a, <2>1 DEF Posting
  <2>3. PICK n \in 1 .. unacked : unacked' = unacked - n /\ wakeQueue' = Append(wakeQueue, n)
    BY <1>18 DEF FrameworkAck
  <2>4. InFlight' = InFlight - n /\ Acknowledged' = Acknowledged + n /\ n \in Nat
    BY <2>1, <2>3, CountsAcked
  <2>5. InFlight' + Acknowledged' <= InFlight + Acknowledged
    BY <2>4, BoundTypes
  <2>6. QED
    BY <2>1, <2>2, <2>5, BoundKept
<1>19. CASE Tick
  <2>1. QuietStep /\ UNCHANGED <<wakeQueue, unacked>> /\ UNCHANGED <<post, begun, refCount>>
    BY <1>19 DEF Tick, TimePasses, QuietStep
  <2>2. refCount' <= refCount /\ Posting' = Posting
    BY <1>a, <2>1 DEF Posting
  <2>3. QED
    BY <2>1, <2>2, BoundSame
<1>20. QED
  BY <1>1, <1>2, <1>3, <1>4, <1>5, <1>6, <1>7, <1>8, <1>9, <1>10, <1>11, <1>12, <1>13,
     <1>14, <1>15, <1>16, <1>17, <1>18, <1>19, MostStepsIdle
-----------------------------------------------------------------------------
(* Every step keeps what a pending batch may give back. *)
LEMMA WakeInductive ==
  ASSUME QueueInv, WakeInv, [Next]_vars
  PROVE  WakeInv'
<1> USE DEF wakelockVars, queueVars, pendingVars, sensorVars, countVars,
            WakelockRest, RpcRest, Woken, WakeInv
<1>1. CASE IdleStep
  BY <1>1 DEF IdleStep, QuietStep
<1>2. CASE \E p \in Posters : Begin(p)
  BY <1>2 DEF Begin, Posting, QueueInv, TypeOK
<1>3. CASE \E p \in Posters : CheckRunning(p)
  BY <1>3 DEF CheckRunning, Posting, QueueInv, TypeOK
<1>4. CASE \E p \in Posters : PostEvents(p)
  <2>1. PICK p \in Posters : PostEvents(p)
    BY <1>4
  <2>2. begun' >= 1
    BY <2>1 DEF PostEvents, Posting
  <2>3. NumWakeups(batch[p]) <= MaxEvents
    BY BatchWakeups, SizesArePositive DEF QueueInv
  <2>4. \/ pending' = pending
        \/ \E b : b.wake = NumWakeups(batch[p]) /\ pending' = Append(pending, b)
    BY <2>1 DEF PostEvents
  <2>5. CASE pending' = pending
    BY <2>2, <2>5
  <2>6. CASE \E b : b.wake = NumWakeups(batch[p]) /\ pending' = Append(pending, b)
    <3>1. PICK b : b.wake = NumWakeups(batch[p]) /\ pending' = Append(pending, b)
      BY <2>6
    <3>2. pending \in Seq(PendingBatch)
      BY TypeOKQueues DEF QueueInv
    <3>3. \A i \in DOMAIN pending' :
            pending'[i] = b \/ (i \in DOMAIN pending /\ pending'[i] = pending[i])
      BY <3>1, <3>2
    <3>4. QED
      BY <2>2, <2>3, <3>1, <3>3
  <2>7. QED
    BY <2>4, <2>5, <2>6
<1>5. CASE \E p \in Posters : Finish(p)
  BY <1>5 DEF Finish, Posting, QueueInv, TypeOK
<1>6. CASE WriteOk
  BY <1>6 DEF WriteOk, Posting
<1>7. CASE WriteFails
  BY <1>7 DEF WriteFails, Posting
<1>8. CASE FinishWrite
  <2>1. /\ pending \in Seq(PendingBatch) /\ pending # <<>> /\ UNCHANGED <<post, begun>>
        /\ \/ pending' = [pending EXCEPT ![1].events = Drop(pending[1].events, QueueSize)]
           \/ pending' = Tail(pending)
    BY <1>8, TypeOKQueues DEF FinishWrite, PopWritten, QueueInv
  <2>2. Posting' = Posting
    BY <2>1 DEF Posting
  <2>3. CASE pending' = [pending EXCEPT ![1].events = Drop(pending[1].events, QueueSize)]
    <3>1. DOMAIN pending' = DOMAIN pending
      BY <2>3
    <3>2. \A i \in DOMAIN pending : pending'[i].wake = pending[i].wake
      BY <2>1, <2>3 DEF PendingBatch
    <3>3. QED
      BY <2>1, <2>2, <3>1, <3>2
  <2>4. CASE pending' = Tail(pending)
    <3>1. \A i \in DOMAIN pending' : i + 1 \in DOMAIN pending /\ pending'[i] = pending[i + 1]
      BY <2>1, <2>4
    <3>2. QED
      BY <2>1, <2>2, <3>1
  <2>5. QED
    BY <2>1, <2>3, <2>4
<1>9. CASE WakelockTimeout
  BY <1>9 DEF WakelockTimeout, ResetShared, Posting
<1>10. CASE WakelockRead
  BY <1>10 DEF WakelockRead, Posting
<1>11. CASE WakelockExit
  BY <1>11 DEF WakelockExit, ResetShared, Posting
<1>12. CASE DrainQueues
  BY <1>12 DEF DrainQueues, Posting
<1>13. CASE JoinThreads
  BY <1>13 DEF JoinThreads, ResetShared, Posting
<1>14. CASE ReplaceQueues
  BY <1>14 DEF ReplaceQueues, Posting, QueueInv, TypeOK
<1>15. CASE StartThreads
  BY <1>15 DEF StartThreads, Posting
<1>16. CASE StopThreads
  BY <1>16 DEF StopThreads, Posting
<1>17. CASE FrameworkRead
  BY <1>17 DEF FrameworkRead, Posting
<1>18. CASE FrameworkAck
  BY <1>18 DEF FrameworkAck, Posting
<1>19. CASE Tick
  BY <1>19 DEF Tick, TimePasses, Posting
<1>20. QED
  BY <1>1, <1>2, <1>3, <1>4, <1>5, <1>6, <1>7, <1>8, <1>9, <1>10, <1>11, <1>12, <1>13,
     <1>14, <1>15, <1>16, <1>17, <1>18, <1>19, MostStepsIdle
-----------------------------------------------------------------------------
(* The bound of SharedWakelock, as it is instantiated, covers every count. *)
LEMMA Monotone ==
  ASSUME NEW M \in Nat, NEW a \in Nat, NEW b \in Nat, a <= b
  PROVE  M * a <= M * b /\ M * a \in Nat /\ M * b \in Nat
<1>1. PICK c \in Nat : b = a + c
  <2>1. b - a \in Nat /\ b = a + (b - a)
    OBVIOUS
  <2>2. QED
    BY <2>1
<1>2. M * (a + c) = M * a + M * c /\ M * a \in Nat /\ M * c \in Nat
  OBVIOUS
<1>3. QED
  BY <1>1, <1>2

(* Neither the references nor the events of the batches begun pass it. *)
LEMMA BoundsCover ==
  ASSUME QueueInv, BoundInv, NEW r, r = (MaxEvents + 1) * MaxBatches
  PROVE  /\ r \in Nat /\ refCount <= r /\ InFlight + Acknowledged <= r
         /\ begun < MaxBatches => refCount < r
         /\ begun >= 1 => MaxEvents <= r
         /\ Posting # {} => /\ refCount + MaxEvents <= r
                            /\ InFlight + Acknowledged + MaxEvents <= r
<1> DEFINE k == MaxEvents * Cardinality(Posting)
           m == MaxEvents * begun
           n == (MaxEvents + 1) * begun
<1>1. {begun, refCount, InFlight, Acknowledged, MaxEvents, MaxBatches} \subseteq Nat
      /\ Cardinality(Posting) \in Nat /\ IsFiniteSet(Posting)
  BY BoundTypes
<1>2. begun <= MaxBatches /\ refCount + k <= n /\ InFlight + Acknowledged + k <= m
  BY DEF BoundInv
<1>3. k \in Nat /\ (Posting # {} => MaxEvents <= k)
  <2>1. k \in Nat
    BY <1>1, OneMore
  <2>2. ASSUME Posting # {} PROVE MaxEvents <= k
    <3>1. Cardinality(Posting) # 0
      BY <1>1, <2>2, FS_EmptySet
    <3>2. MaxEvents * 1 <= MaxEvents * Cardinality(Posting)
      BY <1>1, <3>1, Monotone
    <3>3. QED
      BY <1>1, <3>2
  <2>3. QED
    BY <2>1, <2>2
<1>4. n <= r /\ n \in Nat /\ r \in Nat
  BY <1>1, <1>2, Monotone
<1>5. begun < MaxBatches => n + MaxEvents + 1 <= r
  <2>1. ASSUME begun < MaxBatches PROVE n + MaxEvents + 1 <= r
    <3>1. (MaxEvents + 1) * (begun + 1) <= r
      BY <1>1, <2>1, Monotone
    <3>2. (MaxEvents + 1) * (begun + 1) = n + MaxEvents + 1
      BY <1>1, OneMore
    <3>3. QED
      BY <3>1, <3>2
  <2>2. QED
    BY <2>1
<1>6. m \in Nat /\ m <= n
  BY <1>1
<1>7. begun >= 1 => MaxEvents <= r
  <2>1. ASSUME begun >= 1 PROVE MaxEvents <= r
    <3>1. (MaxEvents + 1) * 1 <= r
      BY <1>1, <1>2, <2>1, Monotone
    <3>2. QED
      BY <1>1, <1>4, <3>1
  <2>2. QED
    BY <2>1
<1> HIDE DEF k, m, n
<1>8. refCount <= r /\ InFlight + Acknowledged <= r
  BY <1>1, <1>2, <1>3, <1>4, <1>6
<1>9. begun < MaxBatches => refCount < r
  BY <1>1, <1>2, <1>3, <1>4, <1>5
<1>10. Posting # {} => refCount + MaxEvents <= r /\ InFlight + Acknowledged + MaxEvents <= r
  BY <1>1, <1>2, <1>3, <1>4, <1>6
<1>11. QED
  BY <1>4, <1>7, <1>8, <1>9, <1>10

(* The operators of Wakelock mean the same in both modules. *)
LEMMA SameWakelock ==
  ASSUME NEW p, NEW lock, NEW d, NEW stale
  PROVE  /\ SW!CreateScope(p, lock) <=> CreateScope(p, lock)
         /\ SW!DestroyScope(p) <=> DestroyScope(p)
         /\ SW!CountBatch(d) <=> Increment(d)
         /\ SW!Decrement(d, stale) <=> Decrement(d, stale)
         /\ SW!ResetShared <=> ResetShared
         /\ SW!TimePasses <=> TimePasses
         /\ SW!IsLocked(p) <=> IsLocked(p)
         /\ SW!Locked = Locked
<1> USE DEF SW!Increment, Increment, SW!Decrement, Decrement, SW!IsLocked, IsLocked
<1>1. SW!CreateScope(p, lock) <=> CreateScope(p, lock)
  BY DEF SW!CreateScope, CreateScope
<1>2. SW!DestroyScope(p) <=> DestroyScope(p)
  BY DEF SW!DestroyScope, DestroyScope
<1>3. SW!CountBatch(d) <=> Increment(d)
  BY DEF SW!CountBatch
<1>4. SW!Decrement(d, stale) <=> Decrement(d, stale)
  OBVIOUS
<1>5. SW!ResetShared <=> ResetShared
  BY DEF SW!ResetShared, ResetShared
<1>6. SW!TimePasses <=> TimePasses
  BY DEF SW!TimePasses, TimePasses
<1>7. (SW!IsLocked(p) <=> IsLocked(p)) /\ SW!Locked = Locked
  BY DEF SW!Locked, Locked
<1>8. QED
  BY <1>1, <1>2, <1>3, <1>4, <1>5, <1>6, <1>7

(* A step that leaves the counts and the wake lock alone is a stutter. *)
LEMMA Stutters ==
  ASSUME UNCHANGED <<threadsRun, refCount, held, elapsed, scope, breached>>,
         InFlight' = InFlight, Acknowledged' = Acknowledged
  PROVE  UNCHANGED SW!vars
BY DEF SW!vars, SW!wakelockVars
-----------------------------------------------------------------------------
(* Every step of EventDelivery is a step of SharedWakelock or a stutter. *)
LEMMA RefinementStep ==
  ASSUME QueueInv, QueueInv', RestartInv, ScopeInv, BoundInv, WakeInv, [Next]_vars
  PROVE  [SW!Next]_(SW!vars)
<1> USE DEF wakelockVars, queueVars, pendingVars, sensorVars, countVars,
            WakelockRest, RpcRest, Woken
<1> DEFINE r == (MaxEvents + 1) * MaxBatches
<1>a. {InFlight, Acknowledged, refCount} \subseteq Nat
  BY BoundTypes
<1>b. /\ r \in Nat /\ refCount <= r /\ InFlight + Acknowledged <= r
      /\ begun < MaxBatches => refCount < r
      /\ begun >= 1 => MaxEvents <= r
      /\ Posting # {} => refCount + MaxEvents <= r /\ InFlight + Acknowledged + MaxEvents <= r
  BY BoundsCover
<1>c. r = (MaxEvents + 1) * MaxBatches
  OBVIOUS
<1> HIDE DEF r
<1>1. CASE IdleStep
  BY <1>1, CountsSame, Stutters DEF IdleStep
<1>2. CASE \E p \in Posters : Begin(p)
  <2>1. PICK p \in Posters : Begin(p)
    BY <1>2
  <2>2. QuietStep /\ UNCHANGED <<wakeQueue, unacked>>
    BY <2>1 DEF Begin, QuietStep
  <2>3. InFlight' = InFlight /\ Acknowledged' = Acknowledged
    BY <2>2, CountsSame
  <2>4. refCount < r
    BY <1>b, <2>1 DEF Begin
  <2>5. PICK lock \in BOOLEAN : CreateScope(p, lock)
    BY <2>1 DEF Begin, NeedsLock
  <2>6. SW!CreateScoped(p, lock)
    BY <1>c, <2>1, <2>3, <2>4, <2>5, SameWakelock DEF Begin, SW!CreateScoped
  <2>7. QED
    BY <2>6 DEF SW!Next
<1>3. CASE \E p \in Posters : CheckRunning(p)
  <2>1. QuietStep /\ UNCHANGED <<wakeQueue, unacked>>
        /\ UNCHANGED <<threadsRun, refCount, held, elapsed, scope, breached>>
    BY <1>3 DEF CheckRunning, QuietStep
  <2>2. QED
    BY <2>1, CountsSame, Stutters
<1>4. CASE \E p \in Posters : PostEvents(p)
  <2>1. PICK p \in Posters : PostEvents(p)
    BY <1>4
  <2>2. PICK left : left = Drop(ProcessEvents(batch[p]), DirectWrite(ProcessEvents(batch[p])))
    OBVIOUS
  <2>3. PICK lost : lost = IF Fits(left) THEN 0 ELSE Wakes(left)
    OBVIOUS
  <2>4. PICK n : n = NumWakeups(batch[p])
    OBVIOUS
  <2>5. InFlight' = InFlight + n - lost /\ Acknowledged' = Acknowledged /\ lost \in 0 .. n
    BY <2>1, <2>2, <2>3, <2>4, CountsPosted
  <2>6. n \in Nat /\ n <= MaxEvents /\ MaxEvents \in Nat
    BY <2>4, BatchWakeups, SizesArePositive DEF QueueInv
  <2>7. refCount + n <= r /\ InFlight + Acknowledged + n <= r
    <3>1. Posting # {}
      BY <2>1 DEF PostEvents, Posting
    <3>2. refCount + MaxEvents <= r /\ InFlight + Acknowledged + MaxEvents <= r
      BY <1>b, <3>1
    <3>3. QED
      BY <1>a, <1>b, <2>6, <3>2
  <2>8. /\ UNCHANGED <<threadsRun, scope>>
        /\ IF IsLocked(p) THEN Increment(n) ELSE UNCHANGED <<refCount, held, elapsed>>
        /\ breached' = (breached \/ (n > lost /\ ~(IsLocked(p) /\ threadsRun)))
    BY <2>1, <2>2, <2>3, <2>4 DEF PostEvents
  <2>9. ScopeOf(p) /\ scope[p] # "none" /\ batch[p] \in Batches
    BY <2>1 DEF PostEvents, ScopeInv, ScopeOf
  <2>10. CASE NeedsLock(batch[p])
    <3>1. n \in {NumWakeups(b) : b \in {c \in Batches : NeedsLock(c)}}
      BY <2>4, <2>9, <2>10
    <3>2. SW!Breach(n > lost /\ ~(SW!IsLocked(p) /\ threadsRun))
      BY <2>8, SameWakelock DEF SW!Breach
    <3>3. IF SW!IsLocked(p) THEN SW!CountBatch(n) ELSE UNCHANGED <<refCount, held, elapsed>>
      BY <2>8, SameWakelock
    <3>4. SW!Post(p, n, lost)
      BY <1>c, <2>5, <2>7, <2>8, <2>9, <3>2, <3>3 DEF SW!Post
    <3>5. QED
      BY <2>5, <3>1, <3>4 DEF SW!Next
  <2>11. CASE ~NeedsLock(batch[p])
    <3>1. n = 0
      <4>1. {i \in DOMAIN batch[p] : batch[p][i] = "wake"} = {}
        BY <2>11 DEF NeedsLock
      <4>2. QED
        BY <2>4, <4>1, FS_EmptySet DEF NumWakeups
    <3>2. ~IsLocked(p)
      BY <2>9, <2>11 DEF ScopeOf
    <3>3. lost = 0 /\ InFlight' = InFlight
      BY <1>a, <2>5, <3>1
    <3>4. breached' = breached
      <4>1. ~(n > lost)
        BY <3>1, <3>3
      <4>2. breached \in BOOLEAN
        BY DEF QueueInv, TypeOK
      <4>3. QED
        BY <2>8, <4>1, <4>2
    <3>5. QED
      BY <2>5, <2>8, <3>2, <3>3, <3>4, Stutters
  <2>12. QED
    BY <2>10, <2>11
<1>5. CASE \E p \in Posters : Finish(p)
  <2>1. PICK p \in Posters : Finish(p)
    BY <1>5
  <2>2. QuietStep /\ UNCHANGED <<wakeQueue, unacked>>
    BY <2>1 DEF Finish, QuietStep
  <2>3. InFlight' = InFlight /\ Acknowledged' = Acknowledged
    BY <2>2, CountsSame
  <2>4. SW!DestroyScoped(p)
    BY <2>1, <2>3, SameWakelock DEF Finish, SW!DestroyScoped
  <2>5. QED
    BY <2>4 DEF SW!Next
<1>6. CASE WriteOk
  <2>1. UNCHANGED <<threadsRun, refCount, held, elapsed, scope, breached>>
    BY <1>6 DEF WriteOk
  <2>2. QED
    BY <1>6, <2>1, CountsWritten, Stutters
<1>7. CASE WriteFails
  <2>1. PICK k : k = Wakes(SubSeq(FrontBatch.events, 1, NumToWrite))
    OBVIOUS
  <2>2. PICK d : d = LostReferences
    OBVIOUS
  <2>3. InFlight' = InFlight - k /\ Acknowledged' = Acknowledged /\ k \in 0 .. InFlight
    BY <1>7, <2>1, CountsGivenUp
  <2>4. /\ UNCHANGED <<threadsRun, elapsed, scope>>
        /\ Decrement(d, FALSE)
        /\ breached' = (breached \/ (threadsRun /\ d > k))
    BY <1>7, <2>1, <2>2 DEF WriteFails
  <2>5. d \in 0 .. r
    <3>1. pending \in Seq(PendingBatch) /\ pending # <<>> /\ d \in Nat
          /\ FrontBatch = pending[1]
      BY <1>7, <2>2, FrontWritten, TypeOKQueues DEF WriteFails, QueueInv
    <3>2. FrontBatch.wake <= MaxEvents /\ FrontBatch.wake \in Nat
      <4>1. 1 \in DOMAIN pending /\ pending[1] \in PendingBatch
        BY <3>1
      <4>2. QED
        BY <3>1, <4>1 DEF WakeInv, PendingBatch
    <3>3. MaxEvents <= r /\ MaxEvents \in Nat
      BY <1>b, <3>1, SizesArePositive DEF WakeInv
    <3>4. d = FrontBatch.wake \/ d = k
      <4>1. CASE FrontBatch.wake > 0 /\ Len(FrontBatch.events) > QueueSize
        <5>1. NumToWrite = QueueSize
          BY <3>1, <4>1, TypeOKQueues DEF NumToWrite, QueueInv, PendingBatch
        <5>2. QED
          BY <2>1, <2>2, <4>1, <5>1 DEF LostReferences
      <4>2. CASE ~(FrontBatch.wake > 0 /\ Len(FrontBatch.events) > QueueSize)
        BY <2>2, <4>2 DEF LostReferences
      <4>3. QED
        BY <4>1, <4>2
    <3>5. CASE d = FrontBatch.wake
      BY <1>b, <3>2, <3>3, <3>5
    <3>6. CASE d = k
      BY <1>a, <1>b, <2>3, <3>6
    <3>7. QED
      BY <3>4, <3>5, <3>6
  <2>6. SW!Lose(k, d)
    <3>1. k <= InFlight
      BY <1>a, <2>3
    <3>2. SW!Decrement(d, FALSE)
      BY <2>4, SameWakelock, Zenon
    <3>3. SW!Breach(threadsRun /\ d > k)
      BY <2>4, Zenon DEF SW!Breach
    <3>4. QED
      BY <2>3, <2>4, <3>1, <3>2, <3>3, Zenon DEF SW!Lose
  <2>7. QED
    BY <1>c, <2>3, <2>5, <2>6 DEF SW!Next
<1>8. CASE FinishWrite
  <2>1. UNCHANGED <<threadsRun, refCount, held, elapsed, scope, breached>>
    BY <1>8 DEF FinishWrite
  <2>2. QED
    BY <1>8, <2>1, CountsErased, Stutters
<1>9. CASE WakelockTimeout
  <2>1. QuietStep /\ UNCHANGED <<wakeQueue, unacked>>
    BY <1>9 DEF WakelockTimeout, QuietStep
  <2>2. InFlight' = InFlight /\ Acknowledged' = Acknowledged
    BY <2>1, CountsSame
  <2>3. SW!TimeoutReset
    BY <1>9, <2>2, SameWakelock DEF WakelockTimeout, SW!TimeoutReset, SW!Breach
  <2>4. QED
    BY <2>3 DEF SW!Next
<1>10. CASE WakelockRead
  <2>1. PICK n : n = Head(wakeQueue)
    OBVIOUS
  <2>2. InFlight' = InFlight /\ Acknowledged' = Acknowledged - n /\ n \in 0 .. Acknowledged
    BY <1>10, <2>1, CountsProcessed
  <2>3. UNCHANGED <<threadsRun, elapsed, scope, breached>> /\ Decrement(n, FALSE)
    BY <1>10, <2>1 DEF WakelockRead
  <2>4. CASE n = 0
    <3>1. Acknowledged' = Acknowledged
      BY <1>a, <2>2, <2>4
    <3>2. UNCHANGED <<refCount, held>>
      BY <1>a, <2>3, <2>4 DEF Decrement, QueueInv, TypeOK, WakelockTypeOK
    <3>3. QED
      BY <2>2, <2>3, <3>1, <3>2, Stutters
  <2>5. CASE n # 0
    <3>1. n \in 1 .. Acknowledged
      BY <1>a, <2>2, <2>5
    <3>2. SW!ProcessAck(n)
      <4>1. n <= Acknowledged
        BY <1>a, <2>2
      <4>2. SW!Decrement(n, FALSE)
        BY <2>3, SameWakelock, Zenon
      <4>3. QED
        BY <2>2, <2>3, <4>1, <4>2, Zenon DEF SW!ProcessAck
    <3>3. QED
      BY <3>1, <3>2 DEF SW!Next
  <2>6. QED
    BY <2>4, <2>5
<1>11. CASE WakelockExit
  <2>1. QuietStep /\ UNCHANGED <<wakeQueue, unacked>>
    BY <1>11 DEF WakelockExit, QuietStep
  <2>2. InFlight' = InFlight /\ Acknowledged' = Acknowledged
    BY <2>1, CountsSame
  <2>3. SW!StoppedReset
    BY <1>11, <2>2, SameWakelock DEF WakelockExit, SW!StoppedReset
  <2>4. QED
    BY <2>3 DEF SW!Next
<1>12. CASE DrainQueues
  <2>1. InFlight' = InFlight - Wakes(fmq) /\ Acknowledged' = Acknowledged
        /\ Wakes(fmq) \in 0 .. InFlight
    BY <1>12, CountsDrained
  <2>2. UNCHANGED <<threadsRun, refCount, held, elapsed, scope, breached>> /\ ~threadsRun
    BY <1>12 DEF DrainQueues, RestartInv
  <2>3. Decrement(0, FALSE)
    BY <2>2 DEF Decrement
  <2>4. SW!Breach(threadsRun /\ 0 > Wakes(fmq))
    BY <2>2 DEF SW!Breach, QueueInv, TypeOK
  <2>5. SW!Lose(Wakes(fmq), 0)
    <3>1. Wakes(fmq) <= InFlight
      BY <1>a, <2>1
    <3>2. SW!Decrement(0, FALSE)
      BY <2>3, SameWakelock, Zenon
    <3>3. QED
      BY <2>1, <2>2, <2>4, <3>1, <3>2, Zenon DEF SW!Lose
  <2>6. 0 \in 0 .. r
    BY <1>b
  <2>7. QED
    BY <1>c, <2>1, <2>5, <2>6 DEF SW!Next
<1>13. CASE JoinThreads
  <2>1. QuietStep /\ UNCHANGED <<wakeQueue, unacked>>
    BY <1>13 DEF JoinThreads, QuietStep
  <2>2. InFlight' = InFlight /\ Acknowledged' = Acknowledged
    BY <2>1, CountsSame
  <2>3. ~threadsRun
    BY <1>13 DEF JoinThreads, RestartInv
  <2>4. SW!StoppedReset
    BY <1>13, <2>2, <2>3, SameWakelock DEF JoinThreads, SW!StoppedReset
  <2>5. QED
    BY <2>4 DEF SW!Next
<1>14. CASE ReplaceQueues
  <2>1. InFlight' = 0 /\ Acknowledged' = 0
    BY <1>14, CountsReplaced
  <2>2. ~threadsRun /\ Locked = {}
    BY <1>14 DEF ReplaceQueues, RestartInv
  <2>3. SW!ClearSession
    BY <1>14, <2>1, <2>2, SameWakelock DEF ReplaceQueues, SW!ClearSession, SW!wakelockVars
  <2>4. QED
    BY <2>3 DEF SW!Next
<1>15. CASE StartThreads
  <2>1. QuietStep /\ UNCHANGED <<wakeQueue, unacked>>
    BY <1>15 DEF StartThreads, QuietStep, QueueInv
  <2>2. InFlight' = InFlight /\ Acknowledged' = Acknowledged
    BY <2>1, CountsSame
  <2>3. ~threadsRun
    BY <1>15 DEF StartThreads, RestartInv
  <2>4. SW!Start
    BY <1>15, <2>2, <2>3 DEF StartThreads, SW!Start
  <2>5. QED
    BY <2>4 DEF SW!Next
<1>16. CASE StopThreads
  <2>1. QuietStep /\ UNCHANGED <<wakeQueue, unacked>>
    BY <1>16 DEF StopThreads, QuietStep
  <2>2. InFlight' = InFlight /\ Acknowledged' = Acknowledged
    BY <2>1, CountsSame
  <2>3. UNCHANGED <<refCount, held, elapsed, scope, breached>> /\ threadsRun' = FALSE
    BY <1>16 DEF StopThreads
  <2>4. CASE threadsRun
    <3>1. SW!Stop
      BY <2>2, <2>3, <2>4 DEF SW!Stop
    <3>2. QED
      BY <3>1 DEF SW!Next
  <2>5. CASE ~threadsRun
    <3>1. threadsRun' = threadsRun
      BY <2>3, <2>5 DEF QueueInv, TypeOK, WakelockTypeOK
    <3>2. QED
      BY <2>2, <2>3, <3>1, Stutters
  <2>6. QED
    BY <2>4, <2>5
<1>17. CASE FrameworkRead
  <2>1. UNCHANGED <<threadsRun, refCount, held, elapsed, scope, breached>>
    BY <1>17 DEF FrameworkRead
  <2>2. QED
    BY <1>17, <2>1, CountsRead, Stutters
<1>18. CASE FrameworkAck
  <2>1. QuietStep /\ UNCHANGED <<threadsRun, refCount, held, elapsed, scope, breached>>
    BY <1>18 DEF FrameworkAck, QuietStep
  <2>2. PICK n \in 1 .. unacked : unacked' = unacked - n /\ wakeQueue' = Append(wakeQueue, n)
    BY <1>18 DEF FrameworkAck
  <2>3. InFlight' = InFlight - n /\ Acknowledged' = Acknowledged + n /\ n \in 1 .. InFlight
    BY <2>1, <2>2, CountsAcked
  <2>4. SW!Acknowledge(n)
    BY <1>a, <2>1, <2>3 DEF SW!Acknowledge, SW!wakelockVars
  <2>5. QED
    BY <2>3, <2>4 DEF SW!Next
<1>19. CASE Tick
  <2>1. QuietStep /\ UNCHANGED <<wakeQueue, unacked>>
    BY <1>19 DEF Tick, TimePasses, QuietStep
  <2>2. InFlight' = InFlight /\ Acknowledged' = Acknowledged
    BY <2>1, CountsSame
  <2>3. SW!Tick
    BY <1>19, <2>2, SameWakelock DEF Tick, SW!Tick
  <2>4. QED
    BY <2>3 DEF SW!Next
<1>20. QED
  BY <1>1, <1>2, <1>3, <1>4, <1>5, <1>6, <1>7, <1>8, <1>9, <1>10, <1>11, <1>12, <1>13,
     <1>14, <1>15, <1>16, <1>17, <1>18, <1>19, MostStepsIdle

(* The initial states are initial states of SharedWakelock. *)
LEMMA RefinementInit ==
  ASSUME Init
  PROVE  SW!Init /\ BoundInv /\ WakeInv
<1>1. /\ fmq = <<>> /\ wakeQueue = <<>> /\ pending = <<>> /\ unacked = 0
      /\ post = [p \in Posters |-> "idle"] /\ begun = 0
  BY DEF Init
<1>2. Unwritten = <<>>
  BY <1>1 DEF Unwritten
<1>3. QueueInv
  BY DeliveryInit DEF DeliveryInv
<1>4. Counts
  BY <1>3, CountsAre DEF QueueInv
<1>5. InFlight = 0 /\ Acknowledged = 0
  BY <1>1, <1>2, <1>4, WakesEmpty, WakesOfEmpty, AcksOfEmpty DEF Counts
<1>6. SW!Init
  BY <1>5 DEF Init, WakelockInit, SW!Init, SW!WakelockInit
<1>7. Posting = {} /\ Cardinality(Posting) = 0
  BY <1>1, FS_EmptySet DEF Posting
<1>8. refCount = 0
  BY DEF Init, WakelockInit
<1>9. BoundInv
  BY <1>1, <1>5, <1>7, <1>8, SizesArePositive DEF BoundInv
<1>10. WakeInv
  BY <1>1, <1>7 DEF WakeInv
<1>11. QED
  BY <1>6, <1>9, <1>10

(* No count passes the bound that SharedWakelock is given: every reference  *)
(* and every wake-up event belongs to a batch that was begun.               *)
THEOREM BoundsInvariant == Spec => [](BoundInv /\ WakeInv)
<1>1. Init => BoundInv /\ WakeInv
  BY RefinementInit
<1>2. DeliveryInv /\ DeliveryInv' /\ BoundInv /\ WakeInv /\ [Next]_vars
      => (BoundInv /\ WakeInv)'
  BY BoundInductive, WakeInductive DEF DeliveryInv
<1>3. QED
  BY <1>1, <1>2, DeliveryInvariant, PTL DEF Spec

(* The threads, the FMQs and the pending queue of HalProxy.cpp implement the *)
(* wake lock of SharedWakelock: every order of posting, writing, giving up, *)
(* acknowledging, timing out and initializing is one that it allows.        *)
THEOREM SharedWakelockImplemented == Spec => ImplementsSharedWakelock
<1>1. Init => SW!Init
  BY RefinementInit
<1>2. DeliveryInv /\ DeliveryInv' /\ BoundInv /\ WakeInv /\ [Next]_vars
      => [SW!Next]_(SW!vars)
  BY RefinementStep DEF DeliveryInv
<1>3. QED
  BY <1>1, <1>2, DeliveryInvariant, BoundsInvariant, PTL
     DEF Spec, ImplementsSharedWakelock, SW!Spec

-----------------------------------------------------------------------------
(* The theorems of SharedWakelock_proofs, about the counts of EventDelivery. *)
(* Those about SharedWakelock do not mention the clock of TimedWakelock,     *)
(* which that module treats as well: it stands still here.                   *)
SWP == INSTANCE SharedWakelock_proofs WITH
         WakeCounts <- {NumWakeups(b) : b \in {c \in Batches : NeedsLock(c)}},
         MaxRefs    <- (MaxEvents + 1) * MaxBatches,
         inFlight   <- InFlight,
         acks       <- Acknowledged,
         Timeout <- 0, MaxLag <- 0, MaxTime <- 0, now <- 0, startTime <- 0, resetTime <- 0,
         createdAt <- [p \in Posters |-> 0], deadline <- 0, lag <- 0, since <- 0

(* It is the same specification as SW: action by action, ... *)
LEMMA SameActions ==
  ASSUME NEW p, NEW x, NEW y
  PROVE  /\ SWP!CreateScoped(p, x) <=> SW!CreateScoped(p, x)
         /\ SWP!Post(p, x, y) <=> SW!Post(p, x, y)
         /\ SWP!DestroyScoped(p) <=> SW!DestroyScoped(p)
         /\ SWP!Lose(x, y) <=> SW!Lose(x, y)
         /\ SWP!Acknowledge(x) <=> SW!Acknowledge(x)
         /\ SWP!ProcessAck(x) <=> SW!ProcessAck(x)
         /\ SWP!TimeoutReset <=> SW!TimeoutReset
         /\ SWP!Stop <=> SW!Stop
         /\ SWP!StoppedReset <=> SW!StoppedReset
         /\ SWP!ClearSession <=> SW!ClearSession
         /\ SWP!Start <=> SW!Start
         /\ SWP!Tick <=> SW!Tick
<1> USE DEF SW!Increment, SWP!Increment, SW!Decrement, SWP!Decrement,
            SW!IsLocked, SWP!IsLocked
<1>1. SWP!CreateScoped(p, x) <=> SW!CreateScoped(p, x)
  BY DEF SW!CreateScoped, SWP!CreateScoped, SW!CreateScope, SWP!CreateScope
<1>2. SWP!Post(p, x, y) <=> SW!Post(p, x, y)
  BY DEF SW!Post, SWP!Post, SW!CountBatch, SWP!CountBatch, SW!Breach, SWP!Breach
<1>3. SWP!DestroyScoped(p) <=> SW!DestroyScoped(p)
  BY DEF SW!DestroyScoped, SWP!DestroyScoped, SW!DestroyScope, SWP!DestroyScope
<1>4. SWP!Lose(x, y) <=> SW!Lose(x, y)
  BY DEF SW!Lose, SWP!Lose, SW!Breach, SWP!Breach
<1>5. SWP!Acknowledge(x) <=> SW!Acknowledge(x)
  BY DEF SW!Acknowledge, SWP!Acknowledge, SW!wakelockVars, SWP!wakelockVars
<1>6. SWP!ProcessAck(x) <=> SW!ProcessAck(x)
  BY DEF SW!ProcessAck, SWP!ProcessAck
<1>7. SWP!TimeoutReset <=> SW!TimeoutReset
  BY DEF SW!TimeoutReset, SWP!TimeoutReset, SW!ResetShared, SWP!ResetShared,
         SW!Breach, SWP!Breach
<1>8. SWP!Stop <=> SW!Stop
  BY DEF SW!Stop, SWP!Stop
<1>9. SWP!StoppedReset <=> SW!StoppedReset
  BY DEF SW!StoppedReset, SWP!StoppedReset, SW!ResetShared, SWP!ResetShared
<1>10. SWP!ClearSession <=> SW!ClearSession
  BY DEF SW!ClearSession, SWP!ClearSession, SW!Locked, SWP!Locked, SW!wakelockVars,
         SWP!wakelockVars
<1>11. SWP!Start <=> SW!Start
  BY DEF SW!Start, SWP!Start
<1>12. SWP!Tick <=> SW!Tick
  BY DEF SW!Tick, SWP!Tick, SW!TimePasses, SWP!TimePasses
<1>13. QED
  BY <1>1, <1>2, <1>3, <1>4, <1>5, <1>6, <1>7, <1>8, <1>9, <1>10, <1>11, <1>12

(* ... and so in its initial states, its steps and what it promises. *)
LEMMA SameSpecification ==
  /\ SWP!Init <=> SW!Init
  /\ [SWP!Next]_(SWP!vars) <=> [SW!Next]_(SW!vars)
  /\ SWP!WakeEventsProtected <=> SW!WakeEventsProtected
<1>1. SWP!Init <=> SW!Init
  BY DEF SWP!Init, SW!Init, SWP!WakelockInit, SW!WakelockInit
<1>2. SWP!Next <=> SW!Next
  BY SameActions DEF SWP!Next, SW!Next
<1>3. (UNCHANGED SWP!vars) <=> (UNCHANGED SW!vars)
  BY DEF SWP!vars, SW!vars, SWP!wakelockVars, SW!wakelockVars
<1>4. SWP!WakeEventsProtected <=> SW!WakeEventsProtected
  BY DEF SWP!WakeEventsProtected, SW!WakeEventsProtected
<1>5. QED
  BY <1>1, <1>2, <1>3, <1>4

(* Its assumptions on the constants hold. *)
LEMMA SharedWakelockAssumed ==
  /\ SWP!IsFiniteSet(Posters)
  /\ {NumWakeups(b) : b \in {c \in Batches : NeedsLock(c)}} \subseteq Nat
  /\ (MaxEvents + 1) * MaxBatches \in Nat
  /\ {0, 0, 0} \subseteq Nat
<1>1. SWP!IsFiniteSet(Posters)
  BY PostersFinite DEF SWP!IsFiniteSet, IsFiniteSet
<1>2. \A b \in Batches : NumWakeups(b) \in Nat
  BY BatchesAreEvents, NumWakeupsType
<1>3. (MaxEvents + 1) * MaxBatches \in Nat
  BY SizesArePositive
<1>4. QED
  BY <1>1, <1>2, <1>3

(* The device stays awake for the events themselves: while a wake-up event  *)
(* is in the FMQ, waits in mPendingWriteEventsQueue, was read and not       *)
(* acknowledged, or was acknowledged and the acknowledgement not processed, *)
(* the kernel wake lock is held, unless the code gave references away.      *)
THEOREM DeviceStaysAwake == Spec => []SW!WakeEventsProtected
<1>1. SWP!Spec => []SWP!WakeEventsProtected
  BY SharedWakelockAssumed, SWP!Protected
<1>2. /\ SWP!Init <=> SW!Init
      /\ [SWP!Next]_(SWP!vars) <=> [SW!Next]_(SW!vars)
      /\ SWP!WakeEventsProtected <=> SW!WakeEventsProtected
  BY SameSpecification
<1>3. SW!Spec => SWP!Spec
  BY <1>2, PTL DEF SW!Spec, SWP!Spec
<1>4. QED
  BY <1>1, <1>2, <1>3, SharedWakelockImplemented, PTL DEF ImplementsSharedWakelock
=============================================================================
