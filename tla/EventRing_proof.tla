-------------------------- MODULE EventRing_proof --------------------------
(***************************************************************************)
(* The ring of EventRing implements the bounded queue of EventFifo, for    *)
(* every set of connection threads and every number of slots.              *)
(***************************************************************************)
EXTENDS EventRing, SequenceTheorems, TLAPS

\* What a thread inside the lock knows about the lock, the ring and its own
\* event.
LocalsOK ==
  /\ GameThread \in event_lock => event_lock = {GameThread}
  /\ \A p \in Players :
       /\ pc[p] # "idle" => arg[p] \in Event
       /\ pc[p] = "stored" => /\ NextPos(event_rear) # event_front
                              /\ event_queue[event_rear] = arg[p]

RingInv == RingTypeOK /\ MutualExclusion /\ LocalsOK

\* Moving a position on by one wraps at the last slot (room_manager.c:419
\* and :702): the remainder is the position itself anywhere else.
LEMMA NextPosWraps ==
  ASSUME NEW i \in Slots
  PROVE  /\ NextPos(i) \in Slots
         /\ NextPos(i) = IF i = MaxEvents - 1 THEN 0 ELSE i + 1
  BY RingAssumption DEF NextPos, Slots

\* The waiting events and the slots they are in stay within the ring.
LEMMA SlotsOfContents ==
  ASSUME event_front \in Slots, event_rear \in Slots
  PROVE  /\ Waiting \in 0 .. MaxEvents - 1
         /\ \A k \in 0 .. Waiting : Slot(k) \in Slots
         /\ Slot(Waiting) = event_rear
         /\ \A k \in 0 .. Waiting - 1 : Slot(k) # event_rear
         /\ NextPos(event_rear) = event_front <=> Waiting = MaxEvents - 1
  BY RingAssumption, NextPosWraps DEF Slots, Waiting, Slot

----------------------------------------------------------------------------
(* The inductive invariant.                                                *)

\* The empty ring.
LEMMA InitEstablishesRingInv == RingInit => RingInv
  BY RingAssumption
  DEF RingInit, RingInv, RingTypeOK, MutualExclusion, LocalsOK, Slots,
      ThreadState

\* No step of a call breaks it.
LEMMA NextPreservesRingInv == RingInv /\ [RingNext]_ringVars => RingInv'
<1> SUFFICES ASSUME RingInv, [RingNext]_ringVars
             PROVE  RingInv'
  OBVIOUS
<1> USE RingAssumption DEF RingInv, RingTypeOK, MutualExclusion, LocalsOK,
        ThreadState, Lock, Unlock
<1>1. ASSUME NEW p \in Players, NEW e \in Event, EnterEnqueue(p, e)
      PROVE  RingInv'
  BY <1>1 DEF EnterEnqueue
<1>2. ASSUME NEW p \in Players, RefuseWhenFull(p)
      PROVE  RingInv'
  BY <1>2 DEF RefuseWhenFull
<1>3. ASSUME NEW p \in Players, Store(p)
      PROVE  RingInv'
  BY <1>3 DEF Store
<1>4. ASSUME NEW p \in Players, Publish(p)
      PROVE  RingInv'
  <2>1. event_rear' \in Slots
    BY <1>4, NextPosWraps DEF Publish
  <2> QED
    BY <1>4, <2>1 DEF Publish
<1>5. CASE EnterDequeue
  BY <1>5 DEF EnterDequeue
<1>6. CASE FindEmpty
  BY <1>6 DEF FindEmpty
<1>7. CASE Take
  <2>1. event_front' \in Slots
    BY <1>7, NextPosWraps DEF Take
  <2> QED
    BY <1>7, <2>1 DEF Take
<1>8. CASE UNCHANGED ringVars
  BY <1>8 DEF ringVars
<1> QED
  BY <1>1, <1>2, <1>3, <1>4, <1>5, <1>6, <1>7, <1>8
  DEF RingNext, Dequeue, Enqueue

\* The state of the ring and of its threads has the expected types, and the
\* lock keeps the threads apart, in every reachable state.
THEOREM RingInvariance == RingSpec => []RingInv
<1>1. RingInit => RingInv
  BY InitEstablishesRingInv
<1>2. RingInv /\ [RingNext]_ringVars => RingInv'
  BY NextPreservesRingInv
<1> QED
  BY <1>1, <1>2, PTL DEF RingSpec

\* Types of the ring, for every number of slots and of threads.
THEOREM RingTypeCorrect == RingSpec => []RingTypeOK
<1>1. RingInv => RingTypeOK
  BY DEF RingInv
<1> QED
  BY <1>1, RingInvariance, PTL

----------------------------------------------------------------------------
(* Refinement.                                                             *)

\* Contents is a sequence of at most MaxEvents - 1 values.
LEMMA ContentsIsSeq ==
  ASSUME RingInv
  PROVE  /\ Contents \in Seq(Event \cup {NoEvent})
         /\ Len(Contents) = Waiting
         /\ Waiting \in 0 .. MaxEvents - 1
  BY SlotsOfContents DEF RingInv, RingTypeOK, Contents

\* The empty ring is the empty queue.
LEMMA InitImplementsFifo == RingInit => Fifo!FifoInit
  BY RingAssumption
  DEF RingInit, Fifo!FifoInit, Contents, Waiting

\* Filling the slot at event_rear touches no waiting event.
LEMMA StoreIsInvisible ==
  ASSUME RingInv, NEW p \in Players, Store(p)
  PROVE  UNCHANGED <<Contents, reply, ev>>
<1>1. \A k \in 1 .. Waiting : /\ Slot(k - 1) \in Slots
                              /\ Slot(k - 1) # event_rear
  BY SlotsOfContents, ContentsIsSeq DEF RingInv, RingTypeOK
<1>2. Waiting' = Waiting /\ \A k \in 1 .. Waiting : Slot(k - 1)' = Slot(k - 1)
  BY DEF Store, Waiting, Slot
<1>3. \A k \in 1 .. Waiting :
        event_queue'[Slot(k - 1)] = event_queue[Slot(k - 1)]
  BY <1>1 DEF Store, RingInv, RingTypeOK
<1> QED
  BY <1>2, <1>3 DEF Store, Contents

\* Moving event_rear on appends the stored event to the contents.
LEMMA PublishPuts ==
  ASSUME RingInv, NEW p \in Players, Publish(p)
  PROVE  Fifo!Put(p, arg[p])
<1>1. /\ event_rear \in Slots /\ event_front \in Slots
      /\ NextPos(event_rear) # event_front
      /\ event_queue[event_rear] = arg[p]
  BY DEF RingInv, RingTypeOK, LocalsOK, Publish
<1>2. /\ Waiting \in 0 .. MaxEvents - 2
      /\ Slot(Waiting) = event_rear
  BY <1>1, SlotsOfContents, RingAssumption
<1>3. Waiting' = Waiting + 1
  BY <1>1, NextPosWraps, RingAssumption DEF Publish, Waiting, Slots
<1>4. \A k \in 1 .. Waiting + 1 :
        /\ Slot(k - 1)' = Slot(k - 1)
        /\ event_queue' = event_queue
  BY DEF Publish, Slot
<1>5. Contents' = [k \in 1 .. Waiting + 1 |-> event_queue[Slot(k - 1)]]
  BY <1>3, <1>4 DEF Contents
<1>6. Append(Contents, arg[p])
        = [k \in 1 .. Waiting + 1 |->
             IF k <= Waiting THEN Contents[k] ELSE arg[p]]
  BY ContentsIsSeq DEF RingInv, RingTypeOK
<1>7. Contents' = Append(Contents, arg[p])
  <2>1. ASSUME NEW k \in 1 .. Waiting + 1
        PROVE  event_queue[Slot(k - 1)]
                 = IF k <= Waiting THEN Contents[k] ELSE arg[p]
    <3>1. CASE k <= Waiting
      BY <1>2, <3>1 DEF Contents
    <3>2. CASE ~(k <= Waiting)
      <4>1. k - 1 = Waiting
        BY <1>2, <3>2
      <4> QED
        BY <1>1, <1>2, <3>2, <4>1
    <3> QED
      BY <3>1, <3>2
  <2> QED
    BY <1>5, <1>6, <2>1
<1>8. Len(Contents) < MaxEvents - 1
  BY <1>2, ContentsIsSeq, RingAssumption
<1> QED
  BY <1>7, <1>8 DEF Publish, Fifo!Put

\* A refused call finds the queue full.
LEMMA RefusalRefuses ==
  ASSUME RingInv, NEW p \in Players, RefuseWhenFull(p)
  PROVE  Fifo!Refuse(p)
<1>1. Len(Contents) = MaxEvents - 1
  BY SlotsOfContents, ContentsIsSeq
  DEF RingInv, RingTypeOK, RefuseWhenFull
<1>2. Contents' = Contents
  BY DEF RefuseWhenFull, Contents, Waiting, Slot
<1> QED
  BY <1>1, <1>2 DEF RefuseWhenFull, Fifo!Refuse

\* Moving event_front on drops the oldest waiting event.
LEMMA TakeGets ==
  ASSUME RingInv, Take
  PROVE  Fifo!Get
<1>1. /\ event_rear \in Slots /\ event_front \in Slots
      /\ event_front # event_rear
      /\ event_front' = NextPos(event_front)
      /\ UNCHANGED <<event_queue, event_rear>>
  BY DEF RingInv, RingTypeOK, Take
<1>2. Waiting \in 1 .. MaxEvents - 1 /\ Waiting' = Waiting - 1
  BY <1>1, NextPosWraps, SlotsOfContents, RingAssumption DEF Waiting, Slots
<1>3. \A k \in 1 .. Waiting - 1 : Slot(k - 1)' = Slot(k)
  BY <1>1, <1>2, NextPosWraps, RingAssumption DEF Slot, Slots
<1>4. Slot(0) = event_front
  BY <1>1, RingAssumption DEF Slot, Slots
<1>5. Contents # <<>> /\ Head(Contents) = event_queue[event_front]
  BY <1>2, <1>4, ContentsIsSeq DEF Contents
<1>6. /\ Tail(Contents) \in Seq(Event \cup {NoEvent})
      /\ Len(Tail(Contents)) = Waiting - 1
      /\ \A k \in 1 .. Waiting - 1 : Tail(Contents)[k] = Contents[k + 1]
  BY <1>5, ContentsIsSeq, HeadTailProperties
<1>7. Contents' = [k \in 1 .. Waiting - 1 |-> event_queue[Slot(k)]]
  BY <1>1, <1>2, <1>3 DEF Contents
<1>8. Contents' = Tail(Contents)
  <2>1. \A k \in 1 .. Waiting - 1 :
          Contents'[k] = event_queue[Slot(k)] /\ Contents[k + 1] = Contents'[k]
    BY <1>2, <1>7 DEF Contents
  <2>2. Contents' \in Seq(Event \cup {NoEvent}) /\ Len(Contents') = Waiting - 1
    <3>1. \A k \in 1 .. Waiting - 1 : Contents[k + 1] \in Event \cup {NoEvent}
      BY <1>2, ContentsIsSeq
    <3> QED
      BY <1>2, <1>7, <2>1, <3>1
  <2> QED
    BY <1>6, <2>1, <2>2, SeqEqual
<1> QED
  BY <1>5, <1>8 DEF Take, Fifo!Get

\* Every step is one of the queue or leaves the queue alone.
LEMMA StepImplementsFifo ==
  ASSUME RingInv, [RingNext]_ringVars
  PROVE  [Fifo!FifoNext]_(Fifo!fifoVars)
<1> USE DEF Fifo!FifoNext, Fifo!fifoVars
<1>1. ASSUME NEW p \in Players, NEW e \in Event, EnterEnqueue(p, e)
      PROVE  UNCHANGED Fifo!fifoVars
  BY <1>1 DEF EnterEnqueue, Contents, Waiting, Slot
<1>2. ASSUME NEW p \in Players, RefuseWhenFull(p)
      PROVE  Fifo!FifoNext
  BY <1>2, RefusalRefuses
<1>3. ASSUME NEW p \in Players, Store(p)
      PROVE  UNCHANGED Fifo!fifoVars
  BY <1>3, StoreIsInvisible
<1>4. ASSUME NEW p \in Players, Publish(p)
      PROVE  Fifo!FifoNext
  <2>1. arg[p] \in Event
    BY <1>4 DEF RingInv, LocalsOK, Publish
  <2> QED
    BY <1>4, <2>1, PublishPuts
<1>5. CASE EnterDequeue \/ FindEmpty
  BY <1>5 DEF EnterDequeue, FindEmpty, Contents, Waiting, Slot
<1>6. CASE Take
  BY <1>6, TakeGets
<1>7. CASE UNCHANGED ringVars
  BY <1>7 DEF ringVars, Contents, Waiting, Slot
<1> QED
  BY <1>1, <1>2, <1>3, <1>4, <1>5, <1>6, <1>7
  DEF RingNext, Dequeue, Enqueue

\* enqueue_game_event and the dequeue at the head of run_game_session's loop
\* are a bounded FIFO queue of MaxEvents - 1 events, however their steps
\* interleave.
THEOREM RingImplementsFifo == RingSpec => ImplementsFifo
<1>1. RingInit => Fifo!FifoInit
  BY InitImplementsFifo
<1>2. RingInv /\ [RingNext]_ringVars => [Fifo!FifoNext]_(Fifo!fifoVars)
  BY StepImplementsFifo
<1> QED
  BY <1>1, <1>2, RingInvariance, PTL
  DEF RingSpec, ImplementsFifo, Fifo!FifoSpec

----------------------------------------------------------------------------
(* What waits was sent.                                                    *)

\* A step of the bounded queue puts a player's event or takes one away, so the
\* sequence keeps its type.
LEMMA FifoStepKeepsEvents ==
  ASSUME RingInv, NoEmptySlotWaits, [RingNext]_ringVars
  PROVE  Contents' \in Seq(Event)
<1>1. Contents \in Seq(Event)
  BY ContentsIsSeq DEF NoEmptySlotWaits, Contents
<1>2. CASE \E p \in Players : \E e \in Event : Fifo!Put(p, e)
  BY <1>1, <1>2 DEF Fifo!Put
<1>3. CASE Fifo!Get
  BY <1>1, <1>3 DEF Fifo!Get
<1>4. CASE Contents' = Contents
  BY <1>1, <1>4
<1> QED
  BY <1>2, <1>3, <1>4, StepImplementsFifo
  DEF Fifo!FifoNext, Fifo!fifoVars, Fifo!Refuse

\* The game thread never dequeues the EVENT_NONE of a slot nobody filled
\* (room_manager.c:418, :709).
THEOREM WaitingSlotsAreFilled == RingSpec => []NoEmptySlotWaits
<1>1. RingInit => NoEmptySlotWaits
  BY DEF RingInit, NoEmptySlotWaits, Waiting
<1>2. ASSUME RingInv, RingInv', NoEmptySlotWaits, [RingNext]_ringVars
      PROVE  NoEmptySlotWaits'
  <2>1. Waiting' \in Nat
    <3>1. event_front' \in Slots /\ event_rear' \in Slots
      BY <1>2 DEF RingInv, RingTypeOK
    <3>2. ASSUME NEW f \in Slots, NEW r \in Slots
          PROVE  (IF f <= r THEN r - f ELSE r - f + MaxEvents) \in Nat
      BY RingAssumption DEF Slots
    <3> QED
      BY <3>1, <3>2 DEF Waiting
  <2>2. Len(Contents') = Waiting'
    BY <2>1 DEF Contents
  <2> QED
    BY <1>2, <2>2, FifoStepKeepsEvents DEF NoEmptySlotWaits
<1>3. RingInv /\ RingInv' /\ NoEmptySlotWaits /\ [RingNext]_ringVars
        => NoEmptySlotWaits'
  BY <1>2
<1> QED
  BY <1>1, <1>3, RingInvariance, PTL DEF RingSpec
=============================================================================
