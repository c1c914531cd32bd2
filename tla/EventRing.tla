----------------------------- MODULE EventRing -----------------------------
(***************************************************************************)
(* The event queue of a GameSession (room_manager.h, room_manager.c): a    *)
(* ring of MaxEvents slots, event_front and event_rear, guarded by         *)
(* event_lock.  One slot always stays empty, so that front = rear means    *)
(* "empty".                                                                *)
(*                                                                         *)
(* The connection thread of every player runs enqueue_game_event, one call *)
(* at a time; the game thread polls with the head of run_game_session's    *)
(* loop.  The steps of a call are separate actions, so that every          *)
(* interleaving the lock has to exclude is one the model could take.       *)
(***************************************************************************)
EXTENDS Integers, Sequences

CONSTANTS Players,     \* the connection threads
          GameThread,  \* the one thread that dequeues
          Event,       \* the events the players send
          NoEvent,     \* EVENT_NONE: a slot after memset(session, 0, ...)
          MaxEvents    \* MAX_EVENTS (64)

ASSUME RingAssumption ==
  /\ MaxEvents \in Nat \ {0}
  /\ GameThread \notin Players
  /\ NoEvent \notin Event

VARIABLES event_queue,   \* the slots 0 .. MaxEvents - 1
          event_front,   \* the slot to dequeue next
          event_rear,    \* the slot to fill next
          event_lock,    \* the threads inside the lock
          pc,            \* pc[p]: where p is in enqueue_game_event
          arg,           \* arg[p]: the event p enqueues
          reply,         \* reply[p]: what its last call returned
          ev             \* the game thread's local: the event dequeued last

ringVars == <<event_queue, event_front, event_rear, event_lock,
              pc, arg, reply, ev>>

Slots == 0 .. MaxEvents - 1

\* Mutant: the position does not wrap.
NextPosUnwrapped(i) == i + 1

\* (i + 1) % MAX_EVENTS
NextPos(i) == (i + 1) % MaxEvents

RingInit ==
  /\ event_queue = [i \in Slots |-> NoEvent]
  /\ event_front = 0
  /\ event_rear = 0
  /\ event_lock = {}
  /\ pc = [p \in Players |-> "idle"]
  /\ arg = [p \in Players |-> NoEvent]
  /\ reply = [p \in Players |-> "none"]
  /\ ev = NoEvent

----------------------------------------------------------------------------
(* enqueue_game_event, called by the connection thread of p.               *)

\* Mutant: no mutex, every thread walks in.
LockNothing(t) == event_lock' = event_lock \cup {t}

\* pthread_mutex_lock(&event_lock), free or not at all.
Lock(t) ==
  /\ event_lock = {}
  /\ event_lock' = {t}

Unlock(t) == event_lock' = event_lock \ {t}

\* p has read a CHAT, HINT or ANSWER line and enters the queue.
EnterEnqueue(p, e) ==
  /\ pc[p] = "idle"
  /\ Lock(p)
  /\ pc' = [pc EXCEPT ![p] = "entered"]
  /\ arg' = [arg EXCEPT ![p] = e]
  /\ UNCHANGED <<event_queue, event_front, event_rear, reply, ev>>

\* next_pos == event_front: the call returns false, EVENT_QUEUE_FULL.
RefuseWhenFull(p) ==
  /\ pc[p] = "entered"
  /\ NextPos(event_rear) = event_front
  /\ reply' = [reply EXCEPT ![p] = "full"]
  /\ pc' = [pc EXCEPT ![p] = "idle"]
  /\ Unlock(p)
  /\ UNCHANGED <<event_queue, event_front, event_rear, arg, ev>>

\* Mutant: the queue is not tested for being full.
StoreUntested(p) ==
  /\ pc[p] = "entered"
  /\ event_queue' = [event_queue EXCEPT ![event_rear] = arg[p]]
  /\ pc' = [pc EXCEPT ![p] = "stored"]
  /\ UNCHANGED <<event_front, event_rear, event_lock, arg, reply, ev>>

\* event_queue[event_rear] = ev
Store(p) ==
  /\ pc[p] = "entered"
  /\ NextPos(event_rear) # event_front
  /\ event_queue' = [event_queue EXCEPT ![event_rear] = arg[p]]
  /\ pc' = [pc EXCEPT ![p] = "stored"]
  /\ UNCHANGED <<event_front, event_rear, event_lock, arg, reply, ev>>

\* event_rear = next_pos, unlock, return true
Publish(p) ==
  /\ pc[p] = "stored"
  /\ event_rear' = NextPos(event_rear)
  /\ reply' = [reply EXCEPT ![p] = "accepted"]
  /\ pc' = [pc EXCEPT ![p] = "idle"]
  /\ Unlock(p)
  /\ UNCHANGED <<event_queue, event_front, arg, ev>>

----------------------------------------------------------------------------
(* The head of the game thread's loop.                                     *)

EnterDequeue ==
  /\ Lock(GameThread)
  /\ UNCHANGED <<event_queue, event_front, event_rear, pc, arg, reply, ev>>

\* front == rear: unlock, sleep, poll again.
FindEmpty ==
  /\ GameThread \in event_lock
  /\ event_front = event_rear
  /\ Unlock(GameThread)
  /\ UNCHANGED <<event_queue, event_front, event_rear, pc, arg, reply, ev>>

\* ev = event_queue[event_front], event_front moves on, unlock.
Take ==
  /\ GameThread \in event_lock
  /\ event_front # event_rear
  /\ ev' = event_queue[event_front]
  /\ event_front' = NextPos(event_front)
  /\ Unlock(GameThread)
  /\ UNCHANGED <<event_queue, event_rear, pc, arg, reply>>

Dequeue == EnterDequeue \/ FindEmpty \/ Take

Enqueue(p) ==
  \/ \E e \in Event : EnterEnqueue(p, e)
  \/ RefuseWhenFull(p)
  \/ Store(p)
  \/ Publish(p)

RingNext == Dequeue \/ \E p \in Players : Enqueue(p)

RingSpec == RingInit /\ [][RingNext]_ringVars

----------------------------------------------------------------------------
(* Properties.                                                             *)

ThreadState == {"idle", "entered", "stored"}

\* Types of the ring's state and of the threads' locals.
RingTypeOK ==
  /\ event_queue \in [Slots -> Event \cup {NoEvent}]
  /\ event_front \in Slots
  /\ event_rear \in Slots
  /\ event_lock \in SUBSET (Players \cup {GameThread})
  /\ pc \in [Players -> ThreadState]
  /\ arg \in [Players -> Event \cup {NoEvent}]
  /\ reply \in [Players -> {"none", "accepted", "full"}]
  /\ ev \in Event \cup {NoEvent}

\* The number of events that wait, and the events themselves, oldest first:
\* the slots from event_front up to the one before event_rear.
Waiting == IF event_front <= event_rear
           THEN event_rear - event_front
           ELSE event_rear - event_front + MaxEvents

Slot(k) == IF event_front + k < MaxEvents
           THEN event_front + k
           ELSE event_front + k - MaxEvents

Contents == [k \in 1 .. Waiting |-> event_queue[Slot(k - 1)]]

\* Whoever is between lock and unlock of event_lock in enqueue_game_event is
\* the only thread there, the game thread included.
MutualExclusion ==
  \A p \in Players : pc[p] # "idle" <=> event_lock = {p}

\* A slot that waits holds an event some player sent: the game thread never
\* dequeues the EVENT_NONE of a slot nobody filled.
NoEmptySlotWaits == \A k \in 1 .. Waiting : Contents[k] \in Event

\* The ring implements the bounded queue: no event is lost, duplicated or
\* reordered, EVENT_QUEUE_FULL is answered only when MaxEvents - 1 wait.
Fifo == INSTANCE EventFifo
          WITH q <- Contents, got <- ev, Capacity <- MaxEvents - 1

ImplementsFifo == Fifo!FifoSpec
=============================================================================
