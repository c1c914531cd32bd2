----------------------------- MODULE EventFifo -----------------------------
(***************************************************************************)
(* What the event queue of a game session promises to the threads around   *)
(* it: a bounded first-in first-out queue.  The connection threads of the  *)
(* players put events, the game thread gets them; a put is refused only    *)
(* while the queue is full, and every accepted event is got exactly once,  *)
(* in the order of acceptance.  EventRing implements this.                 *)
(***************************************************************************)
EXTENDS Naturals, Sequences

CONSTANTS Players,   \* the connection threads that put events
          Event,     \* the events
          NoEvent,   \* what the game thread holds before its first event
          Capacity   \* how many accepted events may wait

VARIABLES q,         \* the accepted events that wait, oldest first
          reply,     \* reply[p]: how the last put of p ended
          got        \* the event the game thread got last

fifoVars == <<q, reply, got>>

FifoInit ==
  /\ q = <<>>
  /\ reply = [p \in Players |-> "none"]
  /\ got = NoEvent

Put(p, e) ==
  /\ Len(q) < Capacity
  /\ q' = Append(q, e)
  /\ reply' = [reply EXCEPT ![p] = "accepted"]
  /\ UNCHANGED got

Refuse(p) ==
  /\ Len(q) = Capacity
  /\ reply' = [reply EXCEPT ![p] = "full"]
  /\ UNCHANGED <<q, got>>

Get ==
  /\ q # <<>>
  /\ got' = Head(q)
  /\ q' = Tail(q)
  /\ UNCHANGED reply

FifoNext ==
  \/ \E p \in Players : Refuse(p) \/ \E e \in Event : Put(p, e)
  \/ Get

FifoSpec == FifoInit /\ [][FifoNext]_fifoVars
=============================================================================
