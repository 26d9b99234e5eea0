------------------------------ MODULE EventPool ------------------------------
(***************************************************************************)
(* What the button event queue promises its two users: a bounded stack of   *)
(* pending events.  The producer may put an event while a node is available *)
(* (otherwise the event is dropped), the consumer takes the newest pending  *)
(* event, keeps it while it acts on it, and then gives its node back.       *)
(***************************************************************************)
EXTENDS Integers, Sequences

CONSTANTS Event,      \* the events that can be queued
          Capacity,   \* EVENT_QUEUE_LEN
          NoEvent

VARIABLES pending,    \* the queued events, the newest last
          taken       \* the event the consumer is acting on, or NoEvent

vars == <<pending, taken>>

\* Nodes that hold no event.
Available == Capacity - Len(pending) - (IF taken = NoEvent THEN 0 ELSE 1)

Init == pending = <<>> /\ taken = NoEvent

Put == /\ Available > 0
       /\ \E e \in Event : pending' = Append(pending, e)
       /\ UNCHANGED taken

Take == /\ pending # <<>>
        /\ taken = NoEvent
        /\ taken' = pending[Len(pending)]
        /\ pending' = SubSeq(pending, 1, Len(pending) - 1)

Release == /\ taken # NoEvent
           /\ taken' = NoEvent
           /\ UNCHANGED pending

Next == Put \/ Take \/ Release

Spec == Init /\ [][Next]_vars
=============================================================================
