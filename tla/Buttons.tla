------------------------------- MODULE Buttons -------------------------------
(***************************************************************************)
(* main/esp_radio/buttons.c and its only reader, buttons_loop of addon.c.   *)
(*                                                                          *)
(* buttons_task (the producer) scans the rotary encoder and the buttons and *)
(* queues events; the addon task (the consumer) pops them, acts on them and *)
(* returns the nodes.  Pending events and free nodes are two lists linked   *)
(* through `next'; both are changed under one mutex, but each side looks at *)
(* a list head before it takes that mutex.                                  *)
(*                                                                          *)
(* One step of a process is one access to the shared lists, or one section  *)
(* of the code that touches none of them.                                   *)
(***************************************************************************)
EXTENDS Integers, Sequences, FiniteSets

CONSTANTS Node,          \* the EVENT_QUEUE_LEN nodes
          NULL,
          ButtonOrder,   \* the buttons, in the order buttons_task scans them
          HoldTime,      \* BTN_HOLDTIME_MS, in ticks of the model
          MaxNow         \* bound: the model's clock stops there

ASSUME NodeAssumption == IsFiniteSet(Node) /\ Node # {} /\ NULL \notin Node
ASSUME ButtonAssumption == ButtonOrder \in Seq(STRING) /\ ButtonOrder # <<>>
ASSUME TimeAssumption == HoldTime \in Nat /\ MaxNow \in Nat \ {0}

\* A name that ends in _m is a mutated form of the definition that follows it.

Button == {ButtonOrder[i] : i \in DOMAIN ButtonOrder}

\* Tasks, as holders of the mutex.
Producer == "buttons_task"
Consumer == "addon_task"
Nobody   == "nobody"

CW  == 16      \* DIR_CW
CCW == 32      \* DIR_CCW

\* ttable: the encoder's next state, from its state and the two pins.
ttable == [s \in 0..3 |->
             CASE s = 0 -> <<0, 1, 0, 3>>
               [] s = 1 -> <<CCW, 1, 1, 1>>
               [] s = 2 -> <<0, 0, 0, 0>>
               [] s = 3 -> <<CW, 3, 0, 3>>]

EncEvent(b)      == [button |-> b, state |-> "CLICKED"]
BtnEvent(b, st)  == [button |-> b, state |-> st]
Event == [button : Button \cup {"ENC_LESS", "ENC_MORE"},
          state  : {"PRESSED", "RELEASED", "CLICKED", "HOLD"}]

VARIABLES
  next,             \* the link of every node
  event,            \* the event stored in every node
  event_queue,      \* head of the pending list (last in, first out)
  released_events,  \* head of the list of free nodes
  lock,             \* the mutex: its holder, or Nobody
  encoder_state,
  button_times,     \* 0, or when the button went down
  now,              \* now_ms of the current scan
  idx,              \* 0: the encoder is next; i > 0: ButtonOrder[i] is next
  todo,             \* enqueue_event calls the scan still has to make
  ppc, new_ev,      \* the producer: where it is, and enqueue_event's node
  cpc, held,        \* the consumer: where it is, and its event's node
  queued, free      \* history: both lists as sequences, their head last

scanVars == <<encoder_state, button_times, now, idx>>
vars == <<next, event, event_queue, released_events, lock, encoder_state,
          button_times, now, idx, todo, ppc, new_ev, cpc, held, queued, free>>

Top(s)    == s[Len(s)]
Popped(s) == [i \in 1..(Len(s) - 1) |-> s[i]]
Index(s, n) == CHOOSE i \in DOMAIN s : s[i] = n
Elems(s)  == {s[i] : i \in DOMAIN s}
NoRepeat(s) == \A i, j \in DOMAIN s : s[i] = s[j] => i = j

\* The list that starts at `head' is the sequence s, read from its last element.
IsList(head, s) ==
  /\ head = IF s = <<>> THEN NULL ELSE Top(s)
  /\ \A i \in 1..Len(s) : next[s[i]] = IF i = 1 THEN NULL ELSE s[i - 1]

LockFree_m == TRUE
LockFree == lock = Nobody

-----------------------------------------------------------------------------
\* buttons_init: every node is on the free list, linked in some order.
Init ==
  /\ free \in {s \in [1..Cardinality(Node) -> Node] :
                 NoRepeat(s) /\ Elems(s) = Node}
  /\ next = [n \in Node |->
               IF Index(free, n) = 1 THEN NULL ELSE free[Index(free, n) - 1]]
  /\ released_events = Top(free)
  /\ event_queue = NULL /\ queued = <<>>
  /\ event \in [Node -> {BtnEvent(ButtonOrder[1], "PRESSED")}]
  /\ lock = Nobody
  /\ encoder_state = 0 /\ button_times = [b \in Button |-> 0]
  /\ now = 1 /\ idx = 0 /\ todo = <<>>
  /\ ppc = "scan" /\ new_ev = NULL
  /\ cpc = "get" /\ held = NULL

-----------------------------------------------------------------------------
(* buttons_task *)

\* One wake-up: read the time and the encoder pins, step the encoder.  With a
\* pin up the task polls the encoder only, otherwise it goes on to the buttons.
ProcessEncoder(pins) ==
  LET st == ttable[encoder_state % 16][pins + 1] IN
  /\ ppc = "scan" /\ todo = <<>> /\ idx = 0
  /\ now' \in {now, now + 1} /\ now' <= MaxNow
  /\ encoder_state' = st
  /\ todo' = CASE st = CCW -> <<EncEvent("ENC_LESS")>>
               [] st = CW  -> <<EncEvent("ENC_MORE")>>
               [] OTHER    -> <<>>
  /\ idx' = IF pins = 0 THEN 1 ELSE 0
  /\ UNCHANGED <<next, event, event_queue, released_events, lock, button_times,
                 ppc, new_ev, cpc, held, queued, free>>

\* The scan's next button, or the end of the scan.
NextIdx_m(i) == IF i > Len(ButtonOrder) THEN 0 ELSE i + 1
NextIdx(i) == IF i = Len(ButtonOrder) THEN 0 ELSE i + 1

ProcessButton(pressed) ==
  LET b == ButtonOrder[idx]
      t == button_times[b]
  IN
  /\ ppc = "scan" /\ todo = <<>> /\ idx > 0
  /\ button_times' = CASE pressed /\ t = 0   -> [button_times EXCEPT ![b] = now]
                       [] ~pressed /\ t # 0  -> [button_times EXCEPT ![b] = 0]
                       [] OTHER              -> button_times
  /\ todo' = CASE pressed /\ t = 0  -> <<BtnEvent(b, "PRESSED")>>
               [] ~pressed /\ t # 0 ->
                    <<BtnEvent(b, "RELEASED"),
                      BtnEvent(b, IF now - t > HoldTime THEN "HOLD" ELSE "CLICKED")>>
               [] OTHER -> <<>>
  /\ idx' = NextIdx(idx)
  /\ UNCHANGED <<next, event, event_queue, released_events, lock, encoder_state,
                 now, ppc, new_ev, cpc, held, queued, free>>

NoFreeNode_m == FALSE
NoFreeNode == released_events = NULL

\* enqueue_event looks at the free list before it takes the mutex; with no free
\* node the event is lost.
EnqueueCheck ==
  /\ ppc = "scan" /\ todo # <<>>
  /\ IF NoFreeNode
     THEN todo' = Tail(todo) /\ UNCHANGED ppc
     ELSE ppc' = "lock" /\ UNCHANGED todo
  /\ UNCHANGED <<next, event, event_queue, released_events, lock, scanVars,
                 new_ev, cpc, held, queued, free>>

EnqueueLock ==
  /\ ppc = "lock" /\ LockFree
  /\ lock' = Producer /\ ppc' = "pop"
  /\ UNCHANGED <<next, event, event_queue, released_events, scanVars, todo,
                 new_ev, cpc, held, queued, free>>

EnqueuePop ==
  /\ ppc = "pop"
  /\ new_ev' = released_events
  /\ released_events' = next[released_events]
  /\ free' = Popped(free)
  /\ ppc' = "link"
  /\ UNCHANGED <<next, event, event_queue, lock, scanVars, todo, cpc, held,
                 queued>>

\* The node the event is copied to.
Target_m == IF event_queue = NULL THEN new_ev ELSE event_queue
Target == new_ev

EnqueueLink ==
  /\ ppc = "link"
  /\ event' = [event EXCEPT ![Target] = Head(todo)]
  /\ next' = [next EXCEPT ![new_ev] = event_queue]
  /\ ppc' = "push"
  /\ UNCHANGED <<event_queue, released_events, lock, scanVars, todo, new_ev, cpc,
                 held, queued, free>>

EnqueuePush ==
  /\ ppc = "push"
  /\ event_queue' = new_ev
  /\ queued' = Append(queued, new_ev)
  /\ new_ev' = NULL
  /\ ppc' = "unlock"
  /\ UNCHANGED <<next, event, released_events, lock, scanVars, todo, cpc, held,
                 free>>

EnqueueUnlock ==
  /\ ppc = "unlock"
  /\ lock' = Nobody /\ ppc' = "scan" /\ todo' = Tail(todo)
  /\ UNCHANGED <<next, event, event_queue, released_events, scanVars, new_ev,
                 cpc, held, queued, free>>

-----------------------------------------------------------------------------
(* buttons_loop of the addon task *)

EventPending_m == event_queue # NULL /\ next[event_queue] # NULL
EventPending == event_queue # NULL

\* buttons_get_event looks at the queue before it takes the mutex; with an
\* empty queue buttons_loop returns and the addon task comes back later.
GetCheck ==
  /\ cpc = "get" /\ EventPending
  /\ cpc' = "lock"
  /\ UNCHANGED <<next, event, event_queue, released_events, lock, scanVars,
                 todo, ppc, new_ev, held, queued, free>>

GetLock ==
  /\ cpc = "lock" /\ LockFree
  /\ lock' = Consumer /\ cpc' = "pop"
  /\ UNCHANGED <<next, event, event_queue, released_events, scanVars, todo,
                 ppc, new_ev, held, queued, free>>

GetPop ==
  /\ cpc = "pop"
  /\ held' = event_queue
  /\ event_queue' = next[event_queue]
  /\ queued' = Popped(queued)
  /\ cpc' = "unlock"
  /\ UNCHANGED <<next, event, released_events, lock, scanVars, todo, ppc,
                 new_ev, free>>

\* What buttons_loop does with an event: act on it, then release its node.
AfterGet_m == "get"
AfterGet == "act"

GetUnlock ==
  /\ cpc = "unlock"
  /\ lock' = Nobody /\ cpc' = AfterGet
  /\ UNCHANGED <<next, event, event_queue, released_events, scanVars, todo,
                 ppc, new_ev, held, queued, free>>

\* buttons_loop acts on the event (the actions are other components' business),
\* then buttons_release_event takes the mutex.
ReleaseLock ==
  /\ cpc = "act" /\ LockFree
  /\ lock' = Consumer /\ cpc' = "link"
  /\ UNCHANGED <<next, event, event_queue, released_events, scanVars, todo,
                 ppc, new_ev, held, queued, free>>

ReleaseLink ==
  /\ cpc = "link"
  /\ next' = [next EXCEPT ![held] = released_events]
  /\ cpc' = "push"
  /\ UNCHANGED <<event, event_queue, released_events, lock, scanVars, todo, ppc,
                 new_ev, held, queued, free>>

\* The consumer's event pointer after the release.
HeldAfterRelease_m == held
HeldAfterRelease == NULL

ReleasePush ==
  /\ cpc = "push"
  /\ released_events' = held
  /\ free' = Append(free, held)
  /\ held' = HeldAfterRelease
  /\ cpc' = "done"
  /\ UNCHANGED <<next, event, event_queue, lock, scanVars, todo, ppc, new_ev,
                 queued>>

ReleaseUnlock ==
  /\ cpc = "done"
  /\ lock' = Nobody /\ cpc' = "get"
  /\ UNCHANGED <<next, event, event_queue, released_events, scanVars, todo,
                 ppc, new_ev, held, queued, free>>

-----------------------------------------------------------------------------
ProducerStep ==
  \/ \E pins \in 0..3 : ProcessEncoder(pins)
  \/ \E pressed \in BOOLEAN : ProcessButton(pressed)
  \/ EnqueueCheck \/ EnqueueLock \/ EnqueuePop \/ EnqueueLink \/ EnqueuePush
  \/ EnqueueUnlock

ConsumerStep ==
  \/ GetCheck \/ GetLock \/ GetPop \/ GetUnlock
  \/ ReleaseLock \/ ReleaseLink \/ ReleasePush \/ ReleaseUnlock

Next == ProducerStep \/ ConsumerStep

Spec == Init /\ [][Next]_vars

\* Both tasks keep running, and the FreeRTOS mutex hands over in priority
\* order, so a task that waits for it gets it.
FairSpec ==
  /\ Spec
  /\ WF_vars(EnqueueCheck) /\ WF_vars(EnqueuePop) /\ WF_vars(EnqueueLink)
  /\ WF_vars(EnqueuePush) /\ WF_vars(EnqueueUnlock) /\ SF_vars(EnqueueLock)
  /\ WF_vars(ConsumerStep) /\ SF_vars(GetLock) /\ SF_vars(ReleaseLock)

-----------------------------------------------------------------------------
(* Properties *)

TypeOK ==
  /\ next \in [Node -> Node \cup {NULL}]
  /\ event \in [Node -> Event]
  /\ event_queue \in Node \cup {NULL}
  /\ released_events \in Node \cup {NULL}
  /\ lock \in {Nobody, Producer, Consumer}
  /\ encoder_state \in {0, 1, 3, CW, CCW}
  /\ button_times \in [Button -> 0..MaxNow]
  /\ now \in 1..MaxNow
  /\ idx \in 0..Len(ButtonOrder)
  /\ todo \in Seq(Event)
  /\ ppc \in {"scan", "lock", "pop", "link", "push", "unlock"}
  /\ new_ev \in Node \cup {NULL}
  /\ cpc \in {"get", "lock", "pop", "unlock", "act", "link", "push", "done"}
  /\ held \in Node \cup {NULL}
  /\ queued \in Seq(Node)
  /\ free \in Seq(Node)

Mutex ==
  /\ ppc \in {"pop", "link", "push", "unlock"} <=> lock = Producer
  /\ cpc \in {"pop", "unlock", "link", "push", "done"} <=> lock = Consumer

\* What each task holds at each of its steps.
Hands ==
  /\ new_ev # NULL <=> ppc \in {"link", "push"}
  /\ held # NULL <=> cpc \in {"unlock", "act", "link", "push"}
  /\ ppc = "push" => next[new_ev] = event_queue
  /\ cpc = "push" => next[held] = released_events
  /\ ppc # "scan" => todo # <<>>

\* The two linked lists are the well-formed lists the histories record: no
\* interleaving of the two tasks breaks a link or makes a cycle.
ListsSound == IsList(event_queue, queued) /\ IsList(released_events, free)

\* No node of the pool is ever lost or in two places (buttons.c:90-100,
\* 233-234, 246-247): each is in exactly one list or one task's hand.
PoolConserved ==
  /\ NoRepeat(free) /\ NoRepeat(queued)
  /\ Elems(free) \cap Elems(queued) = {}
  /\ {new_ev, held} \cap (Elems(free) \cup Elems(queued)) = {}
  /\ new_ev = held => new_ev = NULL
  /\ Node = (Elems(free) \cup Elems(queued) \cup {new_ev, held}) \ {NULL}

\* Both tasks test a list head before they take the mutex (buttons.c:84, 227)
\* and dereference it after: the node they saw must still be there.
CheckedHeadStillThere ==
  /\ ppc \in {"lock", "pop"} => released_events # NULL
  /\ cpc \in {"lock", "pop"} => event_queue # NULL

\* The consumer reads its event without the mutex (addon.c:449-491): the
\* producer must not write into that node meanwhile.
HeldEventStable ==
  [][held # NULL /\ held' = held => event'[held] = event[held]]_vars

\* A queued event does not stay queued for ever once the buttons and the
\* encoder are left alone: the addon task empties the queue.
QueueDrains == <>[](todo = <<>>) => <>[](event_queue = NULL)

\* The queue implements a bounded stack of events.
Pool == INSTANCE EventPool
          WITH Capacity <- Cardinality(Node), NoEvent <- NULL,
               pending <- [i \in DOMAIN queued |-> event[queued[i]]],
               taken <- IF held = NULL THEN NULL ELSE event[held]
ImplementsPool == Pool!Spec
=============================================================================
