--------------------------- MODULE ButtonsProofs ---------------------------
(***************************************************************************)
(* Proofs about Buttons, for every pool of nodes and every set of buttons.  *)
(***************************************************************************)
EXTENDS Buttons, FiniteSetTheorems, TLAPS

\* The inductive invariant: typing, who owns the mutex, what each task holds,
\* and where every node is.
IInv == TypeOK /\ Mutex /\ Hands /\ ListsSound /\ PoolConserved
        /\ CheckedHeadStillThere

USE DEF LockFree, NextIdx, NoFreeNode, Target, EventPending, AfterGet,
        HeldAfterRelease

-----------------------------------------------------------------------------
\* The first of the calls still to make, and the others.
LEMMA HeadTail ==
  ASSUME NEW S, NEW s \in Seq(S), s # <<>>
  PROVE  Head(s) \in S /\ Tail(s) \in Seq(S)
OBVIOUS

\* What a pop leaves of a list.
LEMMA PoppedFacts ==
  ASSUME NEW S, NEW s \in Seq(S), s # <<>>
  PROVE  /\ Popped(s) \in Seq(S)
         /\ Len(Popped(s)) = Len(s) - 1
         /\ DOMAIN Popped(s) = 1..(Len(s) - 1)
         /\ \A i \in 1..(Len(s) - 1) : Popped(s)[i] = s[i]
         /\ Top(s) \in S
         /\ Len(s) \in Nat \ {0}
         /\ DOMAIN s = 1..Len(s)
<1>1. Len(s) \in Nat \ {0} /\ DOMAIN s = 1..Len(s)
  OBVIOUS
<1>2. Popped(s) \in Seq(S) /\ Len(Popped(s)) = Len(s) - 1
  <2>1. Popped(s) \in [1..(Len(s) - 1) -> S]
    BY <1>1 DEF Popped
  <2>2. Len(s) - 1 \in Nat
    BY <1>1
  <2> QED  BY <2>1, <2>2
<1> QED  BY <1>1, <1>2 DEF Popped, Top

\* Without repetition, the elements of a list are its top and those of the rest.
LEMMA PoppedElems ==
  ASSUME NEW S, NEW s \in Seq(S), s # <<>>, NoRepeat(s)
  PROVE  /\ NoRepeat(Popped(s))
         /\ Elems(Popped(s)) = Elems(s) \ {Top(s)}
         /\ Top(s) \in Elems(s)
<1> DEFINE p == Popped(s)
<1>1. /\ DOMAIN p = 1..(Len(s) - 1)
      /\ \A i \in 1..(Len(s) - 1) : p[i] = s[i]
      /\ Len(s) \in Nat \ {0}
      /\ DOMAIN s = 1..Len(s)
  BY PoppedFacts
<1> HIDE DEF p
<1>2. NoRepeat(p)
  BY <1>1 DEF NoRepeat
<1>3. Elems(p) = Elems(s) \ {Top(s)}
  BY <1>1 DEF Elems, NoRepeat, Top
<1>4. Top(s) \in Elems(s)
  BY <1>1 DEF Elems, Top
<1> QED  BY <1>2, <1>3, <1>4 DEF p

\* What a push adds to a list.
LEMMA PushedFacts ==
  ASSUME NEW S, NEW s \in Seq(S), NEW n \in S
  PROVE  /\ Append(s, n) \in Seq(S)
         /\ Len(Append(s, n)) = Len(s) + 1
         /\ Append(s, n) # <<>>
         /\ Top(Append(s, n)) = n
         /\ \A i \in 1..Len(s) : Append(s, n)[i] = s[i]
         /\ Elems(Append(s, n)) = Elems(s) \cup {n}
         /\ NoRepeat(s) /\ n \notin Elems(s) => NoRepeat(Append(s, n))
<1>1. /\ Append(s, n) \in Seq(S)
      /\ Len(Append(s, n)) = Len(s) + 1
      /\ \A i \in 1..Len(s) : Append(s, n)[i] = s[i]
      /\ Append(s, n)[Len(s) + 1] = n
      /\ Len(s) \in Nat
      /\ DOMAIN s = 1..Len(s)
      /\ DOMAIN Append(s, n) = 1..(Len(s) + 1)
  OBVIOUS
<1>2. Append(s, n) # <<>>
  BY <1>1
<1> QED  BY <1>1, <1>2 DEF Top, Elems, NoRepeat

-----------------------------------------------------------------------------
\* The encoder's table leads from a masked state to a masked or final state.
LEMMA EncoderStates ==
  ASSUME NEW e \in {0, 1, 3, CW, CCW}, NEW p \in 0..3
  PROVE  ttable[e % 16][p + 1] \in {0, 1, 3, CW, CCW}
<1>1. e % 16 \in {0, 1, 3}
  BY DEF CW, CCW
<1>2. p \in {0, 1, 2, 3}
  OBVIOUS
<1>3. ASSUME NEW s \in {0, 1, 3}
      PROVE  ttable[s][p + 1] \in {0, 1, 3, CW, CCW}
  <2>1. CASE s = 0
    BY <1>2, <2>1 DEF ttable, CW, CCW
  <2>2. CASE s = 1
    BY <1>2, <2>2 DEF ttable, CW, CCW
  <2>3. CASE s = 3
    BY <1>2, <2>3 DEF ttable, CW, CCW
  <2> QED  BY <2>1, <2>2, <2>3
<1> QED  BY <1>1, <1>3

LEMMA ButtonOrderFacts ==
  /\ Len(ButtonOrder) \in Nat \ {0}
  /\ \A i \in 1..Len(ButtonOrder) : ButtonOrder[i] \in Button
BY ButtonAssumption DEF Button

LEMMA InitIInv == Init => IInv
<1> SUFFICES ASSUME Init PROVE IInv
  OBVIOUS
<1> DEFINE k == Cardinality(Node)
<1>1. k \in Nat \ {0}
  BY NodeAssumption, FS_CardinalityType, FS_EmptySet
<1>2. free \in [1..k -> Node] /\ NoRepeat(free) /\ Elems(free) = Node
  BY DEF Init
<1>3. /\ free \in Seq(Node) /\ Len(free) = k /\ free # <<>>
      /\ DOMAIN free = 1..k
  BY <1>1, <1>2
<1>4. \A n \in Node : \E i \in 1..k : free[i] = n
  BY <1>2, <1>3 DEF Elems
<1>5. ASSUME NEW i \in 1..k
      PROVE  next[free[i]] = IF i = 1 THEN NULL ELSE free[i - 1]
  <2>1. Index(free, free[i]) = i
    BY <1>2, <1>3 DEF NoRepeat, Index
  <2>2. free[i] \in Node
    BY <1>2
  <2> QED  BY <2>1, <2>2 DEF Init
<1>6. next \in [Node -> Node \cup {NULL}]
  <2>1. ASSUME NEW n \in Node
        PROVE  next[n] \in Node \cup {NULL}
    <3>1. PICK i \in 1..k : free[i] = n
      BY <1>4
    <3>2. i # 1 => i - 1 \in 1..k
      BY <1>1
    <3> QED  BY <1>2, <1>5, <3>1, <3>2
  <2>2. next = [n \in Node |-> next[n]]
    BY DEF Init
  <2> QED  BY <2>1, <2>2
<1>7. TypeOK
  <2>1. event \in [Node -> Event]
    BY ButtonOrderFacts DEF Init, Event, BtnEvent
  <2>2. button_times \in [Button -> 0..MaxNow] /\ now \in 1..MaxNow
    BY TimeAssumption DEF Init
  <2>3. idx \in 0..Len(ButtonOrder)
    BY ButtonOrderFacts DEF Init
  <2>4. released_events \in Node
    BY <1>1, <1>2, <1>3 DEF Init, Top
  <2> QED  BY <1>3, <1>6, <2>1, <2>2, <2>3, <2>4 DEF Init, TypeOK
<1>8. ListsSound
  <2>1. IsList(event_queue, queued)
    BY DEF Init, IsList
  <2>2. IsList(released_events, free)
    BY <1>1, <1>3, <1>5 DEF Init, IsList
  <2> QED  BY <2>1, <2>2 DEF ListsSound
<1>9. PoolConserved
  <2>1. queued = <<>> /\ new_ev = NULL /\ held = NULL
    BY DEF Init
  <2>2. Elems(queued) = {} /\ NoRepeat(queued)
    BY <2>1 DEF Elems, NoRepeat
  <2> QED  BY <1>2, <2>1, <2>2, NodeAssumption DEF PoolConserved
<1>10. Mutex /\ Hands /\ CheckedHeadStillThere
  BY DEF Init, Mutex, Hands, CheckedHeadStillThere, Nobody, Producer, Consumer
<1> QED  BY <1>7, <1>8, <1>9, <1>10 DEF IInv

-----------------------------------------------------------------------------
\* Events the scan asks for are events.
LEMMA EventFacts ==
  /\ EncEvent("ENC_LESS") \in Event /\ EncEvent("ENC_MORE") \in Event
  /\ \A b \in Button : \A st \in {"PRESSED", "RELEASED", "CLICKED", "HOLD"} :
       BtnEvent(b, st) \in Event
BY DEF Event, EncEvent, BtnEvent

\* The steps of the producer keep the invariant.
LEMMA ProducerIInv == IInv /\ ProducerStep => IInv'
<1> SUFFICES ASSUME IInv, ProducerStep PROVE IInv'
  OBVIOUS
<1> USE DEF Nobody, Producer, Consumer
<1>1. ASSUME NEW pins \in 0..3, ProcessEncoder(pins)
      PROVE  IInv'
  <2>1. TypeOK'
    <3>1. encoder_state' \in {0, 1, 3, CW, CCW}
      BY <1>1, EncoderStates DEF IInv, TypeOK, ProcessEncoder
    <3>2. todo' \in Seq(Event)
      BY <1>1, EventFacts DEF ProcessEncoder
    <3>3. now' \in 1..MaxNow /\ idx' \in 0..Len(ButtonOrder)
      BY <1>1, ButtonOrderFacts, TimeAssumption DEF IInv, TypeOK, ProcessEncoder
    <3> QED  BY <1>1, <3>1, <3>2, <3>3 DEF IInv, TypeOK, ProcessEncoder
  <2> QED  BY <1>1, <2>1 DEF IInv, ProcessEncoder, Mutex, Hands, ListsSound,
             IsList, PoolConserved, CheckedHeadStillThere
<1>2. ASSUME NEW pressed \in BOOLEAN, ProcessButton(pressed)
      PROVE  IInv'
  <2>1. TypeOK'
    <3>1. idx \in 1..Len(ButtonOrder) /\ ButtonOrder[idx] \in Button
      BY <1>2, ButtonOrderFacts DEF IInv, TypeOK, ProcessButton
    <3>2. todo' \in Seq(Event)
      BY <1>2, <3>1, EventFacts DEF ProcessButton
    <3>3. button_times' \in [Button -> 0..MaxNow]
      <4>1. 0 \in 0..MaxNow /\ now \in 0..MaxNow
        BY TimeAssumption DEF IInv, TypeOK
      <4>2. \/ button_times' = [button_times EXCEPT ![ButtonOrder[idx]] = now]
            \/ button_times' = [button_times EXCEPT ![ButtonOrder[idx]] = 0]
            \/ button_times' = button_times
        BY <1>2 DEF ProcessButton
      <4> QED  BY <3>1, <4>1, <4>2 DEF IInv, TypeOK
    <3>4. idx' \in 0..Len(ButtonOrder)
      BY <1>2, <3>1, ButtonOrderFacts DEF ProcessButton
    <3> QED  BY <1>2, <3>2, <3>3, <3>4 DEF IInv, TypeOK, ProcessButton
  <2> QED  BY <1>2, <2>1 DEF IInv, ProcessButton, Mutex, Hands, ListsSound,
             IsList, PoolConserved, CheckedHeadStillThere
<1>3. CASE EnqueueCheck
  <2>1. todo' \in Seq(Event)
    BY <1>3, HeadTail DEF IInv, TypeOK, EnqueueCheck
  <2> QED  BY <1>3, <2>1 DEF IInv, EnqueueCheck, scanVars, TypeOK, Mutex, Hands,
             ListsSound, IsList, PoolConserved, CheckedHeadStillThere
<1>4. CASE EnqueueLock
  BY <1>4 DEF IInv, EnqueueLock, scanVars, TypeOK, Mutex, Hands,
     ListsSound, IsList, PoolConserved, CheckedHeadStillThere
<1>5. CASE EnqueuePop
  <2>1. free \in Seq(Node) /\ free # <<>> /\ released_events = Top(free)
    BY <1>5 DEF IInv, TypeOK, ListsSound, IsList, CheckedHeadStillThere, EnqueuePop
  <2>2. /\ Popped(free) \in Seq(Node) /\ Len(Popped(free)) = Len(free) - 1
        /\ \A i \in 1..(Len(free) - 1) : Popped(free)[i] = free[i]
        /\ Top(free) \in Node /\ Len(free) \in Nat \ {0}
        /\ DOMAIN Popped(free) = 1..(Len(free) - 1)
    BY <2>1, PoppedFacts
  <2>3. next[released_events] = IF Popped(free) = <<>> THEN NULL ELSE Top(Popped(free))
    BY <2>1, <2>2 DEF IInv, ListsSound, IsList, Top
  <2>4. TypeOK'
    BY <1>5, <2>1, <2>2 DEF IInv, TypeOK, EnqueuePop, scanVars
  <2>5. ListsSound'
    BY <1>5, <2>2, <2>3 DEF IInv, ListsSound, IsList, EnqueuePop
  <2>6. PoolConserved'
    <3>1. NoRepeat(free') /\ Elems(free') = Elems(free) \ {new_ev'} /\ new_ev' \in Elems(free)
      BY <1>5, <2>1, PoppedElems DEF IInv, PoolConserved, EnqueuePop
    <3>2. new_ev = NULL /\ NULL \notin Elems(free) /\ held # new_ev'
      BY <1>5, <3>1, NodeAssumption DEF IInv, TypeOK, Hands, EnqueuePop, PoolConserved
    <3> QED  BY <1>5, <3>1, <3>2 DEF IInv, PoolConserved, EnqueuePop
  <2> QED  BY <1>5, <2>1, <2>2, <2>4, <2>5, <2>6, NodeAssumption DEF IInv, EnqueuePop,
             Mutex, Hands, CheckedHeadStillThere
<1>6. CASE EnqueueLink
  <2>1. new_ev \in Node /\ new_ev \notin Elems(free) /\ new_ev \notin Elems(queued)
    BY <1>6 DEF IInv, TypeOK, Hands, PoolConserved, EnqueueLink
  <2>2. Head(todo) \in Event
    BY <1>6, HeadTail DEF IInv, TypeOK, Hands, EnqueueLink
  <2>3. TypeOK'
    BY <1>6, <2>1, <2>2 DEF IInv, TypeOK, EnqueueLink, scanVars
  <2>4. ListsSound'
    BY <1>6, <2>1 DEF IInv, TypeOK, ListsSound, IsList, EnqueueLink, Elems
  <2> QED  BY <1>6, <2>1, <2>3, <2>4 DEF IInv, TypeOK, EnqueueLink, Mutex, Hands,
             PoolConserved, CheckedHeadStillThere
<1>7. CASE EnqueuePush
  <2>1. new_ev \in Node /\ new_ev \notin Elems(queued) /\ next[new_ev] = event_queue
    BY <1>7 DEF IInv, TypeOK, Hands, PoolConserved, EnqueuePush
  <2>2. queued \in Seq(Node)
    BY DEF IInv, TypeOK
  <2>3. /\ queued' \in Seq(Node) /\ queued' # <<>> /\ Top(queued') = new_ev
        /\ Len(queued') = Len(queued) + 1
        /\ \A i \in 1..Len(queued) : queued'[i] = queued[i]
        /\ Elems(queued') = Elems(queued) \cup {new_ev}
        /\ NoRepeat(queued')
    BY <1>7, <2>1, <2>2, PushedFacts DEF IInv, PoolConserved, EnqueuePush
  <2>4. TypeOK'
    BY <1>7, <2>1, <2>3 DEF IInv, TypeOK, EnqueuePush, scanVars
  <2>5. ListsSound'
    <3>1. ASSUME NEW i \in 1..Len(queued')
          PROVE  next[queued'[i]] = IF i = 1 THEN NULL ELSE queued'[i - 1]
      <4>1. CASE i \in 1..Len(queued)
        BY <2>2, <2>3, <4>1 DEF IInv, ListsSound, IsList
      <4>2. CASE i = Len(queued) + 1
        BY <2>1, <2>2, <2>3, <4>2 DEF IInv, ListsSound, IsList, Top
      <4> QED  BY <2>2, <2>3, <4>1, <4>2
    <3> QED  BY <1>7, <2>3, <3>1 DEF IInv, ListsSound, IsList, EnqueuePush
  <2>6. PoolConserved'
    <3>1. free' = free /\ held' = held /\ new_ev' = NULL
      BY <1>7 DEF EnqueuePush
    <3>2. new_ev # NULL /\ NULL \notin Elems(queued) /\ NULL \notin Elems(free)
      BY <2>1, NodeAssumption DEF IInv, TypeOK, Elems
    <3>3. new_ev \notin Elems(free) /\ new_ev # held
      BY <3>2 DEF IInv, PoolConserved
    <3> QED  BY <2>3, <3>1, <3>2, <3>3 DEF IInv, PoolConserved
  <2>7. Mutex' /\ CheckedHeadStillThere'
    BY <1>7, <2>1, NodeAssumption DEF IInv, EnqueuePush, Mutex, CheckedHeadStillThere
  <2>8. Hands'
    BY <1>7, <2>1 DEF IInv, TypeOK, EnqueuePush, Mutex, Hands
  <2> QED  BY <2>4, <2>5, <2>6, <2>7, <2>8 DEF IInv
<1>8. CASE EnqueueUnlock
  <2>1. todo' \in Seq(Event)
    BY <1>8, HeadTail DEF IInv, TypeOK, Hands, EnqueueUnlock
  <2> QED  BY <1>8, <2>1 DEF IInv, EnqueueUnlock, scanVars, TypeOK, Mutex, Hands,
             ListsSound, IsList, PoolConserved, CheckedHeadStillThere
<1> QED  BY <1>1, <1>2, <1>3, <1>4, <1>5, <1>6, <1>7, <1>8 DEF ProducerStep

\* The steps of the consumer keep the invariant.
LEMMA ConsumerIInv == IInv /\ ConsumerStep => IInv'
<1> SUFFICES ASSUME IInv, ConsumerStep PROVE IInv'
  OBVIOUS
<1> USE DEF Nobody, Producer, Consumer
<1>1. CASE GetCheck
  BY <1>1 DEF IInv, GetCheck, scanVars, TypeOK, Mutex, Hands,
     ListsSound, IsList, PoolConserved, CheckedHeadStillThere
<1>2. CASE GetLock
  BY <1>2 DEF IInv, GetLock, scanVars, TypeOK, Mutex, Hands,
     ListsSound, IsList, PoolConserved, CheckedHeadStillThere
<1>3. CASE GetPop
  <2>1. queued \in Seq(Node) /\ queued # <<>> /\ event_queue = Top(queued)
    BY <1>3 DEF IInv, TypeOK, ListsSound, IsList, CheckedHeadStillThere, GetPop
  <2>2. /\ Popped(queued) \in Seq(Node) /\ Len(Popped(queued)) = Len(queued) - 1
        /\ \A i \in 1..(Len(queued) - 1) : Popped(queued)[i] = queued[i]
        /\ Top(queued) \in Node /\ Len(queued) \in Nat \ {0}
        /\ DOMAIN Popped(queued) = 1..(Len(queued) - 1)
    BY <2>1, PoppedFacts
  <2>3. next[event_queue] = IF Popped(queued) = <<>> THEN NULL ELSE Top(Popped(queued))
    BY <2>1, <2>2 DEF IInv, ListsSound, IsList, Top
  <2>4. TypeOK'
    BY <1>3, <2>1, <2>2 DEF IInv, TypeOK, GetPop, scanVars
  <2>5. ListsSound'
    BY <1>3, <2>2, <2>3 DEF IInv, ListsSound, IsList, GetPop
  <2>6. PoolConserved'
    <3>1. /\ NoRepeat(queued') /\ Elems(queued') = Elems(queued) \ {held'}
          /\ held' \in Elems(queued)
      BY <1>3, <2>1, PoppedElems DEF IInv, PoolConserved, GetPop
    <3>2. held = NULL /\ NULL \notin Elems(queued) /\ new_ev # held'
      BY <1>3, <3>1, NodeAssumption DEF IInv, TypeOK, Hands, GetPop, PoolConserved
    <3> QED  BY <1>3, <3>1, <3>2 DEF IInv, PoolConserved, GetPop
  <2> QED  BY <1>3, <2>1, <2>2, <2>4, <2>5, <2>6, NodeAssumption DEF IInv, GetPop,
             Mutex, Hands, CheckedHeadStillThere
<1>4. CASE GetUnlock
  BY <1>4 DEF IInv, GetUnlock, scanVars, TypeOK, Mutex, Hands,
     ListsSound, IsList, PoolConserved, CheckedHeadStillThere
<1>5. CASE ReleaseLock
  BY <1>5 DEF IInv, ReleaseLock, scanVars, TypeOK, Mutex, Hands,
     ListsSound, IsList, PoolConserved, CheckedHeadStillThere
<1>6. CASE ReleaseLink
  <2>1. held \in Node /\ held \notin Elems(free) /\ held \notin Elems(queued)
    BY <1>6 DEF IInv, TypeOK, Hands, PoolConserved, ReleaseLink
  <2>2. TypeOK'
    BY <1>6, <2>1 DEF IInv, TypeOK, ReleaseLink, scanVars
  <2>3. ListsSound'
    BY <1>6, <2>1 DEF IInv, TypeOK, ListsSound, IsList, ReleaseLink, Elems
  <2> QED  BY <1>6, <2>1, <2>2, <2>3 DEF IInv, TypeOK, ReleaseLink, Mutex, Hands,
             PoolConserved, CheckedHeadStillThere
<1>7. CASE ReleasePush
  <2>1. held \in Node /\ held \notin Elems(free) /\ next[held] = released_events
    BY <1>7 DEF IInv, TypeOK, Hands, PoolConserved, ReleasePush
  <2>2. free \in Seq(Node)
    BY DEF IInv, TypeOK
  <2>3. /\ free' \in Seq(Node) /\ free' # <<>> /\ Top(free') = held
        /\ Len(free') = Len(free) + 1
        /\ \A i \in 1..Len(free) : free'[i] = free[i]
        /\ Elems(free') = Elems(free) \cup {held}
        /\ NoRepeat(free')
    BY <1>7, <2>1, <2>2, PushedFacts DEF IInv, PoolConserved, ReleasePush
  <2>4. TypeOK'
    BY <1>7, <2>1, <2>3 DEF IInv, TypeOK, ReleasePush, scanVars
  <2>5. ListsSound'
    <3>1. ASSUME NEW i \in 1..Len(free')
          PROVE  next[free'[i]] = IF i = 1 THEN NULL ELSE free'[i - 1]
      <4>1. CASE i \in 1..Len(free)
        BY <2>2, <2>3, <4>1 DEF IInv, ListsSound, IsList
      <4>2. CASE i = Len(free) + 1
        BY <2>1, <2>2, <2>3, <4>2 DEF IInv, ListsSound, IsList, Top
      <4> QED  BY <2>2, <2>3, <4>1, <4>2
    <3> QED  BY <1>7, <2>3, <3>1 DEF IInv, ListsSound, IsList, ReleasePush
  <2>6. PoolConserved'
    <3>1. queued' = queued /\ new_ev' = new_ev /\ held' = NULL
      BY <1>7 DEF ReleasePush
    <3>2. held # NULL /\ NULL \notin Elems(free) /\ NULL \notin Elems(queued)
      BY <2>1, NodeAssumption DEF IInv, TypeOK, Elems
    <3>3. held \notin Elems(queued) /\ held # new_ev
      BY <3>2 DEF IInv, PoolConserved
    <3> QED  BY <2>3, <3>1, <3>2, <3>3 DEF IInv, PoolConserved
  <2>7. Mutex' /\ CheckedHeadStillThere'
    BY <1>7, <2>1, NodeAssumption DEF IInv, ReleasePush, Mutex, CheckedHeadStillThere
  <2>8. Hands'
    BY <1>7, <2>1 DEF IInv, TypeOK, ReleasePush, Mutex, Hands
  <2> QED  BY <2>4, <2>5, <2>6, <2>7, <2>8 DEF IInv
<1>8. CASE ReleaseUnlock
  BY <1>8 DEF IInv, ReleaseUnlock, scanVars, TypeOK, Mutex, Hands,
     ListsSound, IsList, PoolConserved, CheckedHeadStillThere
<1> QED  BY <1>1, <1>2, <1>3, <1>4, <1>5, <1>6, <1>7, <1>8 DEF ConsumerStep

-----------------------------------------------------------------------------
LEMMA StepIInv == IInv /\ [Next]_vars => IInv'
<1> SUFFICES ASSUME IInv, [Next]_vars PROVE IInv'
  OBVIOUS
<1>1. CASE UNCHANGED vars
  BY <1>1 DEF IInv, vars, TypeOK, Mutex, Hands, ListsSound, IsList, PoolConserved,
     CheckedHeadStillThere
<1> QED  BY <1>1, ProducerIInv, ConsumerIInv DEF Next

LEMMA Invariance == Spec => []IInv
BY InitIInv, StepIInv, PTL DEF Spec

\* Every state of both tasks is well typed (buttons.c:17-36).
THEOREM Typing == Spec => []TypeOK
BY Invariance, PTL DEF IInv

\* The two linked lists stay well formed under every interleaving of
\* enqueue_event, buttons_get_event and buttons_release_event.
THEOREM ListsStaySound == Spec => []ListsSound
BY Invariance, PTL DEF IInv

\* No node of the pool is lost, and none is in two places.
THEOREM NoNodeLost == Spec => []PoolConserved
BY Invariance, PTL DEF IInv

\* The head each task tests before it takes the mutex is still there when it
\* dereferences it (buttons.c:84-91 and 227-234).
THEOREM CheckBeforeLockIsSafe == Spec => []CheckedHeadStillThere
BY Invariance, PTL DEF IInv

\* The event the consumer acts on without the mutex (addon.c:445-493) does not
\* change under it.
THEOREM HeldEventIsStable == Spec => HeldEventStable
<1>1. IInv /\ [Next]_vars => [held # NULL /\ held' = held => event'[held] = event[held]]_vars
  <2> SUFFICES ASSUME IInv, Next, held # NULL
               PROVE  event'[held] = event[held]
    BY DEF vars
  <2>1. CASE EnqueueLink
    <3>1. held # new_ev /\ event \in [Node -> Event]
      BY <2>1 DEF IInv, TypeOK, PoolConserved
    <3> QED  BY <2>1, <3>1 DEF EnqueueLink, IInv, TypeOK
  <2>2. CASE ~EnqueueLink
    BY <2>2 DEF Next, ProducerStep, ConsumerStep, ProcessEncoder, ProcessButton,
       EnqueueCheck, EnqueueLock, EnqueuePop, EnqueuePush, EnqueueUnlock, GetCheck,
       GetLock, GetPop, GetUnlock, ReleaseLock, ReleaseLink, ReleasePush, ReleaseUnlock
  <2> QED  BY <2>1, <2>2
<1> QED  BY <1>1, Invariance, PTL DEF Spec, HeldEventStable

-----------------------------------------------------------------------------
(***************************************************************************)
(* The linked lists implement EventPool, a bounded stack of events.          *)
(***************************************************************************)
pending == [i \in DOMAIN queued |-> event[queued[i]]]
taken   == IF held = NULL THEN NULL ELSE event[held]

\* A list without repetition has as many elements as it is long.
LEMMA ElemsCardinality ==
  ASSUME NEW S, NEW s \in Seq(S), NoRepeat(s)
  PROVE  IsFiniteSet(Elems(s)) /\ Cardinality(Elems(s)) = Len(s)
<1>1. Len(s) \in Nat /\ DOMAIN s = 1..Len(s) /\ s \in [1..Len(s) -> Elems(s)]
  BY DEF Elems
<1>2. s \in Bijection(1..Len(s), Elems(s))
  BY <1>1 DEF Bijection, Injection, Surjection, IsInjective, Elems, NoRepeat
<1>3. ExistsBijection(1..Len(s), Elems(s))
  BY <1>2 DEF ExistsBijection
<1>4. IsFiniteSet(1..Len(s)) /\ Cardinality(1..Len(s)) = Len(s)
  BY <1>1, FS_Interval
<1> QED  BY <1>3, <1>4, FS_Bijection

\* enqueue_event has a node in its hand, so the pending events and the one the
\* consumer acts on cannot fill the pool.
LEMMA RoomToPush ==
  ASSUME IInv, new_ev # NULL
  PROVE  /\ Len(queued) \in Nat /\ Cardinality(Node) \in Nat
         /\ Len(queued) + (IF held = NULL THEN 0 ELSE 1) < Cardinality(Node)
<1> DEFINE Q == Elems(queued)
           H == IF held = NULL THEN Q ELSE Q \cup {held}
<1>1. queued \in Seq(Node) /\ NoRepeat(queued) /\ Len(queued) \in Nat
  BY DEF IInv, TypeOK, PoolConserved
<1>2. IsFiniteSet(Q) /\ Cardinality(Q) = Len(queued)
  BY <1>1, ElemsCardinality
<1>3. /\ Q \subseteq Node /\ new_ev \in Node /\ new_ev \notin Q
      /\ held # NULL => held \in Node /\ held \notin Q /\ held # new_ev
  <2>1. Q \subseteq Node
    BY <1>1 DEF Elems
  <2>2. new_ev \in Node /\ held \in Node \cup {NULL} /\ PoolConserved
    BY DEF IInv, TypeOK
  <2> QED  BY <2>1, <2>2 DEF PoolConserved
<1> HIDE DEF Q
<1>4. /\ IsFiniteSet(H)
      /\ Cardinality(H) = Len(queued) + (IF held = NULL THEN 0 ELSE 1)
  <2>1. CASE held = NULL
    BY <1>1, <1>2, <2>1
  <2>2. CASE held # NULL
    BY <1>2, <1>3, <2>2, FS_AddElement
  <2> QED  BY <2>1, <2>2
<1>5. H \subseteq Node /\ new_ev \notin H
  BY <1>3
<1> HIDE DEF H
<1>6. /\ IsFiniteSet(H \cup {new_ev}) /\ H \cup {new_ev} \subseteq Node
      /\ Cardinality(H \cup {new_ev}) = Cardinality(H) + 1
  BY <1>3, <1>4, <1>5, FS_AddElement
<1>7. /\ Cardinality(H \cup {new_ev}) <= Cardinality(Node)
      /\ Cardinality(Node) \in Nat
  BY <1>6, NodeAssumption, FS_Subset, FS_CardinalityType
<1> QED  BY <1>1, <1>4, <1>6, <1>7

\* A step that leaves the queue, the event in the consumer's hand and the events
\* in the queue alone changes nothing of the abstract state.
LEMMA AbstractStutter ==
  ASSUME queued' = queued, held' = held, event' = event
  PROVE  pending' = pending /\ taken' = taken
BY DEF pending, taken

\* enqueue_event's last write puts an event.
LEMMA PushPuts == IInv /\ EnqueuePush => Pool!Put
<1> SUFFICES ASSUME IInv, EnqueuePush PROVE Pool!Put
  OBVIOUS
<1>1. queued \in Seq(Node) /\ new_ev \in Node /\ new_ev # NULL
      /\ event \in [Node -> Event]
  BY DEF IInv, TypeOK, Hands, EnqueuePush
<1>2. queued' = Append(queued, new_ev) /\ held' = held /\ event' = event
  BY DEF EnqueuePush
<1>3. pending \in Seq(Event) /\ Len(pending) = Len(queued)
  BY <1>1 DEF pending
<1>4. pending' = Append(pending, event[new_ev]) /\ event[new_ev] \in Event
  <2>1. /\ Len(queued') = Len(queued) + 1 /\ DOMAIN queued' = 1..(Len(queued) + 1)
        /\ queued'[Len(queued) + 1] = new_ev /\ Len(queued) \in Nat
        /\ DOMAIN queued = 1..Len(queued)
        /\ \A i \in 1..Len(queued) : queued'[i] = queued[i]
    BY <1>1, <1>2
  <2>2. /\ DOMAIN pending' = 1..(Len(queued) + 1)
        /\ \A i \in 1..(Len(queued) + 1) :
             pending'[i] = IF i = Len(queued) + 1 THEN event[new_ev] ELSE pending[i]
    BY <1>2, <2>1 DEF pending
  <2>3. pending' = [i \in 1..(Len(queued) + 1) |-> pending'[i]]
    BY <2>2 DEF pending
  <2>4. Append(pending, event[new_ev])
          = [i \in 1..(Len(queued) + 1) |->
               IF i = Len(queued) + 1 THEN event[new_ev] ELSE pending[i]]
    BY <1>1, <1>3, <2>1
  <2> QED  BY <1>1, <2>2, <2>3, <2>4
<1>5. taken' = taken /\ (taken = NULL \/ held # NULL)
  BY <1>2 DEF taken
<1>6. Cardinality(Node) - Len(pending) - (IF taken = NULL THEN 0 ELSE 1) > 0
  BY <1>1, <1>3, <1>5, RoomToPush
<1> QED  BY <1>4, <1>5, <1>6 DEF Pool!Put, Pool!Available, pending, taken

\* buttons_get_event's last write takes the newest event.
LEMMA PopTakes == IInv /\ GetPop => Pool!Take
<1> SUFFICES ASSUME IInv, GetPop PROVE Pool!Take
  OBVIOUS
<1>1. /\ queued \in Seq(Node) /\ queued # <<>> /\ event_queue = Top(queued)
      /\ event \in [Node -> Event] /\ held = NULL /\ event_queue \in Node
  BY DEF IInv, TypeOK, ListsSound, IsList, CheckedHeadStillThere, Hands, GetPop
<1>2. /\ queued' = Popped(queued) /\ held' = Top(queued) /\ event' = event
  BY <1>1 DEF GetPop
<1>3. /\ Popped(queued) \in Seq(Node) /\ Len(Popped(queued)) = Len(queued) - 1
      /\ \A i \in 1..(Len(queued) - 1) : Popped(queued)[i] = queued[i]
      /\ Top(queued) \in Node /\ Len(queued) \in Nat \ {0}
      /\ DOMAIN Popped(queued) = 1..(Len(queued) - 1)
      /\ DOMAIN queued = 1..Len(queued)
  BY <1>1, PoppedFacts
<1>4. /\ pending \in Seq(Event) /\ Len(pending) = Len(queued) /\ pending # <<>>
      /\ pending[Len(pending)] = event[Top(queued)]
  <2>1. pending \in [1..Len(queued) -> Event]
    BY <1>1, <1>3 DEF pending
  <2>2. pending \in Seq(Event) /\ Len(pending) = Len(queued)
    BY <1>3, <2>1
  <2> QED  BY <1>3, <2>2 DEF pending, Top
<1>5. pending' = SubSeq(pending, 1, Len(pending) - 1)
  <2>1. pending' = [i \in 1..(Len(queued) - 1) |-> pending[i]]
    BY <1>2, <1>3 DEF pending
  <2>2. SubSeq(pending, 1, Len(pending) - 1) = [i \in 1..(Len(queued) - 1) |-> pending[i]]
    BY <1>3, <1>4
  <2> QED  BY <2>1, <2>2
<1>6. taken = NULL /\ taken' = event[Top(queued)]
  BY <1>1, <1>2, <1>3, NodeAssumption DEF taken
<1> QED  BY <1>4, <1>5, <1>6 DEF Pool!Take, pending, taken

\* buttons_release_event's last write releases the event.
LEMMA ReleaseReleases ==
  IInv /\ ReleasePush => Pool!Release \/ UNCHANGED <<pending, taken>>
<1> SUFFICES ASSUME IInv, ReleasePush PROVE Pool!Release \/ UNCHANGED <<pending, taken>>
  OBVIOUS
<1>1. pending' = pending /\ taken' = NULL
  BY DEF ReleasePush, pending, taken
<1> QED  BY <1>1 DEF Pool!Release, pending, taken

\* Every other step leaves the abstract stack alone; in particular the event that
\* enqueue_event copies into its node is not visible before the push.
LEMMA OthersStutter ==
  ASSUME IInv, Next, ~EnqueuePush, ~GetPop, ~ReleasePush
  PROVE  UNCHANGED <<pending, taken>>
<1>1. CASE EnqueueLink
  <2>1. /\ queued' = queued /\ held' = held /\ held # new_ev
        /\ event' = [event EXCEPT ![new_ev] = Head(todo)]
        /\ event \in [Node -> Event] /\ queued \in Seq(Node)
        /\ held \in Node \cup {NULL} /\ new_ev \notin Elems(queued)
    BY <1>1 DEF EnqueueLink, IInv, TypeOK, Hands, PoolConserved
  <2>2. pending' = pending
    BY <2>1 DEF pending, Elems
  <2> QED  BY <2>1, <2>2 DEF taken
<1>2. CASE ~EnqueueLink
  <2>1. queued' = queued /\ held' = held /\ event' = event
    BY <1>2 DEF Next, ProducerStep, ConsumerStep, ProcessEncoder, ProcessButton,
       EnqueueCheck, EnqueueLock, EnqueuePop, EnqueueUnlock, GetCheck, GetLock,
       GetUnlock, ReleaseLock, ReleaseLink, ReleaseUnlock
  <2> QED  BY <2>1, AbstractStutter
<1> QED  BY <1>1, <1>2

LEMMA InitIsEmpty == Init => Pool!Init
BY DEF Init, Pool!Init

LEMMA StepIsPoolStep == IInv /\ [Next]_vars => [Pool!Next]_(Pool!vars)
<1> SUFFICES ASSUME IInv, [Next]_vars
             PROVE  Pool!Next \/ UNCHANGED <<pending, taken>>
  BY DEF Pool!vars, pending, taken
<1>1. CASE UNCHANGED vars
  <2>1. queued' = queued /\ held' = held /\ event' = event
    BY <1>1 DEF vars
  <2> QED  BY <2>1, AbstractStutter
<1>2. CASE Next
  BY <1>2, PushPuts, PopTakes, ReleaseReleases, OthersStutter DEF Pool!Next
<1> QED  BY <1>1, <1>2

\* To its two users the pair of lists in buttons.c is a bounded stack: an event is
\* put only while a node is available, the newest is taken, and its node comes
\* back when the consumer is done.  The tests of the list heads outside the
\* mutex do not show.
THEOREM QueueIsAStack == Spec => ImplementsPool
BY InitIsEmpty, StepIsPoolStep, Invariance, PTL DEF Spec, ImplementsPool, Pool!Spec
=============================================================================
