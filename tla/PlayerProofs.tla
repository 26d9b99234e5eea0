---------------------------- MODULE PlayerProofs ----------------------------
(***************************************************************************)
(* Proofs about Player, for every size of the FIFO, every number of decoder *)
(* slots and of tasks that stop the player.                                 *)
(***************************************************************************)
EXTENDS Player, TLAPS

\* The two halves of TypeOK: where the tasks are, and what they share.
PosOK  == /\ pc \in [Task -> Pc] /\ \A t \in Task : pc[t] \in PcOf(t)
          /\ back \in [Task -> Pc] /\ \A t \in Task : back[t] \in BackOf(t)
DataOK == /\ kind \in [Decoder -> Kind \cup {"none"}]
          /\ content \in Kind
          /\ command \in {"none", "start", "stop"}
          /\ decoder_command \in {"none", "stop"}
          /\ decoder_status \in {"uninitialized", "running", "stopped"}
          /\ eof \in BOOLEAN
          /\ player_status \in {"initialized", "running", "stopped"}
          /\ held \in 0..(Len - 1)
          /\ sDisconnect \in BOOLEAN

\* A decoder that has not yet written STOPPED.
Early(d) == \/ Running(d) \/ pc[d] \in {"abort", "status"}
            \/ pc[d] = "reset" /\ kind[d] = "mp3"

\* There is one at most, and decoder_status says so, or is about to.
OneEarly    == \A d, e \in Decoder : Early(d) /\ Early(e) => d = e
StatusTells == \A d \in Decoder :
                 Early(d) => decoder_status = "running" \/ pc[Client] = "created"
\* The webclient creates a decoder only after it has read another status.
StatusRead  == pc[Client] \in {"level", "create"} => decoder_status # "running"

IInv == PosOK /\ DataOK /\ OneEarly /\ StatusTells /\ StatusRead

-----------------------------------------------------------------------------
LEMMA Tasks == /\ Client \in Task /\ Client \notin Decoder /\ Client \notin Stopper
               /\ \A d \in Decoder : d \in Task /\ d \notin Stopper
               /\ \A s \in Stopper : s \in Task /\ s \notin Decoder
               /\ \A t \in Task : t = Client \/ t \in Decoder \/ t \in Stopper
BY TaskAssumption DEF Client, Task

\* What PcOf and BackOf are for each kind of task.
LEMMA Places ==
  /\ PcOf(Client) = StopPc \cup ClientPc
  /\ BackOf(Client) = {"idle", "data", "end", "clear"}
  /\ \A d \in Decoder : /\ PcOf(d) = StopPc \cup DecoderPc
                        /\ BackOf(d) = {"input", "decode", "test"}
  /\ \A s \in Stopper : PcOf(s) = StopPc \cup StopperPc /\ BackOf(s) = {"idle"}
  /\ \A t \in Task : PcOf(t) \subseteq Pc /\ BackOf(t) \subseteq PcOf(t)
                     /\ Rest(t) \in BackOf(t) /\ StopPc \subseteq PcOf(t)
<1>1. /\ PcOf(Client) = StopPc \cup ClientPc
      /\ BackOf(Client) = {"idle", "data", "end", "clear"}
  BY Tasks DEF PcOf, BackOf
<1>2. \A d \in Decoder : /\ PcOf(d) = StopPc \cup DecoderPc
                         /\ BackOf(d) = {"input", "decode", "test"}
  BY Tasks DEF PcOf, BackOf
<1>3. \A s \in Stopper : PcOf(s) = StopPc \cup StopperPc /\ BackOf(s) = {"idle"}
  BY Tasks DEF PcOf, BackOf
<1>4. \A t \in Task : PcOf(t) \subseteq Pc /\ StopPc \subseteq PcOf(t)
  BY <1>1, <1>2, <1>3, Tasks DEF Pc
<1>6. \A t \in Task : BackOf(t) \subseteq PcOf(t)
  <2>1. /\ {"idle", "data", "end", "clear"} \subseteq ClientPc
        /\ {"input", "decode", "test"} \subseteq DecoderPc
        /\ {"idle"} \subseteq StopperPc
    BY DEF ClientPc, DecoderPc, StopperPc
  <2>2. BackOf(Client) \subseteq PcOf(Client)
    BY <1>1, <2>1
  <2>3. \A d \in Decoder : BackOf(d) \subseteq PcOf(d)
    BY <1>2, <2>1
  <2>4. \A u \in Stopper : BackOf(u) \subseteq PcOf(u)
    BY <1>3, <2>1
  <2> QED  BY <2>2, <2>3, <2>4, Tasks
<1>5. \A t \in Task : Rest(t) \in BackOf(t)
  BY <1>1, <1>2, <1>3, Tasks DEF Rest
<1> QED  BY <1>1, <1>2, <1>3, <1>4, <1>5, <1>6

\* A step of task t to a place of its own.
LEMMA Moved ==
  ASSUME PosOK, NEW t \in Task, NEW l \in PcOf(t), Go(t, l)
  PROVE  /\ pc' \in [Task -> Pc] /\ \A u \in Task : pc'[u] \in PcOf(u)
         /\ pc'[t] = l /\ \A u \in Task : u # t => pc'[u] = pc[u]
BY Places DEF PosOK, Go

LEMMA BackMoved ==
  ASSUME PosOK, NEW t \in Task, NEW l \in BackOf(t), back' = [back EXCEPT ![t] = l]
  PROVE  back' \in [Task -> Pc] /\ \A u \in Task : back'[u] \in BackOf(u)
BY Places DEF PosOK

\* A write wakes readers, and moves nobody else but its task.
LEMMA Written ==
  ASSUME PosOK, NEW t \in Task, NEW l \in PcOf(t), NEW n, Write(t, n, l),
         t \notin Sleepers
  PROVE  /\ pc' \in [Task -> Pc] /\ \A u \in Task : pc'[u] \in PcOf(u)
         /\ pc'[t] = l
         /\ \A u \in Task : u # t => \/ pc'[u] = pc[u]
                                     \/ u \in Decoder /\ pc[u] = "asleep" /\ pc'[u] = "woken"
<1>1. \A u \in Task : pc'[u] = IF u = t THEN l ELSE IF u \in Sleepers /\ held' >= Trigger
                                 THEN "woken" ELSE pc[u]
  BY DEF Write
<1>2. \A u \in Decoder : "woken" \in PcOf(u)
  BY Places DEF DecoderPc
<1>3. \A u \in Task : pc'[u] \in PcOf(u)
  BY <1>1, <1>2 DEF PosOK, Sleepers
<1>4. pc' \in [Task -> Pc]
  <2>1. \A u \in Task : pc'[u] \in Pc
    BY <1>3, Places
  <2>2. pc' = [u \in Task |-> pc'[u]]
    BY DEF Write
  <2> QED  BY <2>1, <2>2
<1> QED  BY <1>1, <1>3, <1>4 DEF Sleepers

LEMMA InitIInv == Init => IInv
<1> SUFFICES ASSUME Init PROVE IInv
  OBVIOUS
<1> USE Tasks DEF Init
<1>1. PosOK
  <2>1. \A t \in Task : pc[t] \in PcOf(t) /\ back[t] \in BackOf(t)
    BY Places DEF ClientPc, DecoderPc, StopperPc
  <2>2. \A t \in Task : pc[t] \in Pc /\ back[t] \in Pc
    BY <2>1, Places
  <2> QED  BY <2>1, <2>2 DEF PosOK
<1>2. DataOK
  <2>1. held \in 0..(Len - 1)
    BY FifoAssumption
  <2>2. kind \in [Decoder -> Kind \cup {"none"}]
    OBVIOUS
  <2> QED  BY <2>1, <2>2 DEF DataOK
<1>3. OneEarly /\ StatusTells /\ StatusRead
  BY DEF OneEarly, StatusTells, StatusRead, Early, Running, Reading, InStop
<1> QED  BY <1>1, <1>2, <1>3 DEF IInv

-----------------------------------------------------------------------------
(* Every step leaves the tasks at places of theirs. *)
LEMMA StopPos ==
  ASSUME PosOK, NEW t \in Task, StopStep(t)
  PROVE  PosOK'
<1> USE Places, Moved DEF PosOK, StopPc
<1>1. CASE StopDecoderCommand(t)
  BY <1>1 DEF StopDecoderCommand
<1>2. CASE StopCommand(t)
  BY <1>2 DEF StopCommand
<1>3. CASE StopEof(t)
  BY <1>3 DEF StopEof
<1>4. CASE StopNone(t)
  BY <1>4 DEF StopNone
<1>5. CASE StopStatus(t)
  BY <1>5 DEF StopStatus
<1>6. CASE StopWake(t)
  <2>1. back[t] \in PcOf(t) /\ t \notin Sleepers /\ Write(t, Wake, back[t])
    BY <1>6 DEF StopWake, Sleepers
  <2>2. Rest(t) \in BackOf(t) /\ back' = [back EXCEPT ![t] = Rest(t)]
    BY <1>6 DEF StopWake
  <2> QED  BY <2>1, <2>2, Written, BackMoved
<1> QED  BY <1>1, <1>2, <1>3, <1>4, <1>5, <1>6 DEF StopStep

LEMMA ClientPos ==
  ASSUME PosOK, Connect \/ ClientStep
  PROVE  PosOK'
<1> USE Places, Moved, BackMoved, Tasks DEF PosOK, ClientPc
<1>1. CASE Connect
  BY <1>1 DEF Connect, StopPc
<1>2. CASE BeginStream
  BY <1>2 DEF BeginStream, StopPc
<1>3. CASE StartEof
  BY <1>3 DEF StartEof, StopPc
<1>4. CASE StartCommand
  BY <1>4 DEF StartCommand, StopPc
<1>5. CASE StartDecoderCommand
  BY <1>5 DEF StartDecoderCommand, StopPc
<1>6. CASE StartStatus
  BY <1>6 DEF StartStatus, StopPc
<1>7. CASE ConsumerTest
  BY <1>7 DEF ConsumerTest, StopPc
<1>8. CASE SilentDisconnect
  BY <1>8 DEF SilentDisconnect, StopUnlessStopped, StopPc
<1>9. CASE DecoderTest
  BY <1>9 DEF DecoderTest, StopPc
<1>10. CASE LevelTest
  BY <1>10 DEF LevelTest, StopPc
<1>11. CASE Created
  BY <1>11 DEF Created, StopPc
<1>12. CASE CreateFails
  BY <1>12 DEF CreateFails, StopPc
<1>13. CASE EndAsked
  BY <1>13 DEF EndAsked, StopUnlessStopped, StopPc
<1>14. CASE EndNoData
  BY <1>14 DEF EndNoData, StopUnlessStopped, StopPc
<1>15. CASE EndOnce
  BY <1>15 DEF EndOnce, StopPc
<1>16. CASE Drain
  BY <1>16 DEF Drain, StopUnlessStopped, StopPc
<1>17. CASE DrainDelay
  BY <1>17 DEF DrainDelay, StopPc
<1>18. CASE EndEof
  BY <1>18 DEF EndEof, StopPc
<1>19. CASE ClearAll
  BY <1>19 DEF ClearAll, StopPc
<1>20. CASE ConsumerWrite
  <2>1. PICK k \in Chunk : Write(Client, k, "written")
    BY <1>20 DEF ConsumerWrite
  <2>2. "written" \in PcOf(Client) /\ Client \notin Sleepers /\ back' = back
    BY <1>20 DEF ConsumerWrite, Sleepers
  <2> QED  BY <2>1, <2>2, Written
<1>21. ASSUME NEW d \in Decoder, Create(d) PROVE PosOK'
  <2>1. /\ pc' = [pc EXCEPT ![Client] = "created",
                        ![d] = IF content = "aac" THEN "read" ELSE "input"]
        /\ back' = back
    BY <1>21 DEF Create
  <2>2. "created" \in PcOf(Client) /\ "read" \in PcOf(d) /\ "input" \in PcOf(d)
    <3>1. "created" \in ClientPc /\ "read" \in DecoderPc /\ "input" \in DecoderPc
      BY DEF DecoderPc
    <3> HIDE DEF ClientPc
    <3> QED  BY <3>1
  <2>3. \A t \in Task : pc'[t] \in PcOf(t)
    BY <2>1, <2>2
  <2>4. pc' \in [Task -> Pc]
    BY <2>1, <2>2
  <2>5. back' \in [Task -> Pc] /\ \A t \in Task : back'[t] \in BackOf(t)
    BY <2>1
  <2> QED  BY <2>3, <2>4, <2>5
<1>22. CASE StopStep(Client)
  BY <1>22, StopPos
<1> QED BY <1>1, <1>2, <1>3, <1>4, <1>5, <1>6, <1>7, <1>8, <1>9, <1>10, <1>11,
            <1>12, <1>13, <1>14, <1>15, <1>16, <1>17, <1>18, <1>19,
            <1>20, <1>21, <1>22 DEF ClientStep

LEMMA DecoderPos ==
  ASSUME PosOK, NEW d \in Decoder, DecoderStep(d)
  PROVE  PosOK'
<1> USE Places, Moved, BackMoved, Tasks DEF PosOK, DecoderPc
<1>1. CASE DecoderInput(d)
  BY <1>1 DEF DecoderInput, Leave, After, StopPc
<1>2. CASE DecoderTestStop(d)
  BY <1>2 DEF DecoderTestStop, Leave, After, StopPc
<1>3. CASE RenderFails(d)
  BY <1>3 DEF RenderFails, StopPc
<1>4. CASE DecoderAbort(d)
  BY <1>4 DEF DecoderAbort, After, StopPc
<1>5. CASE DecoderReset(d)
  BY <1>5 DEF DecoderReset, GoOn, After, StopPc
<1>6. CASE DecoderStopped(d)
  BY <1>6 DEF DecoderStopped, GoOn, After, StopPc
<1>7. CASE DecoderUnset(d)
  BY <1>7 DEF DecoderUnset, GoOn, After, StopPc
<1>8. ASSUME Taken(d) PROVE PosOK'
  <2>1. PICK l \in IF kind[d] = "mp3" THEN {"input", "decode"} ELSE {back[d]} : Go(d, l)
    BY <1>8 DEF Taken
  <2>2. l \in PcOf(d) /\ "input" \in BackOf(d) /\ back' = [back EXCEPT ![d] = "input"]
    BY <1>8, <2>1 DEF Taken
  <2> QED  BY <2>1, <2>2
<1>9. CASE DecoderRead(d)
  BY <1>9, <1>8 DEF DecoderRead
<1>10. CASE DecoderWoken(d)
  BY <1>10, <1>8 DEF DecoderWoken
<1>11. CASE StopStep(d)
  BY <1>11, StopPos
<1> QED BY <1>1, <1>2, <1>3, <1>4, <1>5, <1>6, <1>7, <1>8, <1>9, <1>10, <1>11
            DEF DecoderStep

LEMMA StopperPos ==
  ASSUME PosOK, NEW s \in Stopper, UserStop(s) \/ UserStopPlayer(s)
  PROVE  PosOK'
<1> USE Places, Moved, BackMoved, Tasks DEF PosOK, StopperPc
<1>1. CASE UserStop(s)
  BY <1>1 DEF UserStop, StopPc
<1>2. CASE UserStopPlayer(s)
  BY <1>2 DEF UserStopPlayer, StopUnlessStopped, StopPc
<1> QED  BY <1>1, <1>2

-----------------------------------------------------------------------------
(* Every step keeps the shared fields to their values. *)
LEMMA StoredFits ==
  ASSUME DataOK, NEW n \in Nat PROVE held + Stored(n) \in 0..(Len - 1)
BY FifoAssumption DEF DataOK, Stored, Spaces

LEMMA EmptiedFits == ASSUME DataOK PROVE Emptied \in 0..(Len - 1)
BY FifoAssumption DEF DataOK, Emptied

LEMMA StopData ==
  ASSUME DataOK, NEW t \in Task, StopStep(t)
  PROVE  DataOK'
<1> USE DEF DataOK, flags
<1>1. CASE StopDecoderCommand(t)
  BY <1>1 DEF StopDecoderCommand
<1>2. CASE StopCommand(t)
  BY <1>2 DEF StopCommand
<1>3. CASE StopEof(t)
  BY <1>3 DEF StopEof
<1>4. CASE StopNone(t)
  BY <1>4 DEF StopNone
<1>5. CASE StopStatus(t)
  BY <1>5 DEF StopStatus
<1>6. CASE StopWake(t)
  BY <1>6, StoredFits, FifoAssumption DEF StopWake, Write, Wake
<1> QED  BY <1>1, <1>2, <1>3, <1>4, <1>5, <1>6 DEF StopStep

LEMMA ClientData ==
  ASSUME DataOK, Connect \/ ClientStep
  PROVE  DataOK'
<1> USE DEF DataOK, flags
<1>1. CASE Connect
  BY <1>1 DEF Connect
<1>2. CASE BeginStream
  BY <1>2 DEF BeginStream
<1>3. CASE StartEof
  BY <1>3 DEF StartEof
<1>4. CASE StartCommand
  BY <1>4 DEF StartCommand
<1>5. CASE StartDecoderCommand
  BY <1>5 DEF StartDecoderCommand
<1>6. CASE StartStatus
  BY <1>6 DEF StartStatus
<1>7. CASE ConsumerTest
  BY <1>7 DEF ConsumerTest
<1>8. CASE SilentDisconnect
  BY <1>8 DEF SilentDisconnect
<1>9. CASE DecoderTest
  BY <1>9 DEF DecoderTest
<1>10. CASE LevelTest
  BY <1>10 DEF LevelTest
<1>11. CASE Created
  BY <1>11 DEF Created
<1>12. CASE EndAsked
  BY <1>12 DEF EndAsked
<1>13. CASE EndNoData
  BY <1>13 DEF EndNoData
<1>14. CASE EndOnce
  BY <1>14 DEF EndOnce
<1>15. CASE Drain
  BY <1>15 DEF Drain, StopUnlessStopped
<1>16. CASE DrainDelay
  BY <1>16 DEF DrainDelay
<1>17. CASE EndEof
  BY <1>17 DEF EndEof
<1>18. CASE ConsumerWrite
  <2>1. PICK k \in Chunk : Write(Client, k, "written")
    BY <1>18 DEF ConsumerWrite
  <2>2. k \in Nat
    BY FifoAssumption
  <2>3. held' \in 0..(Len - 1)
    BY <2>1, <2>2, StoredFits DEF Write
  <2> QED  BY <1>18, <2>3 DEF ConsumerWrite
<1>19. CASE CreateFails
  BY <1>19, EmptiedFits DEF CreateFails
<1>20. CASE ClearAll
  BY <1>20, EmptiedFits DEF ClearAll
<1>21. ASSUME NEW d \in Decoder, Create(d) PROVE DataOK'
  BY <1>21 DEF Create
<1>22. CASE StopStep(Client)
  BY <1>22, StopData, Tasks
<1> QED BY <1>1, <1>2, <1>3, <1>4, <1>5, <1>6, <1>7, <1>8, <1>9, <1>10, <1>11,
            <1>12, <1>13, <1>14, <1>15, <1>16, <1>17, <1>18, <1>19,
            <1>20, <1>21, <1>22 DEF ClientStep

LEMMA DecoderData ==
  ASSUME DataOK, NEW d \in Decoder, DecoderStep(d)
  PROVE  DataOK'
<1> USE DEF DataOK, flags
<1>1. CASE DecoderInput(d)
  BY <1>1, EmptiedFits, FifoAssumption DEF DecoderInput
<1>2. CASE DecoderRead(d)
  BY <1>2, EmptiedFits, FifoAssumption DEF DecoderRead, Taken
<1>3. CASE DecoderWoken(d)
  BY <1>3, EmptiedFits, FifoAssumption DEF DecoderWoken, Taken
<1>4. CASE DecoderTestStop(d)
  BY <1>4, EmptiedFits, FifoAssumption DEF DecoderTestStop
<1>5. CASE RenderFails(d)
  BY <1>5, EmptiedFits, FifoAssumption DEF RenderFails
<1>6. CASE DecoderAbort(d)
  BY <1>6, EmptiedFits, FifoAssumption DEF DecoderAbort
<1>7. CASE DecoderReset(d)
  BY <1>7, EmptiedFits, FifoAssumption DEF DecoderReset, GoOn
<1>8. CASE DecoderStopped(d)
  BY <1>8, EmptiedFits, FifoAssumption DEF DecoderStopped, GoOn
<1>9. CASE DecoderUnset(d)
  BY <1>9, EmptiedFits, FifoAssumption DEF DecoderUnset, GoOn
<1>10. CASE StopStep(d)
  BY <1>10, StopData, Tasks
<1> QED BY <1>1, <1>2, <1>3, <1>4, <1>5, <1>6, <1>7, <1>8, <1>9, <1>10 DEF
            DecoderStep

-----------------------------------------------------------------------------
(* Who still reads.  But for Create, no step makes a decoder Early. *)
\* A decoder that is left alone, but for being woken.
Left(d) == /\ kind'[d] = kind[d]
           /\ pc'[d] = pc[d] \/ (pc[d] = "asleep" /\ pc'[d] = "woken")

LEMMA LeftEarly == ASSUME NEW d \in Decoder, Left(d) PROVE Early(d)' => Early(d)
BY DEF Left, Early, Running, Reading, InStop

LEMMA StopLeaves ==
  ASSUME PosOK, NEW t \in Task, StopStep(t), NEW d \in Decoder, d # t
  PROVE  Left(d)
<1>1. kind' = kind
  BY DEF StopStep, StopDecoderCommand, StopCommand, StopEof, StopNone,
     StopStatus, StopWake
<1>2. CASE StopWake(t)
  <2>1. back[t] \in PcOf(t) /\ t \notin Sleepers /\ Write(t, Wake, back[t])
    BY <1>2, Places DEF StopWake, Sleepers, PosOK
  <2> QED  BY <2>1, <1>1, Written, Tasks DEF Left
<1>3. CASE ~StopWake(t)
  <2>1. PICK l : Go(t, l)
    BY <1>3 DEF StopStep, StopDecoderCommand, StopCommand, StopEof, StopNone,
       StopStatus
  <2>2. pc'[d] = pc[d]
    BY <2>1, Tasks DEF Go, PosOK
  <2> QED  BY <2>2, <1>1 DEF Left
<1> QED  BY <1>2, <1>3

LEMMA StopEarly ==
  ASSUME PosOK, NEW t \in Task, StopStep(t), NEW d \in Decoder
  PROVE  Early(d)' => Early(d)
<1>1. CASE d = t
  BY <1>1 DEF StopStep, StopDecoderCommand, StopCommand, StopEof, StopNone,
     StopStatus, StopWake, Early, Running, InStop
<1> QED  BY <1>1, StopLeaves, LeftEarly

LEMMA ClientLeaves ==
  ASSUME PosOK, Connect \/ ClientStep, NEW d \in Decoder,
         ~ \E e \in Decoder : Create(e)
  PROVE  Left(d)
<1>1. CASE StopStep(Client)
  BY <1>1, StopLeaves, Tasks
<1>2. CASE ConsumerWrite
  <2>1. PICK k \in Chunk : Write(Client, k, "written")
    BY <1>2 DEF ConsumerWrite
  <2>2. "written" \in PcOf(Client) /\ Client \notin Sleepers /\ kind' = kind
    BY <1>2, Places DEF ConsumerWrite, Sleepers, ClientPc
  <2> QED  BY <2>1, <2>2, Written, Tasks DEF Left
<1>3. CASE ~ StopStep(Client) /\ ~ ConsumerWrite
  <2>1. kind' = kind /\ \E l : Go(Client, l)
    BY <1>3 DEF ClientStep, StopUnlessStopped, Connect, BeginStream, StartEof,
       StartCommand, StartDecoderCommand, StartStatus, ConsumerTest,
       SilentDisconnect, DecoderTest, LevelTest, Created, CreateFails,
       EndAsked, EndNoData, EndOnce, Drain, DrainDelay, EndEof,
       ClearAll
  <2>2. pc'[d] = pc[d]
    BY <2>1, Tasks DEF Go, PosOK
  <2> QED  BY <2>1, <2>2 DEF Left
<1> QED  BY <1>1, <1>2, <1>3

LEMMA DecoderLeaves ==
  ASSUME PosOK, DataOK, NEW d \in Decoder, DecoderStep(d), NEW e \in Decoder, e # d
  PROVE  Left(e)
<1>1. CASE StopStep(d)
  BY <1>1, StopLeaves, Tasks
<1>2. CASE ~ StopStep(d)
  <2>1. PICK l : Go(d, l)
    BY <1>2 DEF DecoderStep, DecoderInput, DecoderRead, DecoderWoken, Taken,
       DecoderTestStop, RenderFails, DecoderAbort, DecoderReset,
       DecoderStopped, DecoderUnset, GoOn
  <2>2. pc'[e] = pc[e]
    BY <2>1, Tasks DEF Go, PosOK
  <2>3. kind'[e] = kind[e]
    BY <1>2 DEF DecoderStep, DecoderInput, DecoderRead, DecoderWoken,
       DecoderTestStop, RenderFails, DecoderAbort, DecoderReset,
       DecoderStopped, DecoderUnset, GoOn, DataOK
  <2> QED  BY <2>2, <2>3 DEF Left
<1> QED  BY <1>1, <1>2

\* The ends of a decoder go on as After says.
LEMMA EndSteps ==
  ASSUME PosOK, DataOK, NEW d \in Decoder
  PROVE  /\ DecoderReset(d) => pc[d] = "reset" /\ pc'[d] = After(kind[d], "reset")
         /\ DecoderUnset(d) => pc[d] = "unset" /\ pc'[d] = After(kind[d], "unset")
                              /\ kind'[d] \in {kind[d], "none"}
         /\ DecoderStopped(d) => pc[d] = "status" /\ pc'[d] = "unset"
         /\ DecoderAbort(d) => pc'[d] = After(kind[d], "begin") /\ kind' = kind
BY Tasks DEF DecoderReset, DecoderUnset, DecoderStopped, DecoderAbort, GoOn,
   Go, After, PosOK, DataOK

LEMMA DecoderEarly ==
  ASSUME PosOK, DataOK, NEW d \in Decoder, DecoderStep(d), NEW e \in Decoder
  PROVE  Early(e)' => Early(e)
<1>1. CASE StopStep(d)
  BY <1>1, StopEarly, Tasks
<1>2. CASE e # d
  BY <1>2, DecoderLeaves, LeftEarly
<1>3. CASE e = d /\ ~ StopStep(d)
  <2>1. CASE DecoderReset(d)
    BY <2>1, <1>3, EndSteps DEF After, Early, Running, Reading, InStop
  <2>2. CASE DecoderUnset(d)
    BY <2>2, <1>3, EndSteps DEF After, Early, Running, Reading, InStop
  <2>3. CASE ~ DecoderReset(d) /\ ~ DecoderUnset(d)
    <3>1. pc[d] \in {"input", "read", "woken", "test", "decode", "abort", "status"}
      BY <1>3, <2>3 DEF DecoderStep, DecoderInput, DecoderRead, DecoderWoken,
         DecoderTestStop, RenderFails, DecoderAbort, DecoderStopped
    <3> QED  BY <3>1, <1>3 DEF Early, Running, Reading
  <2> QED  BY <2>1, <2>2, <2>3
<1> QED  BY <1>1, <1>2, <1>3

LEMMA StopperLeaves ==
  ASSUME PosOK, NEW s \in Stopper, UserStop(s) \/ UserStopPlayer(s), NEW d \in Decoder
  PROVE  Left(d)
<1>1. kind' = kind /\ \E l : Go(s, l)
  BY DEF UserStop, UserStopPlayer, StopUnlessStopped
<1>2. pc'[d] = pc[d]
  BY <1>1, Tasks DEF Go, PosOK
<1> QED  BY <1>1, <1>2 DEF Left

-----------------------------------------------------------------------------
(* The inductive invariant. *)
Counts == OneEarly /\ StatusTells /\ StatusRead

\* A step of another task leaves the webclient where it is; one of its own, if
\* it is a stop, takes it back to no place between the tests and the creation.
LEMMA StopAside ==
  ASSUME PosOK, NEW t \in Task, StopStep(t)
  PROVE  /\ decoder_status' = decoder_status
         /\ t # Client => pc'[Client] = pc[Client]
         /\ t = Client => pc[Client] # "created" /\ pc'[Client] \notin {"level", "create"}
<1>1. CASE ~ StopWake(t)
  <2>1. \E l \in {"stop command", "stop eof", "stop none", "stop status", "stop wake"} : Go(t, l)
    BY <1>1 DEF StopStep, StopDecoderCommand, StopCommand, StopEof, StopNone,
       StopStatus
  <2>2. decoder_status' = decoder_status /\ pc[t] # "created"
    BY <1>1 DEF StopStep, StopDecoderCommand, StopCommand, StopEof, StopNone,
       StopStatus
  <2> QED  BY <2>1, <2>2, Tasks DEF Go, PosOK
<1>2. CASE StopWake(t)
  <2>1. back[t] \in PcOf(t) /\ t \notin Sleepers /\ Write(t, Wake, back[t])
    BY <1>2, Places DEF StopWake, Sleepers, PosOK
  <2>2. t # Client => pc'[Client] = pc[Client]
    BY <2>1, Written, Tasks
  <2>3. t = Client => pc'[Client] = back[Client]
    BY <2>1, Written
  <2>4. decoder_status' = decoder_status /\ pc[t] # "created"
    BY <1>2 DEF StopWake, flags
  <2> QED  BY <2>2, <2>3, <2>4, Places, Tasks DEF PosOK
<1> QED  BY <1>1, <1>2

LEMMA CreateCounts ==
  ASSUME IInv, NEW d \in Decoder, Create(d)
  PROVE  Counts'
<1> USE DEF IInv
<1>1. \A e \in Decoder : ~Early(e)
  BY DEF StatusTells, StatusRead, Create
<1>2. /\ pc' = [pc EXCEPT ![Client] = "created", ![d] = IF content = "aac" THEN "read" ELSE "input"]
      /\ kind' = [kind EXCEPT ![d] = content]
  BY DEF Create
<1>3. \A e \in Decoder : e # d => ~Early(e)'
  <2> TAKE e \in Decoder
  <2> HAVE e # d
  <2>1. pc'[e] = pc[e] /\ kind'[e] = kind[e]
    BY <1>2, Tasks DEF PosOK, DataOK
  <2> QED  BY <2>1, <1>1, LeftEarly DEF Left
<1>4. pc'[Client] = "created"
  BY <1>2, Tasks DEF PosOK
<1> QED  BY <1>3, <1>4 DEF Counts, OneEarly, StatusTells, StatusRead

LEMMA ClientCounts ==
  ASSUME IInv, Connect \/ ClientStep
  PROVE  Counts'
<1> USE DEF IInv
<1>1. ASSUME NEW d \in Decoder, Create(d) PROVE Counts'
  BY <1>1, CreateCounts
<1>2. CASE ~ \E d \in Decoder : Create(d)
  <2>1. \A d \in Decoder : Early(d)' => Early(d)
    BY <1>2, ClientLeaves, LeftEarly
  <2>2. OneEarly'
    BY <2>1 DEF OneEarly
  <2>3. CASE Created
    BY <2>2, <2>3, Tasks DEF Created, Counts, StatusTells, StatusRead, Go,
       PosOK
  <2>4. CASE StopStep(Client)
    BY <2>1, <2>2, <2>4, StopAside, Tasks DEF Counts, StatusTells, StatusRead
  <2>5. CASE ~ Created /\ ~ StopStep(Client)
    <3>1. /\ decoder_status' = decoder_status
          /\ pc[Client] # "created"
      BY <1>2, <2>5 DEF ClientStep, Connect, BeginStream, StartEof,
         StartCommand, StartDecoderCommand, StartStatus, ConsumerTest,
         SilentDisconnect, ConsumerWrite, DecoderTest, LevelTest, CreateFails,
         EndAsked, EndNoData, EndOnce, Drain, DrainDelay, EndEof,
         ClearAll, flags
    <3>2. pc'[Client] \in {"level", "create"} => decoder_status # "running"
      <4>1. CASE ConsumerWrite
        <5>1. PICK k \in Chunk : Write(Client, k, "written")
          BY <4>1 DEF ConsumerWrite
        <5>2. "written" \in PcOf(Client) /\ Client \notin Sleepers
          BY <4>1, Places DEF ConsumerWrite, Sleepers, ClientPc
        <5>3. pc'[Client] = "written"
          BY <5>1, <5>2, Tasks, Written
        <5> QED  BY <5>3
      <4>2. CASE DecoderTest
        BY <4>2, Tasks DEF DecoderTest, NeedsDecoder, Go, PosOK
      <4>3. CASE LevelTest
        BY <4>3, Tasks DEF LevelTest, StatusRead, Go, PosOK
      <4>4. CASE ~ ConsumerWrite /\ ~ DecoderTest /\ ~ LevelTest
        <5>1. \E l : l \notin {"level", "create"} /\ Go(Client, l)
          BY <1>2, <2>5, <4>4 DEF ClientStep, Connect, BeginStream, StartEof,
             StartCommand, StartDecoderCommand, StartStatus, ConsumerTest,
             SilentDisconnect, CreateFails, EndAsked, EndNoData, EndOnce,
             Drain, DrainDelay, EndEof, ClearAll, StopUnlessStopped
        <5> QED  BY <5>1, Tasks DEF Go, PosOK
      <4> QED  BY <4>1, <4>2, <4>3, <4>4
    <3> QED  BY <2>1, <2>2, <3>1, <3>2 DEF Counts, StatusTells, StatusRead
  <2> QED  BY <2>3, <2>4, <2>5
<1> QED  BY <1>1, <1>2

LEMMA DecoderCounts ==
  ASSUME IInv, NEW d \in Decoder, DecoderStep(d)
  PROVE  Counts'
<1> USE DEF IInv
<1>1. \A e \in Decoder : Early(e)' => Early(e)
  BY DecoderEarly
<1>2. OneEarly'
  BY <1>1 DEF OneEarly
<1>3. CASE StopStep(d)
  BY <1>1, <1>2, <1>3, StopAside, Tasks DEF Counts, StatusTells, StatusRead
<1>4. CASE DecoderStopped(d)
  <2>1. Early(d)
    BY <1>4 DEF DecoderStopped, Early
  <2>2. pc'[d] = "unset"
    BY <1>4, EndSteps
  <2>3. \A e \in Decoder : ~Early(e)'
    <3>1. ~Early(d)'
      BY <2>2 DEF Early, Running, Reading, InStop
    <3> QED  BY <3>1, <2>1, <1>1 DEF OneEarly
  <2>4. decoder_status' = "stopped"
    BY <1>4 DEF DecoderStopped
  <2> QED  BY <1>2, <2>3, <2>4 DEF Counts, StatusTells, StatusRead
<1>5. CASE ~ StopStep(d) /\ ~ DecoderStopped(d)
  <2>1. decoder_status' = decoder_status
    BY <1>5 DEF DecoderStep, DecoderInput, DecoderRead, DecoderWoken,
       DecoderTestStop, RenderFails, DecoderAbort, DecoderReset, DecoderUnset,
       flags
  <2>2. \E l : Go(d, l)
    BY <1>5 DEF DecoderStep, DecoderInput, DecoderRead, DecoderWoken, Taken,
       DecoderTestStop, RenderFails, DecoderAbort, DecoderReset, DecoderUnset,
       GoOn
  <2>3. pc'[Client] = pc[Client]
    BY <2>2, Tasks DEF Go, PosOK
  <2> QED  BY <1>1, <1>2, <2>1, <2>3 DEF Counts, StatusTells, StatusRead
<1> QED  BY <1>3, <1>4, <1>5

LEMMA StopperCounts ==
  ASSUME IInv, NEW s \in Stopper, UserStop(s) \/ UserStopPlayer(s) \/ StopStep(s)
  PROVE  Counts'
<1> USE DEF IInv
<1>1. \A d \in Decoder : Early(d)' => Early(d)
  BY StopperLeaves, LeftEarly, StopEarly, Tasks
<1>2. decoder_status' = decoder_status /\ pc'[Client] = pc[Client]
  <2>1. CASE StopStep(s)
    BY <2>1, StopAside, Tasks
  <2>2. CASE UserStop(s) \/ UserStopPlayer(s)
    <3>1. decoder_status' = decoder_status /\ \E l : Go(s, l)
      BY <2>2 DEF UserStop, UserStopPlayer, StopUnlessStopped, flags
    <3> QED  BY <3>1, Tasks DEF Go, PosOK
  <2> QED  BY <2>1, <2>2
<1> QED  BY <1>1, <1>2 DEF Counts, OneEarly, StatusTells, StatusRead

LEMMA StepIInv == IInv /\ [Next]_vars => IInv'
<1> SUFFICES ASSUME IInv, [Next]_vars PROVE IInv'
  OBVIOUS
<1>1. CASE Connect \/ ClientStep
  BY <1>1, ClientPos, ClientData, ClientCounts DEF IInv, Counts
<1>2. ASSUME NEW d \in Decoder, DecoderStep(d) PROVE IInv'
  BY <1>2, DecoderPos, DecoderData, DecoderCounts DEF IInv, Counts
<1>3. ASSUME NEW s \in Stopper, UserStop(s) \/ UserStopPlayer(s) PROVE IInv'
  <2>1. DataOK'
    BY <1>3 DEF IInv, DataOK, UserStop, UserStopPlayer, flags
  <2> QED  BY <1>3, <2>1, StopperPos, StopperCounts DEF IInv, Counts
<1>4. ASSUME NEW s \in Stopper, StopStep(s) PROVE IInv'
  BY <1>4, StopPos, StopData, StopperCounts, Tasks DEF IInv, Counts
<1>5. CASE UNCHANGED vars
  BY <1>5 DEF vars, IInv, PosOK, DataOK, OneEarly, StatusTells, StatusRead,
     Early, Running, Reading, InStop
<1> QED  BY <1>1, <1>2, <1>3, <1>4, <1>5 DEF Next

LEMMA Invariance == Spec => []IInv
BY InitIInv, StepIInv, PTL DEF Spec

-----------------------------------------------------------------------------
\* Every task is where its code has a step, and the FIFO never holds more than
\* a stream buffer of Len bytes can, whoever writes it.
THEOREM Typing == Spec => []TypeOK
<1>1. IInv => TypeOK
  BY DEF IInv, PosOK, DataOK, TypeOK
<1> QED  BY <1>1, Invariance, PTL

\* The FIFO has one reader at most: start_decoder_task never starts a decoder
\* while an earlier one still reads, although all that keeps it from that is
\* decoder_status, which the webclient writes after the creation.
THEOREM OneReader == Spec => []SingleReader
<1>1. IInv => SingleReader
  BY DEF IInv, OneEarly, SingleReader, Early
<1> QED  BY <1>1, Invariance, PTL

\* With software decoders only a decoder that has not written STOPPED may be
\* about to empty the FIFO.
Mp3Resets == \A d \in Decoder : pc[d] = "reset" => kind[d] = "mp3"

LEMMA LeftResets ==
  ASSUME Mp3Resets, NEW d \in Decoder, Left(d), pc'[d] = "reset" PROVE kind'[d] = "mp3"
BY DEF Mp3Resets, Left

LEMMA StopResets ==
  ASSUME PosOK, Mp3Resets, NEW t \in Task, StopStep(t) PROVE Mp3Resets'
<1>1. ASSUME NEW d \in Decoder, d = t PROVE pc'[d] # "reset"
  <2>1. CASE StopWake(t)
    <3>1. back[t] \in PcOf(t) /\ t \notin Sleepers /\ Write(t, Wake, back[t])
      BY <2>1, Places DEF StopWake, Sleepers, PosOK
    <3>2. pc'[d] = back[d]
      BY <3>1, <1>1, Written, Tasks
    <3> QED  BY <3>2, Places, Tasks DEF PosOK
  <2>2. CASE ~ StopWake(t)
    <3>1. \E l : l # "reset" /\ Go(t, l)
      BY <2>2 DEF StopStep, StopDecoderCommand, StopCommand, StopEof, StopNone,
         StopStatus
    <3> QED  BY <3>1, <1>1, Tasks DEF Go, PosOK
  <2> QED  BY <2>1, <2>2
<1> QED  BY <1>1, StopLeaves, LeftResets DEF Mp3Resets

LEMMA DecoderResets ==
  ASSUME Kind \subseteq {"mp3", "aac"}, PosOK, DataOK, Mp3Resets,
         NEW d \in Decoder, DecoderStep(d)
  PROVE  Mp3Resets'
<1>1. ASSUME NEW e \in Decoder, e # d, pc'[e] = "reset" PROVE kind'[e] = "mp3"
  BY <1>1, DecoderLeaves, LeftResets
<1>2. CASE StopStep(d)
  BY <1>2, StopResets, Tasks
<1>3. CASE ~ StopStep(d)
  <2>1. SUFFICES ASSUME pc'[d] = "reset" PROVE kind'[d] = "mp3"
    BY <1>1 DEF Mp3Resets
  <2>2. CASE DecoderInput(d) \/ DecoderTestStop(d)
    <3>1. kind' = kind /\ \E l : l \in {"read", "input", Leave(d)} /\ Go(d, l)
      BY <2>2 DEF DecoderInput, DecoderTestStop
    <3>2. Leave(d) = "reset"
      BY <3>1, <2>1, Tasks DEF Go, PosOK
    <3> QED  BY <3>1, <3>2 DEF Leave, After
  <2>3. CASE DecoderRead(d) \/ DecoderWoken(d) \/ RenderFails(d)
    <3>1. \E l : l \in {"asleep", "input", "decode", "stop", back[d]} /\ Go(d, l)
      BY <2>3 DEF DecoderRead, DecoderWoken, RenderFails, Taken
    <3>2. back[d] # "reset"
      BY Places, Tasks DEF PosOK
    <3> QED  BY <3>1, <3>2, <2>1, Tasks DEF Go, PosOK
  <2>4. CASE DecoderAbort(d)
    BY <2>4, <2>1, EndSteps DEF After
  <2>5. kind[d] # "vs"
    BY DEF DataOK
  <2>6. CASE DecoderReset(d) \/ DecoderStopped(d) \/ DecoderUnset(d)
    BY <2>6, <2>5, <2>1, EndSteps DEF After
  <2> QED  BY <1>3, <2>2, <2>3, <2>4, <2>6 DEF DecoderStep
<1> QED  BY <1>2, <1>3

LEMMA StepResets ==
  ASSUME Kind \subseteq {"mp3", "aac"}, IInv, Mp3Resets, [Next]_vars
  PROVE  Mp3Resets'
<1> USE DEF IInv
<1>1. ASSUME NEW d \in Decoder, Create(d) PROVE Mp3Resets'
  <2>1. pc' = [pc EXCEPT ![Client] = "created", ![d] = IF content = "aac" THEN "read" ELSE "input"]
        /\ kind' = [kind EXCEPT ![d] = content]
    BY <1>1 DEF Create
  <2> QED  BY <2>1, Tasks DEF Mp3Resets, PosOK, DataOK
<1>2. CASE (Connect \/ ClientStep) /\ ~ \E d \in Decoder : Create(d)
  BY <1>2, ClientLeaves, LeftResets DEF Mp3Resets
<1>3. ASSUME NEW d \in Decoder, DecoderStep(d) PROVE Mp3Resets'
  BY <1>3, DecoderResets
<1>4. ASSUME NEW s \in Stopper, UserStop(s) \/ UserStopPlayer(s) PROVE Mp3Resets'
  BY <1>4, StopperLeaves, LeftResets DEF Mp3Resets
<1>5. ASSUME NEW s \in Stopper, StopStep(s) PROVE Mp3Resets'
  BY <1>5, StopResets, Tasks
<1>6. CASE UNCHANGED vars
  BY <1>6 DEF vars, Mp3Resets
<1> QED  BY <1>1, <1>2, <1>3, <1>4, <1>5, <1>6 DEF Next

\* An mp3 or aac decoder that ends never throws away bytes another decoder is
\* there to play: it empties the FIFO before its STOPPED lets one be created.
THEOREM CleanupIsSafe ==
  ASSUME Kind \subseteq {"mp3", "aac"} PROVE Spec => CleanupSparesSuccessor
<1>1. Init => Mp3Resets
  BY Tasks DEF Init, Mp3Resets
<1>2. IInv /\ Mp3Resets /\ [Next]_vars => IInv' /\ Mp3Resets'
  BY StepIInv, StepResets
<1>3. IInv /\ Mp3Resets /\ [Next]_vars
        => [\A d, e \in Decoder : pc[d] = "reset" /\ pc'[d] # "reset" /\ d # e
                                    => pc[e] \in {"none", "unset"}]_vars
  <2> SUFFICES ASSUME IInv, Mp3Resets, NEW d \in Decoder, NEW e \in Decoder,
                      pc[d] = "reset", d # e
               PROVE  pc[e] \in {"none", "unset"}
    OBVIOUS
  <2>1. Early(d) /\ ~ Early(e)
    BY DEF IInv, OneEarly, Mp3Resets, Early
  <2>2. pc[e] \in StopPc \cup DecoderPc
    BY Places, Tasks DEF IInv, PosOK
  <2> QED BY <2>1, <2>2 DEF Early, Running, Reading, InStop, Mp3Resets, StopPc,
              DecoderPc
<1> QED  BY <1>1, <1>2, <1>3, InitIInv, PTL DEF Spec, CleanupSparesSuccessor


=============================================================================
