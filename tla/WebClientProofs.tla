-------------------------- MODULE WebClientProofs --------------------------
(***************************************************************************)
(* Proofs about WebClient, for any number of tasks that command the radio   *)
(* and whatever they ask for.                                               *)
(***************************************************************************)
EXTENDS WebClient, TLAPS

\* The parts of TypeOK.
PosOK  == /\ pc \in [Task -> Pc] /\ \A t \in Task : pc[t] \in PcOf(t)
          /\ back \in [Task -> Pc] /\ \A t \in Task : back[t] \in BackOf(t)
FlagOK == /\ sConnect \in BOOLEAN /\ sConnected \in BOOLEAN
          /\ sDisconnect \in BOOLEAN /\ asked \in BOOLEAN
          /\ once \in BOOLEAN /\ playing \in BOOLEAN /\ running \in BOOLEAN
          /\ tail \in BOOLEAN /\ chunked \in BOOLEAN /\ closed \in BOOLEAN
DataOK == /\ cstatus \in {"header", "header1", "playlist", "playlist1", "data"}
          /\ bytes \in {"some", "none", "error"}
          /\ cnterror \in 0..MaxError
          /\ on \subseteq {"merus", "i2s"}

\* sDisconnect holds a stop of this session, or one that is about to be dropped.
StopKnown == sDisconnect = TRUE => (asked = TRUE \/ pc[Client] = "drop")

\* The webclient is at one of the places S, or in a call it made there.
In(S) == pc[Client] \in S \/ (pc[Client] \in CallPc /\ back[Client] \in S)

\* Where it receives, and where `playing' may be set.
Receiving == Loop \cup {"reconnect"}
Session   == Receiving \cup {"after", "restart", "restarted", "drain",
                             "drain unheard", "end"}

PlaysInSession == playing = TRUE => In(Session)
CountBelow     == In(Receiving) => cnterror < MaxError

IInv == PosOK /\ FlagOK /\ DataOK /\ StopKnown /\ PlaysInSession /\ CountBelow

-----------------------------------------------------------------------------
LEMMA Tasks == Client \in Task /\ \A u \in User : u \in Task /\ u # Client
BY TaskAssumption DEF Client, Task

LEMMA Places ==
  /\ BackOf(Client) = ClientPc /\ PcOf(Client) = CallPc \cup ClientPc
  /\ \A u \in User : BackOf(u) = UserPc /\ PcOf(u) = CallPc \cup UserPc
  /\ \A t \in Task : BackOf(t) \subseteq PcOf(t) /\ PcOf(t) \subseteq Pc
                     /\ CallPc \subseteq PcOf(t)
BY Tasks DEF BackOf, PcOf, Pc

\* A step of task t to a place of its own, a call, and a return.
LEMMA Moved ==
  ASSUME PosOK, NEW t \in Task, NEW l \in PcOf(t), Go(t, l)
  PROVE  /\ pc' \in [Task -> Pc] /\ \A u \in Task : pc'[u] \in PcOf(u)
         /\ pc'[t] = l /\ \A u \in Task : u # t => pc'[u] = pc[u]
BY Places DEF PosOK, Go

LEMMA Called ==
  ASSUME PosOK, NEW t \in Task, NEW f \in CallPc \cup PcOf(t), NEW l \in BackOf(t),
         Call(t, f, l)
  PROVE  /\ PosOK' /\ pc'[t] = f /\ back'[t] = l
         /\ \A u \in Task : u # t => pc'[u] = pc[u] /\ back'[u] = back[u]
<1>1. f \in PcOf(t) /\ Go(t, f)
  BY Places DEF Call
<1>2. /\ pc' \in [Task -> Pc] /\ \A u \in Task : pc'[u] \in PcOf(u)
      /\ pc'[t] = f /\ \A u \in Task : u # t => pc'[u] = pc[u]
  BY <1>1, Moved
<1>3. /\ back' \in [Task -> Pc] /\ \A u \in Task : back'[u] \in BackOf(u)
      /\ back'[t] = l /\ \A u \in Task : u # t => back'[u] = back[u]
  BY Places DEF PosOK, Call
<1> QED  BY <1>2, <1>3 DEF PosOK

LEMMA Returned ==
  ASSUME PosOK, NEW t \in Task, Return(t)
  PROVE  /\ PosOK' /\ pc'[t] = back[t] /\ back' = back
         /\ \A u \in Task : u # t => pc'[u] = pc[u]
<1>1. back[t] \in PcOf(t) /\ Go(t, back[t]) /\ back' = back
  BY Places DEF PosOK, Return
<1> QED  BY <1>1, Moved DEF PosOK

-----------------------------------------------------------------------------
(* Every step leaves the tasks at places of theirs. *)
LEMMA StopPos ==
  ASSUME PosOK, NEW t \in Task, StopStep(t)
  PROVE  PosOK'
<1> USE Places, Moved, Called, Returned DEF PosOK, CallPc
<1>1. CASE StopRunning(t)
  BY <1>1 DEF StopRunning
<1>2. CASE StopGive(t)
  BY <1>2 DEF StopGive
<1>3. CASE StopI2s(t)
  BY <1>3 DEF StopI2s
<1>4. CASE StopMerus(t)
  BY <1>4 DEF StopMerus
<1> QED  BY <1>1, <1>2, <1>3, <1>4 DEF StopStep

LEMMA ConnectPos ==
  ASSUME PosOK, NEW t \in Task, ConnectStep(t)
  PROVE  PosOK'
<1> USE Places, Moved, Called, Returned DEF PosOK, CallPc
<1>1. CASE ConnectStatus(t)
  BY <1>1 DEF ConnectStatus
<1>2. CASE Resolved(t)
  BY <1>2 DEF Resolved
<1>3. CASE Unresolved(t)
  BY <1>3 DEF Unresolved
<1> QED  BY <1>1, <1>2, <1>3 DEF ConnectStep

LEMMA SilentPos ==
  ASSUME PosOK, NEW t \in Task, SilentStep(t)
  PROVE  PosOK'
<1> USE Places, Moved, Called, Returned DEF PosOK, CallPc
<1>1. CASE SilentDisconnect(t)
  BY <1>1 DEF SilentDisconnect
<1>2. CASE NotConnected(t)
  BY <1>2 DEF NotConnected
<1>3. CASE GiveBack(t)
  BY <1>3 DEF GiveBack
<1>4. CASE WaitedEnough(t)
  BY <1>4 DEF WaitedEnough
<1> QED  BY <1>1, <1>2, <1>3, <1>4 DEF SilentStep

LEMMA CallStepPos ==
  ASSUME PosOK, NEW t \in Task, CallStep(t)
  PROVE  PosOK'
BY StopPos, ConnectPos, SilentPos DEF CallStep

LEMMA AskPos ==
  ASSUME PosOK, NEW u \in User, Ask(u)
  PROVE  PosOK'
<1> USE Tasks, Places, Moved, Called, Returned DEF PosOK, CallPc, UserPc
<1>1. CASE AskStation(u)
  BY <1>1 DEF AskStation
<1>2. CASE AskInstant(u)
  BY <1>2 DEF AskInstant
<1>3. CASE AskStop(u)
  BY <1>3 DEF AskStop
<1>4. CASE Wake(u)
  BY <1>4 DEF Wake
<1>5. CASE WifiLost(u)
  BY <1>5 DEF WifiLost
<1> QED  BY <1>1, <1>2, <1>3, <1>4, <1>5 DEF Ask

LEMMA UserPos ==
  ASSUME PosOK, NEW u \in User, UserStep(u)
  PROVE  PosOK'
<1> USE Tasks, Places, Moved, Called, Returned DEF PosOK, CallPc, UserPc
<1>1. CASE CallStep(u)
  BY <1>1, CallStepPos
<1>2. CASE SetRunning(u)
  BY <1>2 DEF SetRunning
<1>3. CASE NoStation(u)
  BY <1>3 DEF NoStation
<1>4. CASE MerusOn(u)
  BY <1>4 DEF MerusOn
<1>5. CASE I2sOn(u)
  BY <1>5 DEF I2sOn
<1>6. CASE InstantConnect(u)
  BY <1>6 DEF InstantConnect
<1>7. CASE SetOnce(u)
  BY <1>7 DEF SetOnce
<1> QED  BY <1>1, <1>2, <1>3, <1>4, <1>5, <1>6, <1>7 DEF UserStep

LEMMA LoopPos ==
  ASSUME PosOK, LoopStep
  PROVE  PosOK'
<1> USE Tasks, Places, Moved, Called, Returned DEF PosOK, CallPc, ClientPc, Loop
<1>1. CASE Received
  BY <1>1 DEF Received
<1>2. CASE NoData
  BY <1>2 DEF NoData
<1>3. CASE LoopTest
  BY <1>3 DEF LoopTest
<1>4. CASE NotFound
  BY <1>4 DEF NotFound
<1>5. CASE PlaylistParsed
  BY <1>5 DEF PlaylistParsed
<1>6. CASE PlaylistMore
  BY <1>6 DEF PlaylistMore
<1>7. CASE Redirect
  BY <1>7 DEF Redirect
<1>8. CASE Redirected
  BY <1>8 DEF Redirected
<1>9. CASE Header
  BY <1>9 DEF Header
<1>10. CASE StreamFound
  BY <1>10 DEF StreamFound
<1>11. CASE LengthRead
  BY <1>11 DEF LengthRead, Behind
<1>12. CASE LengthError
  BY <1>12 DEF LengthError, Behind
<1>13. CASE LengthMissing
  BY <1>13 DEF LengthMissing
<1>14. CASE LengthDelay
  BY <1>14 DEF LengthDelay
<1>15. CASE Data
  BY <1>15 DEF Data
<1>16. CASE NextChunk
  BY <1>16 DEF NextChunk
<1>17. CASE BadChunk
  BY <1>17 DEF BadChunk
<1>18. CASE Reconnect
  BY <1>18 DEF Reconnect
<1>19. CASE StoppedData
  BY <1>19 DEF StoppedData
<1>20. CASE Dropped
  BY <1>20 DEF Dropped
<1>21. CASE NoDecoder
  BY <1>21 DEF NoDecoder
<1>22. CASE Undecoded
  BY <1>22 DEF Undecoded
<1> QED  BY <1>1, <1>2, <1>3, <1>4, <1>5, <1>6, <1>7, <1>8, <1>9, <1>10, <1>11, <1>12, <1>13, <1>14, <1>15, <1>16, <1>17, <1>18, <1>19, <1>20, <1>21, <1>22 DEF LoopStep

LEMMA AfterPos ==
  ASSUME PosOK, AfterStep
  PROVE  PosOK'
<1> USE Tasks, Places, Moved, Called, Returned DEF PosOK, CallPc, ClientPc
<1>1. CASE NothingToDo
  BY <1>1 DEF NothingToDo
<1>2. CASE TryRestart
  BY <1>2 DEF TryRestart
<1>3. CASE Restart
  BY <1>3 DEF Restart
<1>4. CASE Restarted
  BY <1>4 DEF Restarted
<1>5. CASE NothingReceived
  BY <1>5 DEF NothingReceived
<1>6. CASE Drain
  BY <1>6 DEF Drain
<1>7. CASE End
  BY <1>7 DEF End
<1>8. CASE ClearAll
  BY <1>8 DEF ClearAll
<1> QED  BY <1>1, <1>2, <1>3, <1>4, <1>5, <1>6, <1>7, <1>8 DEF AfterStep

LEMMA ClientPos ==
  ASSUME PosOK, ClientStep
  PROVE  PosOK'
<1> USE Tasks, Places, Moved, Called, Returned DEF PosOK, CallPc, ClientPc, Loop
<1>1. CASE NoSession
  BY <1>1 DEF NoSession
<1>2. CASE TakeConnect
  BY <1>2 DEF TakeConnect
<1>3. CASE DropDisconnect
  BY <1>3 DEF DropDisconnect
<1>4. CASE NoSocket
  BY <1>4 DEF NoSocket
<1>5. CASE ConnectionError
  BY <1>5 DEF ConnectionError
<1>6. CASE Connected
  BY <1>6 DEF Connected
<1>7. CASE Request
  BY <1>7 DEF Request
<1>8. CASE LoopStep
  BY <1>8, LoopPos
<1>9. CASE AfterStep
  BY <1>9, AfterPos
<1>10. CASE CallStep(Client)
  BY <1>10, CallStepPos
<1> QED  BY <1>1, <1>2, <1>3, <1>4, <1>5, <1>6, <1>7, <1>8, <1>9, <1>10 DEF ClientStep

-----------------------------------------------------------------------------
(* The values of what the tasks share. *)
LEMMA StopStepDataOK ==
  ASSUME DataOK, NEW t \in Task, StopStep(t)
  PROVE  DataOK'
<1> USE LimitAssumption DEF DataOK, sems, session, conn, audio
<1>1. CASE StopRunning(t)
  BY <1>1 DEF StopRunning
<1>2. CASE StopGive(t)
  BY <1>2 DEF StopGive
<1>3. CASE StopI2s(t)
  BY <1>3 DEF StopI2s
<1>4. CASE StopMerus(t)
  BY <1>4 DEF StopMerus
<1> QED  BY <1>1, <1>2, <1>3, <1>4 DEF StopStep

LEMMA ConnectStepDataOK ==
  ASSUME DataOK, NEW t \in Task, ConnectStep(t)
  PROVE  DataOK'
<1> USE LimitAssumption DEF DataOK, sems, session, conn, audio
<1>1. CASE ConnectStatus(t)
  BY <1>1 DEF ConnectStatus
<1>2. CASE Resolved(t)
  BY <1>2 DEF Resolved
<1>3. CASE Unresolved(t)
  BY <1>3 DEF Unresolved
<1> QED  BY <1>1, <1>2, <1>3 DEF ConnectStep

LEMMA SilentStepDataOK ==
  ASSUME DataOK, NEW t \in Task, SilentStep(t)
  PROVE  DataOK'
<1> USE LimitAssumption DEF DataOK, sems, session, conn, audio
<1>1. CASE SilentDisconnect(t)
  BY <1>1 DEF SilentDisconnect
<1>2. CASE NotConnected(t)
  BY <1>2 DEF NotConnected
<1>3. CASE GiveBack(t)
  BY <1>3 DEF GiveBack
<1>4. CASE WaitedEnough(t)
  BY <1>4 DEF WaitedEnough
<1> QED  BY <1>1, <1>2, <1>3, <1>4 DEF SilentStep

LEMMA CallStepDataOK ==
  ASSUME DataOK, NEW t \in Task, CallStep(t)
  PROVE  DataOK'
BY StopStepDataOK, ConnectStepDataOK, SilentStepDataOK DEF CallStep

LEMMA AskDataOK ==
  ASSUME DataOK, NEW u \in User, Ask(u)
  PROVE  DataOK'
<1> USE LimitAssumption DEF DataOK, sems, session, conn, audio
<1>1. CASE AskStation(u)
  BY <1>1 DEF AskStation
<1>2. CASE AskInstant(u)
  BY <1>2 DEF AskInstant
<1>3. CASE AskStop(u)
  BY <1>3 DEF AskStop
<1>4. CASE Wake(u)
  BY <1>4 DEF Wake
<1>5. CASE WifiLost(u)
  BY <1>5 DEF WifiLost
<1> QED  BY <1>1, <1>2, <1>3, <1>4, <1>5 DEF Ask

LEMMA LoopStepDataOK ==
  ASSUME DataOK, CountBelow, LoopStep
  PROVE  DataOK'
<1> USE LimitAssumption DEF DataOK, sems, session, conn, audio
<1>1. CASE Received
  BY <1>1 DEF Received
<1>2. CASE NoData
  <2>1. cnterror < MaxError
    BY <1>2 DEF NoData, In, Receiving, Loop, CountBelow
  <2> QED  BY <1>2, <2>1 DEF NoData, ReadsOn
<1>3. CASE LoopTest
  BY <1>3 DEF LoopTest, StopSeen
<1>4. CASE NotFound
  BY <1>4 DEF NotFound
<1>5. CASE PlaylistParsed
  BY <1>5 DEF PlaylistParsed
<1>6. CASE PlaylistMore
  BY <1>6 DEF PlaylistMore
<1>7. CASE Redirect
  BY <1>7 DEF Redirect
<1>8. CASE Redirected
  BY <1>8 DEF Redirected
<1>9. CASE Header
  BY <1>9 DEF Header
<1>10. CASE StreamFound
  BY <1>10 DEF StreamFound
<1>11. CASE LengthRead
  BY <1>11 DEF LengthRead, Behind
<1>12. CASE LengthError
  BY <1>12 DEF LengthError, Behind
<1>13. CASE LengthMissing
  BY <1>13 DEF LengthMissing
<1>14. CASE LengthDelay
  BY <1>14 DEF LengthDelay
<1>15. CASE Data
  BY <1>15 DEF Data
<1>16. CASE NextChunk
  BY <1>16 DEF NextChunk
<1>17. CASE BadChunk
  BY <1>17 DEF BadChunk
<1>18. CASE Reconnect
  BY <1>18 DEF Reconnect
<1>19. CASE StoppedData
  BY <1>19 DEF StoppedData
<1>20. CASE Dropped
  BY <1>20 DEF Dropped
<1>21. CASE NoDecoder
  BY <1>21 DEF NoDecoder
<1>22. CASE Undecoded
  BY <1>22 DEF Undecoded
<1> QED  BY <1>1, <1>2, <1>3, <1>4, <1>5, <1>6, <1>7, <1>8, <1>9, <1>10, <1>11, <1>12, <1>13, <1>14, <1>15, <1>16, <1>17, <1>18, <1>19, <1>20, <1>21, <1>22 DEF LoopStep

LEMMA AfterStepDataOK ==
  ASSUME DataOK, AfterStep
  PROVE  DataOK'
<1> USE LimitAssumption DEF DataOK, sems, session, conn, audio
<1>1. CASE NothingToDo
  BY <1>1 DEF NothingToDo
<1>2. CASE TryRestart
  BY <1>2 DEF TryRestart
<1>3. CASE Restart
  BY <1>3 DEF Restart
<1>4. CASE Restarted
  BY <1>4 DEF Restarted
<1>5. CASE NothingReceived
  BY <1>5 DEF NothingReceived
<1>6. CASE Drain
  BY <1>6 DEF Drain
<1>7. CASE End
  BY <1>7 DEF End, PlayingAfter
<1>8. CASE ClearAll
  BY <1>8 DEF ClearAll
<1> QED  BY <1>1, <1>2, <1>3, <1>4, <1>5, <1>6, <1>7, <1>8 DEF AfterStep

LEMMA UserStepDataOK ==
  ASSUME DataOK, NEW u \in User, UserStep(u)
  PROVE  DataOK'
<1> USE LimitAssumption DEF DataOK, sems, session, conn, audio
<1>1. CASE CallStep(u)
  BY <1>1, Tasks, CallStepDataOK
<1>2. CASE SetRunning(u)
  BY <1>2 DEF SetRunning
<1>3. CASE NoStation(u)
  BY <1>3 DEF NoStation
<1>4. CASE MerusOn(u)
  BY <1>4 DEF MerusOn
<1>5. CASE I2sOn(u)
  BY <1>5 DEF I2sOn
<1>6. CASE InstantConnect(u)
  BY <1>6 DEF InstantConnect
<1>7. CASE SetOnce(u)
  BY <1>7 DEF SetOnce
<1> QED  BY <1>1, <1>2, <1>3, <1>4, <1>5, <1>6, <1>7 DEF UserStep

LEMMA NextDataOK ==
  ASSUME DataOK, CountBelow, Next
  PROVE  DataOK'
<1> USE LimitAssumption DEF DataOK, sems, session, conn, audio
<1>1. CASE LoopStep \/ AfterStep
  BY <1>1, LoopStepDataOK, AfterStepDataOK
<1>2. CASE CallStep(Client)
  BY <1>2, Tasks, CallStepDataOK
<1>3. ASSUME NEW u \in User, Ask(u) \/ UserStep(u) PROVE DataOK'
  BY <1>3, AskDataOK, UserStepDataOK
<1>4. CASE NoSession
  BY <1>4 DEF NoSession
<1>5. CASE TakeConnect
  BY <1>5 DEF TakeConnect
<1>6. CASE DropDisconnect
  BY <1>6 DEF DropDisconnect
<1>7. CASE NoSocket
  BY <1>7 DEF NoSocket
<1>8. CASE ConnectionError
  BY <1>8 DEF ConnectionError
<1>9. CASE Connected
  BY <1>9 DEF Connected
<1>10. CASE Request
  BY <1>10 DEF Request
<1>11. CASE Drained
  BY <1>11 DEF Drained
<1>12. CASE ServerCloses
  BY <1>12 DEF ServerCloses
<1> QED  BY <1>1, <1>2, <1>3, <1>4, <1>5, <1>6, <1>7, <1>8, <1>9, <1>10, <1>11, <1>12 DEF Next, ClientStep

LEMMA StopStepFlagOK ==
  ASSUME FlagOK, NEW t \in Task, StopStep(t)
  PROVE  FlagOK'
<1> USE LimitAssumption DEF FlagOK, sems, session, conn, audio
<1>1. CASE StopRunning(t)
  BY <1>1 DEF StopRunning
<1>2. CASE StopGive(t)
  BY <1>2 DEF StopGive
<1>3. CASE StopI2s(t)
  BY <1>3 DEF StopI2s
<1>4. CASE StopMerus(t)
  BY <1>4 DEF StopMerus
<1> QED  BY <1>1, <1>2, <1>3, <1>4 DEF StopStep

LEMMA ConnectStepFlagOK ==
  ASSUME FlagOK, NEW t \in Task, ConnectStep(t)
  PROVE  FlagOK'
<1> USE LimitAssumption DEF FlagOK, sems, session, conn, audio
<1>1. CASE ConnectStatus(t)
  BY <1>1 DEF ConnectStatus
<1>2. CASE Resolved(t)
  BY <1>2 DEF Resolved
<1>3. CASE Unresolved(t)
  BY <1>3 DEF Unresolved
<1> QED  BY <1>1, <1>2, <1>3 DEF ConnectStep

LEMMA SilentStepFlagOK ==
  ASSUME FlagOK, NEW t \in Task, SilentStep(t)
  PROVE  FlagOK'
<1> USE LimitAssumption DEF FlagOK, sems, session, conn, audio
<1>1. CASE SilentDisconnect(t)
  BY <1>1 DEF SilentDisconnect
<1>2. CASE NotConnected(t)
  BY <1>2 DEF NotConnected
<1>3. CASE GiveBack(t)
  BY <1>3 DEF GiveBack
<1>4. CASE WaitedEnough(t)
  BY <1>4 DEF WaitedEnough
<1> QED  BY <1>1, <1>2, <1>3, <1>4 DEF SilentStep

LEMMA CallStepFlagOK ==
  ASSUME FlagOK, NEW t \in Task, CallStep(t)
  PROVE  FlagOK'
BY StopStepFlagOK, ConnectStepFlagOK, SilentStepFlagOK DEF CallStep

LEMMA AskFlagOK ==
  ASSUME FlagOK, NEW u \in User, Ask(u)
  PROVE  FlagOK'
<1> USE LimitAssumption DEF FlagOK, sems, session, conn, audio
<1>1. CASE AskStation(u)
  BY <1>1 DEF AskStation
<1>2. CASE AskInstant(u)
  BY <1>2 DEF AskInstant
<1>3. CASE AskStop(u)
  BY <1>3 DEF AskStop
<1>4. CASE Wake(u)
  BY <1>4 DEF Wake
<1>5. CASE WifiLost(u)
  BY <1>5 DEF WifiLost
<1> QED  BY <1>1, <1>2, <1>3, <1>4, <1>5 DEF Ask

LEMMA LoopStepFlagOK ==
  ASSUME FlagOK, LoopStep
  PROVE  FlagOK'
<1> USE LimitAssumption DEF FlagOK, sems, session, conn, audio
<1>1. CASE Received
  BY <1>1 DEF Received
<1>2. CASE NoData
  BY <1>2 DEF NoData
<1>3. CASE LoopTest
  BY <1>3 DEF LoopTest, StopSeen
<1>4. CASE NotFound
  BY <1>4 DEF NotFound
<1>5. CASE PlaylistParsed
  BY <1>5 DEF PlaylistParsed
<1>6. CASE PlaylistMore
  BY <1>6 DEF PlaylistMore
<1>7. CASE Redirect
  BY <1>7 DEF Redirect
<1>8. CASE Redirected
  BY <1>8 DEF Redirected
<1>9. CASE Header
  BY <1>9 DEF Header
<1>10. CASE StreamFound
  BY <1>10 DEF StreamFound
<1>11. CASE LengthRead
  BY <1>11 DEF LengthRead, Behind
<1>12. CASE LengthError
  BY <1>12 DEF LengthError, Behind
<1>13. CASE LengthMissing
  BY <1>13 DEF LengthMissing
<1>14. CASE LengthDelay
  BY <1>14 DEF LengthDelay
<1>15. CASE Data
  BY <1>15 DEF Data
<1>16. CASE NextChunk
  BY <1>16 DEF NextChunk
<1>17. CASE BadChunk
  BY <1>17 DEF BadChunk
<1>18. CASE Reconnect
  BY <1>18 DEF Reconnect
<1>19. CASE StoppedData
  BY <1>19 DEF StoppedData
<1>20. CASE Dropped
  BY <1>20 DEF Dropped
<1>21. CASE NoDecoder
  BY <1>21 DEF NoDecoder
<1>22. CASE Undecoded
  BY <1>22 DEF Undecoded
<1> QED  BY <1>1, <1>2, <1>3, <1>4, <1>5, <1>6, <1>7, <1>8, <1>9, <1>10, <1>11, <1>12, <1>13, <1>14, <1>15, <1>16, <1>17, <1>18, <1>19, <1>20, <1>21, <1>22 DEF LoopStep

LEMMA AfterStepFlagOK ==
  ASSUME FlagOK, AfterStep
  PROVE  FlagOK'
<1> USE LimitAssumption DEF FlagOK, sems, session, conn, audio
<1>1. CASE NothingToDo
  BY <1>1 DEF NothingToDo
<1>2. CASE TryRestart
  BY <1>2 DEF TryRestart
<1>3. CASE Restart
  BY <1>3 DEF Restart
<1>4. CASE Restarted
  BY <1>4 DEF Restarted
<1>5. CASE NothingReceived
  BY <1>5 DEF NothingReceived
<1>6. CASE Drain
  BY <1>6 DEF Drain
<1>7. CASE End
  BY <1>7 DEF End, PlayingAfter
<1>8. CASE ClearAll
  BY <1>8 DEF ClearAll
<1> QED  BY <1>1, <1>2, <1>3, <1>4, <1>5, <1>6, <1>7, <1>8 DEF AfterStep

LEMMA UserStepFlagOK ==
  ASSUME FlagOK, NEW u \in User, UserStep(u)
  PROVE  FlagOK'
<1> USE LimitAssumption DEF FlagOK, sems, session, conn, audio
<1>1. CASE CallStep(u)
  BY <1>1, Tasks, CallStepFlagOK
<1>2. CASE SetRunning(u)
  BY <1>2 DEF SetRunning
<1>3. CASE NoStation(u)
  BY <1>3 DEF NoStation
<1>4. CASE MerusOn(u)
  BY <1>4 DEF MerusOn
<1>5. CASE I2sOn(u)
  BY <1>5 DEF I2sOn
<1>6. CASE InstantConnect(u)
  BY <1>6 DEF InstantConnect
<1>7. CASE SetOnce(u)
  BY <1>7 DEF SetOnce
<1> QED  BY <1>1, <1>2, <1>3, <1>4, <1>5, <1>6, <1>7 DEF UserStep

LEMMA NextFlagOK ==
  ASSUME FlagOK, Next
  PROVE  FlagOK'
<1> USE LimitAssumption DEF FlagOK, sems, session, conn, audio
<1>1. CASE LoopStep \/ AfterStep
  BY <1>1, LoopStepFlagOK, AfterStepFlagOK
<1>2. CASE CallStep(Client)
  BY <1>2, Tasks, CallStepFlagOK
<1>3. ASSUME NEW u \in User, Ask(u) \/ UserStep(u) PROVE FlagOK'
  BY <1>3, AskFlagOK, UserStepFlagOK
<1>4. CASE NoSession
  BY <1>4 DEF NoSession
<1>5. CASE TakeConnect
  BY <1>5 DEF TakeConnect
<1>6. CASE DropDisconnect
  BY <1>6 DEF DropDisconnect, Kept
<1>7. CASE NoSocket
  BY <1>7 DEF NoSocket
<1>8. CASE ConnectionError
  BY <1>8 DEF ConnectionError
<1>9. CASE Connected
  BY <1>9 DEF Connected
<1>10. CASE Request
  BY <1>10 DEF Request
<1>11. CASE Drained
  BY <1>11 DEF Drained
<1>12. CASE ServerCloses
  BY <1>12 DEF ServerCloses
<1> QED  BY <1>1, <1>2, <1>3, <1>4, <1>5, <1>6, <1>7, <1>8, <1>9, <1>10, <1>11, <1>12 DEF Next, ClientStep

-----------------------------------------------------------------------------
(* Where the webclient is, through its calls. *)

\* The others do not move it.
LEMMA OthersMove ==
  ASSUME PosOK, NEW u \in User, Ask(u) \/ UserStep(u)
  PROVE  pc'[Client] = pc[Client] /\ back'[Client] = back[Client]
<1> USE Tasks DEF PosOK, Go, Call, Return
<1>1. CASE Ask(u)
  BY <1>1 DEF Ask, AskStation, AskInstant, AskStop, Wake, WifiLost
<1>2. CASE CallStep(u)
  BY <1>2 DEF CallStep, StopStep, ConnectStep, SilentStep, SilentDisconnect,
       NotConnected, GiveBack, WaitedEnough, StopRunning, StopGive, StopI2s, StopMerus,
              ConnectStatus, Resolved, Unresolved
<1>3. CASE SetRunning(u) \/ NoStation(u) \/ MerusOn(u) \/ I2sOn(u)
           \/ InstantConnect(u) \/ SetOnce(u)
  BY <1>3 DEF SetRunning,
              NoStation, MerusOn, I2sOn, InstantConnect, SetOnce
<1> QED  BY <1>1, <1>2, <1>3 DEF UserStep

\* A call of its own stays where it was made, and returns there.
LEMMA CallStays ==
  ASSUME PosOK, NEW S, S \cap CallPc = {},
         CallStep(Client)
  PROVE  In(S)' <=> In(S)
<1>1. back' = back /\ pc[Client] \in CallPc
  BY DEF CallStep, StopStep, ConnectStep, SilentStep, SilentDisconnect,
       NotConnected, GiveBack, WaitedEnough, StopRunning, StopGive, StopI2s, StopMerus,
         ConnectStatus, Resolved, Unresolved, Return, CallPc
<1>2. pc'[Client] \in CallPc \/ pc'[Client] = back[Client]
  <2> USE Tasks DEF PosOK, Go, Return, CallPc
  <2>1. CASE StopStep(Client)
    BY <2>1 DEF StopStep, StopRunning, StopGive, StopI2s, StopMerus
  <2>2. CASE ConnectStep(Client)
    BY <2>2 DEF ConnectStep, ConnectStatus, Resolved, Unresolved
  <2>3. CASE SilentStep(Client)
    BY <2>3 DEF SilentStep, SilentDisconnect, NotConnected, GiveBack, WaitedEnough
  <2> QED  BY <2>1, <2>2, <2>3 DEF CallStep
<1>3. back[Client] \notin CallPc
  <2>1. back[Client] \in ClientPc
    BY Tasks, Places DEF PosOK
  <2> QED  BY <2>1 DEF ClientPc, CallPc, Loop
<1> QED  BY <1>1, <1>2, <1>3 DEF In

LEMMA Apart == Receiving \cap CallPc = {} /\ Session \cap CallPc = {}
BY DEF Receiving, Session, Loop, CallPc

\* Neither the calls nor the other tasks change what these invariants speak of.
LEMMA CallsKeep ==
  ASSUME NEW t \in Task, CallStep(t)
  PROVE  playing' = playing /\ cnterror' = cnterror
BY DEF CallStep, StopStep, ConnectStep, SilentStep, SilentDisconnect,
       NotConnected, GiveBack, WaitedEnough, StopRunning, StopGive, StopI2s, StopMerus,
       ConnectStatus, Resolved, Unresolved, session, conn

LEMMA OthersKeep ==
  ASSUME NEW u \in User, Ask(u) \/ UserStep(u)
  PROVE  playing' = playing /\ cnterror' = cnterror
<1>1. CASE CallStep(u)
  BY <1>1, Tasks, CallsKeep
<1>2. CASE Ask(u)
  BY <1>2 DEF Ask, AskStation, AskInstant, AskStop, Wake, WifiLost, session, conn
<1>3. CASE SetRunning(u) \/ NoStation(u) \/ MerusOn(u) \/ I2sOn(u)
           \/ InstantConnect(u) \/ SetOnce(u)
  BY <1>3 DEF SetRunning,
              NoStation, MerusOn, I2sOn, InstantConnect, SetOnce, session, conn
<1> QED  BY <1>1, <1>2, <1>3 DEF UserStep

\* The webclient goes to l, or calls f and goes on at l.
LEMMA GoesIn ==
  ASSUME PosOK, NEW S, NEW l \in S, Go(Client, l) \/ (\E f \in CallPc : Call(Client, f, l))
  PROVE  In(S)'
BY Tasks DEF PosOK, In, Go, Call

\* The other places of the webclient's own code.
Elsewhere == {"top", "idle", "drop", "socket", "request", "after", "restart",
              "restarted", "drain", "drain unheard", "end", "clear"}

LEMMA LeavesReceiving ==
  ASSUME PosOK, NEW l \in Elsewhere,
         Go(Client, l) \/ (\E f \in CallPc : Call(Client, f, l))
  PROVE  CountBelow'
<1>0. l \notin CallPc /\ l \notin Receiving
  BY DEF Elsewhere, CallPc, Receiving, Loop
<1>1. Client \in Task
  BY Tasks
<1>2. CASE Go(Client, l)
  <2>1. pc'[Client] = l
    BY <1>1, <1>2 DEF PosOK, Go
  <2> QED  BY <2>1, <1>0 DEF CountBelow, In
<1>3. ASSUME NEW f \in CallPc, Call(Client, f, l) PROVE CountBelow'
  <2>1. pc'[Client] = f /\ back'[Client] = l
    BY <1>1, <1>3 DEF PosOK, Go, Call
  <2>2. f \notin Receiving
    BY Apart
  <2> QED  BY <2>1, <2>2, <1>0 DEF CountBelow, In
<1> QED  BY <1>2, <1>3

LEMMA CallNames == "stop" \in CallPc /\ "connect" \in CallPc
BY DEF CallPc

LEMMA CountBelowStep ==
  ASSUME PosOK, DataOK, CountBelow, Next
  PROVE  CountBelow'
<1> USE Tasks, LimitAssumption DEF DataOK
<1>1. ASSUME NEW u \in User, Ask(u) \/ UserStep(u) PROVE CountBelow'
  BY <1>1, OthersMove, OthersKeep DEF CountBelow, In
<1>2. CASE CallStep(Client)
  BY <1>2, CallStays, CallsKeep, Apart DEF CountBelow
<1>3. CASE LoopStep
  <2>1. CASE Received
    BY <2>1 DEF Received, CountBelow
  <2>2. CASE NoData
    <3>1. CASE cnterror' < MaxError
      BY <3>1 DEF CountBelow
    <3>2. CASE Go(Client, "after")
      BY <3>2, LeavesReceiving DEF Elsewhere
    <3> QED  BY <2>2, <3>1, <3>2 DEF NoData, ReadsOn
  <2>3. CASE ~Received /\ ~NoData
    <3>1. pc[Client] \in Receiving /\ cnterror' = cnterror
      BY <1>3, <2>3 DEF LoopStep, Receiving, Loop, session, conn,
           LoopTest, NotFound, PlaylistParsed, PlaylistMore, Redirect,
           Redirected, Header, StreamFound, LengthRead, LengthError,
           LengthMissing, LengthDelay, Data, StoppedData, Dropped,
           NoDecoder, Undecoded, InData, LengthWait, NextChunk, BadChunk,
           Reconnect
    <3> QED  BY <3>1 DEF CountBelow, In
  <2> QED  BY <2>1, <2>2, <2>3
<1>4. CASE ServerCloses
  BY <1>4 DEF ServerCloses, CountBelow, In
<1>5. CASE Request
  BY <1>5 DEF Request, CountBelow
<1>6. CASE AfterStep
  <2>1. CASE NothingToDo
    BY <2>1, LeavesReceiving DEF NothingToDo, Elsewhere
  <2>2. CASE TryRestart
    BY <2>2, LeavesReceiving, CallNames DEF TryRestart, Elsewhere
  <2>3. CASE Restart
    BY <2>3, LeavesReceiving, CallNames DEF Restart, Elsewhere
  <2>4. CASE Restarted
    BY <2>4, LeavesReceiving DEF Restarted, Elsewhere
  <2>5. CASE NothingReceived
    BY <2>5, LeavesReceiving, CallNames DEF NothingReceived, Elsewhere
  <2>6. CASE Drain
    BY <2>6, LeavesReceiving DEF Drain, Elsewhere
  <2>7. CASE End
    BY <2>7, LeavesReceiving DEF End, Elsewhere
  <2>8. CASE ClearAll
    BY <2>8, LeavesReceiving, CallNames DEF ClearAll, Elsewhere
  <2> QED  BY <1>6, <2>1, <2>2, <2>3, <2>4, <2>5, <2>6, <2>7, <2>8 DEF AfterStep
<1>7. CASE Drained
  BY <1>7, LeavesReceiving, CallNames DEF Drained, Elsewhere
<1>8. CASE NoSession \/ TakeConnect \/ DropDisconnect
           \/ NoSocket \/ ConnectionError \/ Connected
  <2>1. CASE NoSession
    BY <2>1, LeavesReceiving DEF NoSession, Elsewhere
  <2>2. CASE TakeConnect
    BY <2>2, LeavesReceiving DEF TakeConnect, Elsewhere
  <2>3. CASE DropDisconnect
    BY <2>3, LeavesReceiving DEF DropDisconnect, Elsewhere
  <2>4. CASE NoSocket
    BY <2>4, LeavesReceiving DEF NoSocket, Elsewhere
  <2>5. CASE ConnectionError
    BY <2>5, LeavesReceiving, CallNames DEF ConnectionError, Elsewhere
  <2>6. CASE Connected
    BY <2>6, LeavesReceiving DEF Connected, Elsewhere
  <2> QED  BY <1>8, <2>1, <2>2, <2>3, <2>4, <2>5, <2>6
<1> QED  BY <1>1, <1>2, <1>3, <1>4, <1>5, <1>6, <1>7, <1>8 DEF Next, ClientStep

LEMMA PlaysInSessionStep ==
  ASSUME PosOK, FlagOK, PlaysInSession, Next
  PROVE  PlaysInSession'
<1> USE Tasks
<1>1. ASSUME NEW u \in User, Ask(u) \/ UserStep(u) PROVE PlaysInSession'
  BY <1>1, OthersMove, OthersKeep DEF PlaysInSession, In
<1>2. CASE CallStep(Client)
  BY <1>2, CallStays, CallsKeep, Apart DEF PlaysInSession
<1>3. CASE LoopStep
  <2>1. CASE Received
    BY <2>1, GoesIn DEF Received, PlaysInSession, Session, Receiving, Loop, CallPc
  <2>2. CASE NoData
    BY <2>2, GoesIn DEF NoData, PlaysInSession, Session, Receiving, Loop, CallPc
  <2>3. CASE LoopTest
    BY <2>3, GoesIn DEF LoopTest, PlaysInSession, Session, Receiving, Loop, CallPc
  <2>4. CASE NotFound
    BY <2>4, GoesIn DEF NotFound, PlaysInSession, Session, Receiving, Loop, CallPc
  <2>5. CASE PlaylistParsed
    BY <2>5, GoesIn DEF PlaylistParsed, PlaysInSession, Session, Receiving, Loop, CallPc
  <2>6. CASE PlaylistMore
    BY <2>6, GoesIn DEF PlaylistMore, PlaysInSession, Session, Receiving, Loop, CallPc
  <2>7. CASE Redirect
    BY <2>7, GoesIn DEF Redirect, PlaysInSession, Session, Receiving, Loop, CallPc
  <2>8. CASE Redirected
    BY <2>8, GoesIn DEF Redirected, PlaysInSession, Session, Receiving, Loop, CallPc
  <2>9. CASE Header
    BY <2>9, GoesIn DEF Header, PlaysInSession, Session, Receiving, Loop, CallPc
  <2>10. CASE StreamFound
    BY <2>10, GoesIn DEF StreamFound, PlaysInSession, Session, Receiving, Loop, CallPc
  <2>11. CASE LengthRead
    BY <2>11, GoesIn DEF LengthRead, Behind, PlaysInSession, Session, Receiving, Loop, CallPc
  <2>12. CASE LengthError
    BY <2>12, GoesIn DEF LengthError, Behind, PlaysInSession, Session, Receiving, Loop, CallPc
  <2>13. CASE LengthMissing
    BY <2>13, GoesIn DEF LengthMissing, PlaysInSession, Session, Receiving, Loop, CallPc
  <2>14. CASE LengthDelay
    BY <2>14, GoesIn DEF LengthDelay, PlaysInSession, Session, Receiving, Loop, CallPc
  <2>15. CASE Data
    BY <2>15, GoesIn DEF Data, PlaysInSession, Session, Receiving, Loop, CallPc
  <2>16. CASE NextChunk
    BY <2>16, GoesIn DEF NextChunk, PlaysInSession, Session, Receiving, Loop, CallPc
  <2>17. CASE BadChunk
    BY <2>17, GoesIn DEF BadChunk, PlaysInSession, Session, Receiving, Loop, CallPc
  <2>18. CASE Reconnect
    BY <2>18, GoesIn DEF Reconnect, PlaysInSession, Session, Receiving, Loop, CallPc
  <2>19. CASE StoppedData
    BY <2>19, GoesIn DEF StoppedData, PlaysInSession, Session, Receiving, Loop, CallPc
  <2>20. CASE Dropped
    BY <2>20, GoesIn DEF Dropped, PlaysInSession, Session, Receiving, Loop, CallPc
  <2>21. CASE NoDecoder
    BY <2>21, GoesIn DEF NoDecoder, PlaysInSession, Session, Receiving, Loop, CallPc
  <2>22. CASE Undecoded
    BY <2>22, GoesIn DEF Undecoded, PlaysInSession, Session, Receiving, Loop, CallPc
  <2> QED  BY <1>3, <2>1, <2>2, <2>3, <2>4, <2>5, <2>6, <2>7, <2>8, <2>9, <2>10, <2>11, <2>12, <2>13, <2>14, <2>15, <2>16, <2>17, <2>18, <2>19, <2>20, <2>21, <2>22 DEF LoopStep
<1>4. CASE AfterStep
  <2>1. CASE NothingToDo
    BY <2>1, GoesIn DEF NothingToDo, PlaysInSession, Session, Receiving, Loop, CallPc
  <2>2. CASE TryRestart
    BY <2>2, GoesIn DEF TryRestart, PlaysInSession, Session, Receiving, Loop, CallPc
  <2>3. CASE Restart
    BY <2>3, GoesIn DEF Restart, PlaysInSession, Session, Receiving, Loop, CallPc
  <2>4. CASE Restarted
    BY <2>4, GoesIn DEF Restarted, PlaysInSession, Session, Receiving, Loop, CallPc
  <2>5. CASE NothingReceived
    BY <2>5, GoesIn DEF NothingReceived, PlaysInSession, Session, Receiving, Loop, CallPc
  <2>6. CASE Drain
    BY <2>6, GoesIn DEF Drain, PlaysInSession, Session, Receiving, Loop, CallPc
  <2>7. CASE End
    BY <2>7 DEF End, PlayingAfter, PlaysInSession
  <2>8. CASE ClearAll
    <3>1. ~In(Session) /\ playing' = playing
      BY <2>8 DEF ClearAll, In, Session, Receiving, Loop, CallPc, session
    <3> QED  BY <3>1 DEF PlaysInSession
  <2> QED  BY <1>4, <2>1, <2>2, <2>3, <2>4, <2>5, <2>6, <2>7, <2>8 DEF AfterStep
<1>5. CASE Drained
  BY <1>5, GoesIn DEF Drained, PlaysInSession, Session, CallPc
<1>6. CASE ServerCloses
  BY <1>6 DEF ServerCloses, PlaysInSession, In
<1>7. CASE ClientStep /\ ~LoopStep /\ ~AfterStep /\ ~CallStep(Client)
  <2>1. ~In(Session) /\ playing' = playing
    BY <1>7 DEF ClientStep, In, Session, Receiving, Loop, CallPc, session,
         NoSession, TakeConnect, DropDisconnect, NoSocket,
         ConnectionError, Connected, Request
  <2> QED  BY <2>1 DEF PlaysInSession
<1> QED  BY <1>1, <1>2, <1>3, <1>4, <1>5, <1>6, <1>7 DEF Next, ClientStep

-----------------------------------------------------------------------------
LEMMA StopKnownStep ==
  ASSUME PosOK, FlagOK, StopKnown, Next
  PROVE  StopKnown'
<1> USE Tasks
<1>1. ASSUME NEW t \in Task, CallStep(t), pc[Client] # "drop" \/ pc'[Client] = "drop"
      PROVE  StopKnown'
  <2>1. CASE StopGive(t) \/ SilentDisconnect(t)
    BY <2>1 DEF StopGive, SilentDisconnect, StopKnown
  <2>2. CASE sDisconnect' = sDisconnect /\ asked' = asked
    BY <1>1, <2>2 DEF StopKnown
  <2> QED
    BY <1>1, <2>1, <2>2 DEF CallStep, StopStep, StopRunning, StopI2s, StopMerus,
         ConnectStep, ConnectStatus, Resolved, Unresolved, SilentStep,
         NotConnected, GiveBack, WaitedEnough, sems
<1>3. ASSUME NEW u \in User, Ask(u) \/ UserStep(u) PROVE StopKnown'
  <2>1. pc'[Client] = pc[Client]
    BY <1>3, OthersMove
  <2>2. CASE CallStep(u)
    BY <2>1, <2>2, <1>1
  <2>3. CASE ~CallStep(u)
    <3>1. sDisconnect' = sDisconnect /\ asked' = asked
      <4>1. CASE Ask(u)
        BY <4>1 DEF Ask, AskStation, AskInstant, AskStop, Wake, WifiLost, sems
      <4>2. CASE UserStep(u)
        BY <4>2, <2>3 DEF UserStep, SetRunning, NoStation, MerusOn, I2sOn,
             InstantConnect, SetOnce, sems
      <4> QED  BY <1>3, <4>1, <4>2
    <3> QED  BY <2>1, <3>1 DEF StopKnown
  <2> QED  BY <2>2, <2>3
<1>4. CASE CallStep(Client)
  <2>1. pc[Client] # "drop"
    BY <1>4 DEF CallStep, StopStep, ConnectStep, SilentStep, SilentDisconnect,
       NotConnected, GiveBack, WaitedEnough, StopRunning, StopGive, StopI2s, StopMerus,
         ConnectStatus, Resolved, Unresolved
  <2> QED  BY <2>1, <1>4, <1>1
<1>5. CASE LoopTest
  BY <1>5 DEF LoopTest, StopKnown, StopSeen
<1>6. CASE TakeConnect
  BY <1>6 DEF TakeConnect, StopKnown, Go, PosOK
<1>7. CASE DropDisconnect
  BY <1>7 DEF DropDisconnect, Kept, StopKnown
<1>8. CASE NoSocket
  BY <1>8 DEF NoSocket, StopKnown
<1>9. CASE (LoopStep /\ ~LoopTest) \/ AfterStep \/ Drained
  <2>1. sDisconnect' = sDisconnect /\ asked' = asked /\ pc[Client] # "drop"
    <3>1. CASE LoopStep /\ ~LoopTest
      BY <3>1 DEF LoopStep, sems,
           Received, NoData, NotFound, PlaylistParsed, PlaylistMore, Redirect,
           Redirected, Header, StreamFound, LengthRead, LengthError,
           LengthMissing, LengthDelay, Data, StoppedData, Dropped,
           NoDecoder, Undecoded, InData, LengthWait, NextChunk, BadChunk, Reconnect
    <3>2. CASE AfterStep \/ Drained
      BY <3>2 DEF AfterStep, Drained, sems, NothingToDo, TryRestart,
           Restart, Restarted, NothingReceived, Drain, End, ClearAll
    <3> QED  BY <1>9, <3>1, <3>2
  <2> QED  BY <2>1 DEF StopKnown
<1>10. CASE NoSession \/ ConnectionError \/ Connected \/ Request
  <2>1. sDisconnect' = sDisconnect /\ asked' = asked /\ pc[Client] # "drop"
    BY <1>10 DEF NoSession, ConnectionError, Connected, Request, sems
  <2> QED  BY <2>1 DEF StopKnown
<1>11. CASE ServerCloses
  BY <1>11 DEF ServerCloses, StopKnown, sems
<1> QED  BY <1>3, <1>4, <1>5, <1>6, <1>7, <1>8, <1>9, <1>10, <1>11 DEF Next, ClientStep

LEMMA PosStep == ASSUME PosOK, Next PROVE PosOK'
<1>1. ASSUME NEW u \in User, Ask(u) \/ UserStep(u) PROVE PosOK'
  BY <1>1, AskPos, UserPos
<1>2. CASE ClientStep
  BY <1>2, ClientPos
<1>4. CASE Drained
  <2>1. "stop" \in CallPc /\ "end" \in ClientPc
    BY DEF CallPc, ClientPc
  <2>2. Call(Client, "stop", "end")
    BY <1>4 DEF Drained
  <2> QED  BY <2>1, <2>2, Tasks, Places, Called
<1>3. CASE ServerCloses
  BY <1>3 DEF ServerCloses, PosOK
<1> QED  BY <1>1, <1>2, <1>3, <1>4 DEF Next

LEMMA InitIInv == Init => IInv
<1> SUFFICES ASSUME Init PROVE IInv
  OBVIOUS
<1>1. PosOK
  <2>1. "top" \in ClientPc /\ "idle" \in ClientPc /\ "idle" \in UserPc
    BY DEF ClientPc, UserPc
  <2>2. \A t \in Task : t # Client => t \in User
    BY DEF Task
  <2> QED  BY <2>1, <2>2, Tasks, Places DEF Init, PosOK, BackOf, PcOf
<1>2. pc[Client] = "top"
  BY Tasks DEF Init
<1>3. ~In(Receiving)
  BY <1>2 DEF In, Receiving, Loop, CallPc
<1>4. FlagOK /\ StopKnown /\ PlaysInSession
  BY DEF Init, FlagOK, StopKnown, PlaysInSession
<1>5. DataOK
  BY LimitAssumption DEF Init, DataOK
<1> QED  BY <1>1, <1>3, <1>4, <1>5 DEF IInv, CountBelow

LEMMA Invariance == IInv /\ [Next]_vars => IInv'
<1> SUFFICES ASSUME IInv, [Next]_vars PROVE IInv'
  OBVIOUS
<1>1. CASE Next
  BY <1>1, PosStep, NextFlagOK, NextDataOK, StopKnownStep, PlaysInSessionStep,
     CountBelowStep DEF IInv
<1>2. CASE UNCHANGED vars
  BY <1>2 DEF vars, sems, session, conn, audio, IInv, PosOK, FlagOK,
       DataOK, StopKnown, PlaysInSession, CountBelow, In
<1> QED  BY <1>1, <1>2

\* Every task is always at a place of its own code and every variable in its
\* range: the count of empty reads stays within its limit.
THEOREM Typing == Spec => []TypeOK
<1>1. IInv => TypeOK
  BY DEF IInv, PosOK, FlagOK, DataOK, TypeOK
<1> QED  BY <1>1, InitIInv, Invariance, PTL DEF Spec

\* Nothing counts as playing between two sessions (playing, webclient.c).
THEOREM NothingPlaysBetweenSessions == Spec => []PlayingTells
<1>1. IInv => PlayingTells
  <2> SUFFICES ASSUME IInv, pc[Client] \in {"top", "idle"} PROVE playing = FALSE
    BY DEF PlayingTells
  <2>1. ~In(Session)
    BY DEF In, Session, Receiving, Loop, CallPc
  <2> QED  BY <2>1 DEF IInv, PlaysInSession, FlagOK
<1> QED  BY <1>1, InitIInv, Invariance, PTL DEF Spec

\* The receive loop only ever takes a stop that was given in its own session.
THEOREM StaleStopHarmless == Spec => NoStaleStop
<1>1. IInv /\ [Next]_vars
        => [pc[Client] = "test" /\ sDisconnect /\ ~sDisconnect' => asked]_vars
  <2> SUFFICES ASSUME IInv, pc[Client] = "test", sDisconnect = TRUE PROVE asked = TRUE
    BY DEF IInv, FlagOK
  <2> QED  BY DEF IInv, StopKnown
<1> QED  BY <1>1, InitIInv, Invariance, PTL DEF Spec, NoStaleStop
=============================================================================

