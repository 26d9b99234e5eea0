--------------------------- MODULE ServersProofs ---------------------------
(***************************************************************************)
(* Proofs about Servers, for every number of sockets, slots, entries and     *)
(* connections: the types, that no slot is lost, and that no two users of a  *)
(* socket are ever made.                                                    *)
(***************************************************************************)
EXTENDS Servers, FiniteSetTheorems, WellFoundedInduction, TLAPS

\* The users of f are one at most, and a peer is at the other end of it.
Single(f) ==
  /\ \A w, v \in Worker : Uses(w, f) /\ Uses(v, f) => w = v
  /\ \A i, j \in WsSlot : ws[i] = f /\ ws[j] = f => i = j
  /\ \A i, j \in TnSlot : tn[i] = f /\ tn[j] = f => i = j
  /\ \A w \in Worker, i \in WsSlot : ~(Uses(w, f) /\ ws[i] = f)
  /\ \A w \in Worker, i \in TnSlot : ~(Uses(w, f) /\ tn[i] = f)
  /\ \A i \in WsSlot, j \in TnSlot : ~(ws[i] = f /\ tn[j] = f)
  /\ ServerUses(f) =>
       /\ \A w \in Worker : ~Uses(w, f)
       /\ \A i \in WsSlot : ws[i] # f
       /\ \A i \in TnSlot : tn[i] # f
Open(f) ==
  /\ \A w \in Worker : Uses(w, f) => sock[f] \in Peer
  /\ \A i \in WsSlot : ws[i] = f => sock[f] \in Peer
  /\ \A i \in TnSlot : tn[i] = f => sock[f] \in Peer
  /\ ServerUses(f) => sock[f] \in Peer

\* The socket of another task is that task's, until it has been robbed.
Others == \A f \in Fd : sock[f] = Other <=> other = f

Owned == robbed \/ (Others /\ \A f \in Fd : Single(f) /\ Open(f))

\* A connection that was accepted has one socket, until it is closed.
Linked ==
  /\ \A f \in Fd : sock[f] \in Peer => conn[sock[f]] \in {"open", "left"}
  /\ \A f, h \in Fd : sock[f] \in Peer /\ sock[f] = sock[h] => f = h

\* What select has announced still waits to be accepted.
Announced ==
  /\ WebServer \in ready => Waiting("web") # {}
  /\ TelnetServer \in ready => Waiting("telnet") # {}

IInv == TypeOK /\ SlotsKept /\ Linked /\ Announced /\ Owned

-----------------------------------------------------------------------------
\* What the constants are apart.
LEMMA Apart ==
  /\ NULL \notin Int /\ Other \notin Int /\ NULL # Other
  /\ Peer \subseteq Nat /\ Fd \subseteq Nat /\ Worker \subseteq Nat
  /\ WsSlot \subseteq Nat /\ TnSlot \subseteq Nat
  /\ WebServer \notin Fd /\ TelnetServer \notin Fd
  /\ NULL \notin Fd /\ NULL \notin Peer /\ Other \notin Peer
  /\ NULL \notin WsSlot /\ NULL # WebServer /\ NULL # TelnetServer
BY ServersAssumption DEF Peer, Fd, Worker, WsSlot, TnSlot, WebServer, TelnetServer

\* A set of numbers that is not empty has a least one.
LEMMA LeastExists ==
  ASSUME NEW S \in SUBSET Nat, S # {}
  PROVE  \E f \in S : \A h \in S : f <= h
<1> DEFINE R == OpToRel(<, Nat)
<1>1. IsWellFoundedOn(R, Nat)
  BY NatLessThanWellFounded
<1>2. \A x, y \in Nat : x < y => <<x, y>> \in R
  BY DEF OpToRel
<1> HIDE DEF R
<1>3. PICK f \in S : \A h \in S : ~(<<h, f>> \in R)
  BY <1>1, WFMin
<1>4. \A h \in S : ~(h < f)
  BY <1>2, <1>3
<1> QED  BY <1>3, <1>4

LEMMA LeastIn ==
  ASSUME NEW S \in SUBSET Nat, S # {}
  PROVE  (CHOOSE f \in S : \A h \in S : f <= h) \in S
BY LeastExists

LEMMA LeastFdFree == ASSUME FreeFds # {} PROVE LeastFd \in FreeFds
BY Apart, LeastIn DEF FreeFds, LeastFd

LEMMA FirstWaits ==
  ASSUME NEW port, Waiting(port) # {} PROVE First(port) \in Waiting(port)
BY Apart, LeastIn DEF Waiting, First

\* A free entry that is looked for in order is found.
LEMMA EntryFound ==
  ASSUME \E i \in WsSlot : ws[i] = NULL
  PROVE  LET i == CHOOSE i \in WsSlot : ws[i] = NULL /\ \A j \in 1 .. i - 1 : ws[j] # NULL
         IN  i \in WsSlot /\ ws[i] = NULL
<1> DEFINE S == {i \in WsSlot : ws[i] = NULL}
<1>1. S \in SUBSET Nat /\ S # {}
  BY Apart
<1>2. PICK i \in S : \A h \in S : i <= h
  BY <1>1, LeastExists
<1>3. \A j \in 1 .. i - 1 : j \in WsSlot /\ ws[j] # NULL
  BY <1>1, <1>2, ServersAssumption DEF WsSlot
<1>4. i \in WsSlot /\ ws[i] = NULL /\ \A j \in 1 .. i - 1 : ws[j] # NULL
  BY <1>2, <1>3
<1> QED  BY <1>4

\* At most NSlots tasks are busy, and their number is a natural number.
LEMMA BusyFinite == IsFiniteSet(Busy) /\ Cardinality(Busy) \in Nat
<1>1. IsFiniteSet(Worker)
  BY FS_Interval, ServersAssumption DEF Worker
<1>2. Busy \subseteq Worker
  BY DEF Busy
<1>3. IsFiniteSet(Busy)
  BY <1>1, <1>2, FS_Subset
<1> QED  BY <1>3, FS_CardinalityType

\* While a task is busy there is room for one slot more.
LEMMA RoomForSlot ==
  ASSUME TypeOK, SlotsKept, NEW w \in Worker, wpc[w] # "none"
  PROVE  slots + 1 \in 0 .. NSlots
<1>1. w \in Busy
  BY DEF Busy
<1>2. Cardinality(Busy) # 0
  BY <1>1, BusyFinite, FS_EmptySet
<1> QED  BY <1>2, BusyFinite, ServersAssumption DEF TypeOK, SlotsKept

-----------------------------------------------------------------------------
LEMMA InitIInv == Init => IInv
<1> SUFFICES ASSUME Init PROVE IInv
  OBVIOUS
<1>1. TypeOK
  <2>1. /\ sock \in [Fd -> Peer \cup {Other, NULL}]
        /\ wpc \in [Worker -> ClientAt]
        /\ wfd \in [Worker -> Fd \cup {NULL}]
        /\ wslot \in [Worker -> WsSlot \cup {NULL}]
    BY DEF Init, ClientAt
  <2>2. /\ conn \in [Peer -> {"away", "web", "telnet", "open", "left", "closed"}]
        /\ inbox \in [Peer -> Message \cup {"none"}]
        /\ ws \in [WsSlot -> Fd \cup {NULL}] /\ tn \in [TnSlot -> Fd \cup {NULL}]
    BY DEF Init
  <2>3. \A w \in Worker : /\ (wfd[w] = NULL) <=> (wpc[w] = "none")
                          /\ (wslot[w] = NULL) <=> (wpc[w] # "take")
    BY DEF Init
  <2>4. /\ slots \in 0 .. NSlots /\ semfile \in 0 .. 1 /\ sent \in Nat
        /\ spc \in ServerAt /\ cs \in Fd \cup {NULL} /\ other \in Fd \cup {NULL}
        /\ fds \subseteq Fd /\ ready \subseteq Fd \cup Listeners
    BY ServersAssumption DEF Init, ServerAt
  <2>5. (cs = NULL) <=> (spc \in {"round", "select"})
    BY DEF Init
  <2>6. robbed \in BOOLEAN
    BY Zenon DEF Init
  <2> QED  BY <2>1, <2>2, <2>3, <2>4, <2>5, <2>6 DEF TypeOK
<1>2. SlotsKept
  <2>1. Busy = {}
    BY DEF Init, Busy
  <2> QED  BY <2>1, FS_EmptySet, ServersAssumption DEF Init, SlotsKept
<1>3. Owned
  BY Apart DEF Init, Owned, Others, Single, Open, Uses, ServerUses
<1>4. Linked /\ Announced
  BY Apart DEF Init, Linked, Announced
<1> QED  BY <1>1, <1>2, <1>3, <1>4 DEF IInv

-----------------------------------------------------------------------------
(* Typing *)

\* close() leaves the types as they are.
LEMMA CloseTyped ==
  ASSUME TypeOK, NEW f \in Fd, Close(f)
  PROVE  /\ sock' = [sock EXCEPT ![f] = NULL]
         /\ sock' \in [Fd -> Peer \cup {Other, NULL}]
         /\ conn' \in [Peer -> {"away", "web", "telnet", "open", "left", "closed"}]
         /\ inbox' \in [Peer -> Message \cup {"none"}]
BY DEF Close, TypeOK, Message

LEMMA ConsumeTyped ==
  ASSUME TypeOK, NEW f, Consume(f)
  PROVE  inbox' \in [Peer -> Message \cup {"none"}]
BY DEF Consume, TypeOK, Message

LEMMA AcceptTyped ==
  ASSUME TypeOK, NEW p \in Peer, Accept(p)
  PROVE  /\ sock' \in [Fd -> Peer \cup {Other, NULL}]
         /\ conn' \in [Peer -> {"away", "web", "telnet", "open", "left", "closed"}]
         /\ IF FreeFds = {} THEN sock' = sock /\ cs' = cs
            ELSE cs' \in FreeFds /\ sock' = [sock EXCEPT ![cs'] = p]
<1>1. CASE FreeFds = {}
  BY <1>1 DEF Accept, TypeOK
<1>2. CASE FreeFds # {}
  <2>1. LeastFd \in FreeFds /\ LeastFd \in Fd
    BY <1>2, LeastFdFree DEF FreeFds
  <2> QED  BY <1>2, <2>1 DEF Accept, TypeOK
<1> QED  BY <1>1, <1>2

LEMMA GotoTyped ==
  ASSUME TypeOK, NEW w \in Worker, NEW l \in ClientAt, Goto(w, l)
  PROVE  /\ wpc' \in [Worker -> ClientAt]
         /\ wpc'[w] = l /\ \A v \in Worker : v # w => wpc'[v] = wpc[v]
BY DEF Goto, TypeOK

USE DEF servers, workers, peers

LEMMA PeerTyped ==
  ASSUME TypeOK, NEW p \in Peer, Connect(p) \/ Send(p) \/ Leave(p)
  PROVE  TypeOK'
<1>1. CASE Connect(p)
  BY <1>1 DEF Connect, TypeOK
<1>2. CASE Send(p)
  <2>1. Says(p) \subseteq Message
    BY DEF Says, Message
  <2> QED  BY <1>2, <2>1 DEF Send, TypeOK
<1>3. CASE Leave(p)
  BY <1>3 DEF Leave, TypeOK
<1> QED  BY <1>1, <1>2, <1>3

LEMMA OtherTyped == ASSUME TypeOK, OtherOpen \/ OtherClose PROVE TypeOK'
<1>1. CASE OtherOpen
  <2>1. LeastFd \in Fd
    BY <1>1, LeastFdFree DEF OtherOpen, FreeFds
  <2> QED  BY <1>1, <2>1 DEF OtherOpen, TypeOK
<1>2. CASE OtherClose
  <2>1. other \in Fd
    BY <1>2 DEF OtherClose, TypeOK
  <2> QED  BY <1>2, <2>1, CloseTyped DEF OtherClose, TypeOK
<1> QED  BY <1>1, <1>2

\* The connection that is accepted is one that waits.
LEMMA FirstAnnounced ==
  ASSUME TypeOK, Announced
  PROVE  /\ WebServer \in ready => First("web") \in Peer /\ conn[First("web")] = "web"
         /\ TelnetServer \in ready =>
              First("telnet") \in Peer /\ conn[First("telnet")] = "telnet"
BY FirstWaits DEF Announced, Waiting

LEMMA EntriesTyped ==
  ASSUME TypeOK
  PROVE  /\ Telnets \subseteq Fd /\ Websockets \subseteq Fd
         /\ \A f : Cleared(f) \in [WsSlot -> Fd \cup {NULL}]
BY DEF Telnets, Websockets, Entries, Cleared, TypeOK

\* A connection that closes leaves cs as it was or frees it.
LEMMA ServingTyped == ASSUME IInv, Serving PROVE TypeOK'
<1> USE Apart DEF IInv, ServerAt
<1>1. CASE MakeSet
  BY <1>1, EntriesTyped DEF MakeSet, TypeOK
<1>2. CASE Select
  BY <1>2 DEF Select, TypeOK
<1>3. CASE AcceptWeb
  BY <1>3, FirstAnnounced, AcceptTyped DEF AcceptWeb, TypeOK, FreeFds
<1>4. ASSUME NEW w \in Worker, StartClient(w) PROVE TypeOK'
  <2>1. slots - 1 \in 0 .. NSlots
    BY <1>4, ServersAssumption DEF StartClient, TypeOK
  <2> QED  BY <1>4, <2>1 DEF StartClient, TypeOK, ClientAt
<1>5. CASE AcceptTelnet
  BY <1>5, FirstAnnounced, AcceptTyped DEF AcceptTelnet, TypeOK, FreeFds
<1>6. CASE Welcome
  <2>1. CASE \E i \in TnSlot : tn[i] = NULL
    BY <1>6, <2>1 DEF Welcome, TypeOK
  <2>2. CASE ~\E i \in TnSlot : tn[i] = NULL
    <3>1. cs \in Fd /\ Close(cs)
      BY <1>6, <2>2 DEF Welcome, TypeOK
    <3> QED  BY <1>6, <2>2, <3>1, CloseTyped DEF Welcome, TypeOK
  <2> QED  BY <2>1, <2>2
<1>7. CASE CloseAgain
  <2>1. cs \in Fd /\ Close(cs)
    BY <1>7 DEF CloseAgain, TypeOK
  <2>2. robbed' \in BOOLEAN
    BY <1>7 DEF CloseAgain, TypeOK
  <2> QED  BY <1>7, <2>1, <2>2, CloseTyped DEF CloseAgain, TypeOK
<1>8. CASE ReadTelnet
  <2>1. PICK i \in TnSlot : /\ tn[i] \in ready /\ Consume(tn[i])
                            /\ ready' = ready \ {tn[i]}
                            /\ IF Incoming(tn[i]) \in {"end", "error"}
                               THEN /\ tn' = [tn EXCEPT ![i] = NULL] /\ cs' = tn[i]
                                    /\ spc' = "close"
                               ELSE UNCHANGED <<tn, cs, spc>>
    BY <1>8 DEF ReadTelnet
  <2>2. tn[i] \in Fd
    <3>1. NULL \notin ready
      BY DEF TypeOK, Listeners
    <3>2. tn[i] \in Fd \cup {NULL}
      BY DEF TypeOK
    <3> QED  BY <2>1, <3>1, <3>2
  <2>3. inbox' \in [Peer -> Message \cup {"none"}]
    BY <2>1, ConsumeTyped
  <2>4. /\ tn' \in [TnSlot -> Fd \cup {NULL}]
        /\ spc' \in ServerAt /\ cs' \in Fd \cup {NULL}
        /\ ((cs' = NULL) <=> (spc' \in {"round", "select"}))
    BY <2>1, <2>2 DEF TypeOK
  <2> HIDE DEF ServerAt
  <2> QED  BY <1>8, <2>1, <2>3, <2>4 DEF ReadTelnet, TypeOK
<1>9. CASE ReadWebsocket
  <2>1. PICK f \in ready \cap Websockets :
          /\ ready' = ready \ {f} /\ Consume(f)
          /\ ws' = Cleared(f) \/ ws' = ws
          /\ spc' \in {"close", "close error", "part"} \/ spc' = spc
          /\ cs' = IF spc' = "round" THEN cs ELSE f
    BY <1>9 DEF ReadWebsocket
  <2>2. f \in Fd /\ spc = "round" /\ cs = NULL
    BY <1>9, EntriesTyped DEF ReadWebsocket, TypeOK
  <2>3. inbox' \in [Peer -> Message \cup {"none"}]
    BY <2>1, ConsumeTyped
  <2>4. ws' \in [WsSlot -> Fd \cup {NULL}]
    <3>1. Cleared(f) \in [WsSlot -> Fd \cup {NULL}] /\ ws \in [WsSlot -> Fd \cup {NULL}]
      BY EntriesTyped DEF TypeOK
    <3> QED  BY <2>1, <3>1
  <2>5. spc' \in ServerAt /\ cs' \in Fd \cup {NULL}
        /\ ((cs' = NULL) <=> (spc' \in {"round", "select"}))
    BY <2>1, <2>2
  <2> HIDE DEF ServerAt
  <2> QED  BY <1>9, <2>1, <2>3, <2>4, <2>5 DEF ReadWebsocket, TypeOK
<1>10. CASE ReadRest
  <2>1. inbox' \in [Peer -> Message \cup {"none"}]
    BY <1>10, ConsumeTyped DEF ReadRest
  <2> QED  BY <1>10, <2>1 DEF ReadRest, TypeOK
<1>11. CASE CloseClient
  <2>1. cs \in Fd /\ Close(cs)
    BY <1>11 DEF CloseClient, TypeOK
  <2> QED  BY <1>11, <2>1, CloseTyped DEF CloseClient, TypeOK
<1>12. CASE RemoveAgain
  <2>1. CASE cs \in Websockets
    <3>1. /\ ws' = Cleared(cs) /\ spc' = "close" /\ cs' = cs /\ spc = "remove again"
          /\ ws' \in [WsSlot -> Fd \cup {NULL}]
      BY <1>12, <2>1, EntriesTyped DEF RemoveAgain
    <3> QED  BY <1>12, <3>1 DEF RemoveAgain, TypeOK
  <2>2. CASE cs \notin Websockets
    BY <1>12, <2>2 DEF RemoveAgain, TypeOK
  <2> QED  BY <2>1, <2>2
<1> QED  BY <1>1, <1>2, <1>3, <1>4, <1>5, <1>6, <1>7, <1>8, <1>9, <1>10,
            <1>11, <1>12 DEF Serving

LEMMA ClientTyped ==
  ASSUME IInv, NEW w \in Worker, Client(w)
  PROVE  TypeOK'
<1> USE Apart DEF IInv, ClientAt
<1>1. \A v \in Worker : /\ (wfd[v] = NULL) <=> (wpc[v] = "none")
                        /\ (wslot[v] = NULL) <=> (wpc[v] # "take")
  BY DEF TypeOK
<1>2. CASE ReadRequest(w) \/ ReadHalf(w)
  <2>1. PICK l \in {"rest", "stuck", "find", "close", "serve", "read"} :
          Goto(w, l) /\ semfile' \in 0 .. 1 /\ wpc[w] \in {"read", "rest"}
    BY <1>2 DEF ReadRequest, ReadHalf, Handle, TypeOK
  <2>2. inbox' \in [Peer -> Message \cup {"none"}]
    BY <1>2, ConsumeTyped DEF ReadRequest, ReadHalf
  <2>3. UNCHANGED <<sock, slots, servers, wfd, wslot, ws, tn, conn, other, sent, robbed>>
    BY <1>2 DEF ReadRequest, ReadHalf
  <2> QED  BY <1>1, <2>1, <2>2, <2>3, GotoTyped DEF TypeOK
<1>3. CASE TakeFile(w) \/ FileSent(w)
  <2>1. PICK l \in {"send", "read"} :
          Goto(w, l) /\ semfile' \in 0 .. 1 /\ wpc[w] \in {"serve", "send"}
    BY <1>3 DEF TakeFile, FileSent, TypeOK
  <2>2. UNCHANGED <<sock, slots, servers, wfd, wslot, ws, tn, peers, other, robbed>>
    BY <1>3 DEF TakeFile, FileSent
  <2> QED  BY <1>1, <2>1, <2>2, GotoTyped DEF TypeOK
<1>4. CASE FindEntry(w)
  <2>1. CASE \E i \in WsSlot : ws[i] = NULL
    <3>1. wslot'[w] \in WsSlot /\ wslot' \in [Worker -> WsSlot \cup {NULL}]
          /\ \A v \in Worker : v # w => wslot'[v] = wslot[v]
      BY <1>4, <2>1, EntryFound DEF FindEntry, TypeOK
    <3>2. Goto(w, "take")
      BY <1>4, <2>1 DEF FindEntry
    <3> QED  BY <1>1, <1>4, <3>1, <3>2, GotoTyped DEF FindEntry, TypeOK
  <2>2. CASE ~\E i \in WsSlot : ws[i] = NULL
    BY <1>1, <1>4, <2>2, GotoTyped DEF FindEntry, TypeOK
  <2> QED  BY <2>1, <2>2
<1>5. CASE TakeEntry(w)
  <2>1. wfd[w] \in Fd /\ wslot[w] \in WsSlot
    BY <1>1, <1>5 DEF TakeEntry, TypeOK
  <2>2. /\ ws' \in [WsSlot -> Fd \cup {NULL}] /\ wslot' \in [Worker -> WsSlot \cup {NULL}]
        /\ wslot'[w] = NULL /\ \A v \in Worker : v # w => wslot'[v] = wslot[v]
    BY <1>5, <2>1 DEF TakeEntry, TypeOK
  <2>3. Goto(w, "exit") /\ wpc[w] = "take"
        /\ UNCHANGED <<sock, slots, semfile, servers, wfd, tn, peers, other, robbed>>
    BY <1>5 DEF TakeEntry
  <2> QED  BY <1>1, <2>2, <2>3, GotoTyped DEF TypeOK
<1>6. CASE CloseSocket(w)
  <2>1. wfd[w] \in Fd
    BY <1>1, <1>6 DEF CloseSocket, TypeOK
  <2> QED  BY <1>1, <1>6, <2>1, GotoTyped, CloseTyped DEF CloseSocket, TypeOK
<1>7. CASE EndClient(w)
  <2>1. slots' \in 0 .. NSlots
    BY <1>7, RoomForSlot DEF EndClient, SlotsAfter
  <2> QED  BY <1>1, <1>7, <2>1, GotoTyped DEF EndClient, TypeOK
<1> QED  BY <1>2, <1>3, <1>4, <1>5, <1>6, <1>7 DEF Client

LEMMA Typed == ASSUME IInv, [Next]_vars PROVE TypeOK'
<1>1. CASE UNCHANGED vars
  BY <1>1 DEF vars, IInv, TypeOK
<1>2. CASE Next
  BY <1>2, PeerTyped, OtherTyped, ServingTyped, ClientTyped DEF Next, IInv
<1> QED  BY <1>1, <1>2

-----------------------------------------------------------------------------
(* The slots *)

\* A step that neither starts nor ends a client task.
LEMMA SameBusy ==
  ASSUME SlotsKept, slots' = slots,
         \A v \in Worker : wpc'[v] # "none" <=> wpc[v] # "none"
  PROVE  SlotsKept'
<1>1. Busy' = Busy
  BY DEF Busy
<1> QED  BY <1>1 DEF SlotsKept

LEMMA SlotsNext == ASSUME IInv, [Next]_vars PROVE SlotsKept'
<1> USE DEF IInv
<1>1. ASSUME NEW w \in Worker, StartClient(w) PROVE SlotsKept'
  <2>1. Busy' = Busy \cup {w} /\ w \notin Busy /\ slots' = slots - 1
    BY <1>1 DEF StartClient, Busy, TypeOK
  <2>2. Cardinality(Busy') = Cardinality(Busy) + 1
    BY <2>1, BusyFinite, FS_AddElement
  <2> QED  BY <2>1, <2>2, BusyFinite DEF SlotsKept, TypeOK
<1>2. ASSUME NEW w \in Worker, EndClient(w) PROVE SlotsKept'
  <2>1. Busy' = Busy \ {w} /\ w \in Busy /\ slots' = slots + 1
    BY <1>2 DEF EndClient, SlotsAfter, Goto, Busy, TypeOK
  <2>2. Cardinality(Busy') = Cardinality(Busy) - 1
    BY <2>1, BusyFinite, FS_RemoveElement
  <2> QED  BY <2>1, <2>2, BusyFinite DEF SlotsKept, TypeOK
<1>3. ASSUME NEW w \in Worker, Client(w), ~EndClient(w) PROVE SlotsKept'
  <2>1. /\ slots' = slots /\ wpc[w] # "none"
        /\ \E l \in ClientAt \ {"none"} : Goto(w, l)
    BY <1>3 DEF Client, ReadRequest, ReadHalf, Handle, TakeFile, FileSent,
                FindEntry, TakeEntry, CloseSocket, ClientAt
  <2> QED  BY <2>1, SameBusy, GotoTyped
<1>4. CASE (\A w \in Worker : ~StartClient(w)) /\ Serving
  <2>1. slots' = slots /\ wpc' = wpc
    BY <1>4 DEF Serving, MakeSet, Select, AcceptWeb, AcceptTelnet, Welcome,
                CloseAgain, ReadTelnet, ReadWebsocket, ReadRest, CloseClient,
                RemoveAgain
  <2> QED  BY <2>1, SameBusy
<1>5. CASE \/ OtherOpen \/ OtherClose \/ UNCHANGED vars
           \/ \E p \in Peer : Connect(p) \/ Send(p) \/ Leave(p)
  <2>1. slots' = slots /\ wpc' = wpc
    BY <1>5 DEF OtherOpen, OtherClose, Connect, Send, Leave, vars
  <2> QED  BY <2>1, SameBusy
<1> QED  BY <1>1, <1>2, <1>3, <1>4, <1>5 DEF Next, Serving

-----------------------------------------------------------------------------
(* The connections *)

LEMMA CloseLinked ==
  ASSUME TypeOK, Linked, Announced, NEW f \in Fd, Close(f), ready' = ready
  PROVE  Linked' /\ Announced'
<1> USE Apart
<1>1. sock' = [sock EXCEPT ![f] = NULL]
  BY CloseTyped
<1>2. \A p \in Peer : conn'[p] = IF sock[f] = p THEN "closed" ELSE conn[p]
  BY DEF Close, TypeOK
<1>3. Linked'
  <2>1. \A h \in Fd : sock'[h] = IF h = f THEN NULL ELSE sock[h]
    BY <1>1 DEF TypeOK
  <2>2. \A h \in Fd : h # f /\ sock[h] \in Peer => sock[h] # sock[f]
    BY DEF Linked
  <2>3. \A h \in Fd : sock'[h] \in Peer => conn'[sock'[h]] \in {"open", "left"}
    BY <1>2, <2>1, <2>2 DEF Linked
  <2>4. \A h, k \in Fd : sock'[h] \in Peer /\ sock'[h] = sock'[k] => h = k
    BY <2>1 DEF Linked
  <2> QED  BY <2>3, <2>4 DEF Linked
<1>4. \A p \in Peer : conn[p] \in {"web", "telnet"} => conn'[p] = conn[p]
  BY <1>2 DEF Linked
<1> QED  BY <1>3, <1>4 DEF Announced, Waiting

LEMMA AcceptLinked ==
  ASSUME TypeOK, Linked, NEW p \in Peer, conn[p] \in {"web", "telnet"}, Accept(p)
  PROVE  Linked' /\ \A q \in Peer : q # p => conn'[q] = conn[q]
<1> USE Apart
<1>1. /\ \A q \in Peer : q # p => conn'[q] = conn[q]
      /\ FreeFds # {} => conn'[p] = "open"
  BY DEF Accept, TypeOK
<1>2. \A f \in Fd : sock[f] # p
  BY DEF Linked
<1>3. CASE FreeFds = {}
  BY <1>1, <1>2, <1>3, AcceptTyped DEF Linked
<1>4. CASE FreeFds # {}
  <2>1. cs' \in Fd /\ sock' = [sock EXCEPT ![cs'] = p]
    BY <1>4, AcceptTyped DEF FreeFds
  <2> QED  BY <1>1, <1>2, <1>4, <2>1 DEF Linked, TypeOK
<1> QED  BY <1>1, <1>3, <1>4

LEMMA LinkedNext == ASSUME IInv, [Next]_vars PROVE Linked' /\ Announced'
<1> USE Apart DEF IInv
<1>1. ASSUME NEW p \in Peer, Connect(p) \/ Send(p) \/ Leave(p)
      PROVE  Linked' /\ Announced'
  <2>1. /\ sock' = sock /\ ready' = ready
        /\ \A q \in Peer : conn'[q] # conn[q] =>
             (conn[q] = "away" \/ (conn[q] = "open" /\ conn'[q] = "left"))
    <3>1. CASE Connect(p)
      BY <3>1 DEF Connect, TypeOK
    <3>2. CASE Send(p)
      BY <3>2 DEF Send
    <3>3. CASE Leave(p)
      BY <3>3 DEF Leave, TypeOK
    <3> QED  BY <1>1, <3>1, <3>2, <3>3
  <2>2. Linked'
    BY <2>1 DEF Linked
  <2>3. \A q \in Peer : conn[q] \in {"web", "telnet"} => conn'[q] = conn[q]
    BY <2>1
  <2> QED  BY <2>1, <2>2, <2>3 DEF Announced, Waiting
<1>2. CASE AcceptWeb
  <2>1. /\ First("web") \in Peer /\ conn[First("web")] = "web"
        /\ Accept(First("web")) /\ ready' = ready \ {WebServer}
    BY <1>2, FirstAnnounced DEF AcceptWeb
  <2> QED  BY <2>1, AcceptLinked DEF Announced, Waiting
<1>3. CASE AcceptTelnet
  <2>1. /\ First("telnet") \in Peer /\ conn[First("telnet")] = "telnet"
        /\ Accept(First("telnet")) /\ ready' = ready \ {TelnetServer}
    BY <1>3, FirstAnnounced DEF AcceptTelnet
  <2> QED  BY <2>1, AcceptLinked DEF Announced, Waiting
<1>4. CASE Select
  <2>1. /\ sock' = sock /\ conn' = conn
        /\ WebServer \in ready' => Waiting("web") # {}
        /\ TelnetServer \in ready' => Waiting("telnet") # {}
    <3>1. fds \subseteq Fd /\ WebServer # TelnetServer
      BY DEF TypeOK, WebServer, TelnetServer
    <3> QED  BY <1>4, <3>1 DEF Select, Listeners
  <2> QED  BY <2>1 DEF Linked, Announced, Waiting
<1>5. ASSUME NEW f \in Fd, Close(f), ready' = ready
      PROVE  Linked' /\ Announced'
  BY <1>5, CloseLinked
<1>6. ASSUME UNCHANGED <<sock, conn>>, ready' \subseteq ready
      PROVE  Linked' /\ Announced'
  BY <1>6 DEF Linked, Announced, Waiting
<1>7. CASE OtherOpen
  <2>1. LeastFd \in FreeFds /\ sock' = [sock EXCEPT ![LeastFd] = Other]
        /\ UNCHANGED <<conn, ready>>
    BY <1>7, LeastFdFree DEF OtherOpen
  <2> QED  BY <2>1 DEF Linked, Announced, Waiting, FreeFds, TypeOK
<1>8. CASE OtherClose
  BY <1>5, <1>8 DEF OtherClose, TypeOK
<1>9. CASE Welcome \/ CloseAgain \/ CloseClient
  BY <1>5, <1>6, <1>9 DEF Welcome, CloseAgain, CloseClient, TypeOK
<1>10. ASSUME NEW w \in Worker, Client(w)
       PROVE  Linked' /\ Announced'
  <2>1. CASE CloseSocket(w)
    BY <1>5, <2>1 DEF CloseSocket, TypeOK
  <2>2. CASE ~CloseSocket(w)
    BY <1>6, <1>10, <2>2 DEF Client, ReadRequest, ReadHalf, TakeFile, FileSent,
                             FindEntry, TakeEntry, EndClient
  <2> QED  BY <2>1, <2>2
<1>11. CASE \/ MakeSet \/ ReadTelnet \/ ReadWebsocket \/ ReadRest
            \/ RemoveAgain \/ (\E w \in Worker : StartClient(w))
            \/ UNCHANGED vars
  BY <1>6, <1>11 DEF MakeSet, ReadTelnet, ReadWebsocket, ReadRest,
                     RemoveAgain, StartClient, vars
<1> QED  BY <1>1, <1>2, <1>3, <1>4, <1>7, <1>8, <1>9, <1>10, <1>11
         DEF Next, Serving

-----------------------------------------------------------------------------
(* The users of a socket *)

Sound == Others /\ \A f \in Fd : Single(f) /\ Open(f)

\* Every user that f has after a step, it had before.
NoMoreUsers(f) ==
  /\ \A w \in Worker : Uses(w, f)' => Uses(w, f)
  /\ \A i \in WsSlot : ws'[i] = f => ws[i] = f
  /\ \A i \in TnSlot : tn'[i] = f => tn[i] = f
  /\ ServerUses(f)' => ServerUses(f)
NoUsers(f) ==
  /\ \A w \in Worker : ~Uses(w, f)
  /\ \A i \in WsSlot : ws[i] # f
  /\ \A i \in TnSlot : tn[i] # f
  /\ ~ServerUses(f)

LEMMA Fewer ==
  ASSUME Sound, UNCHANGED <<sock, other>>, \A f \in Fd : NoMoreUsers(f)
  PROVE  Sound'
<1>1. Others'
  BY DEF Sound, Others
<1>2. ASSUME NEW f \in Fd PROVE Single(f)' /\ Open(f)'
  BY DEF Sound, NoMoreUsers, Single, Open
<1> QED  BY <1>1, <1>2 DEF Sound

\* A user closes its socket, and is a user no more.
LEMMA Closing ==
  ASSUME TypeOK, Sound, NEW f \in Fd, Close(f), other' = other, sock[f] # Other,
         NoUsers(f)', \A h \in Fd \ {f} : NoMoreUsers(h)
  PROVE  Sound'
<1> USE Apart
<1>1. sock' = [sock EXCEPT ![f] = NULL]
  BY CloseTyped
<1>2. Others'
  BY <1>1 DEF Sound, Others, TypeOK
<1>3. ASSUME NEW h \in Fd PROVE Single(h)' /\ Open(h)'
  <2>1. CASE h = f
    BY <2>1 DEF NoUsers, Single, Open
  <2>2. CASE h # f
    <3>1. sock'[h] = sock[h] /\ NoMoreUsers(h)
      BY <1>1, <2>2 DEF TypeOK
    <3> QED  BY <3>1 DEF Sound, NoMoreUsers, Single, Open
  <2> QED  BY <2>1, <2>2
<1> QED  BY <1>2, <1>3 DEF Sound

\* servers_task accepts a connection: its socket was free, so it had no user.
LEMMA Accepting ==
  ASSUME TypeOK, Sound, NEW p \in Peer, Accept(p), spc = "round",
         NEW l \in {"slot", "welcome"}, spc' = IF FreeFds = {} THEN spc ELSE l,
         UNCHANGED <<wpc, wfd, ws, tn, other>>
  PROVE  Sound'
<1> USE Apart
<1>1. CASE FreeFds = {}
  BY <1>1, Fewer, AcceptTyped DEF NoMoreUsers, Uses, ServerUses
<1>2. CASE FreeFds # {}
  <2>1. cs' \in Fd /\ sock[cs'] = NULL /\ sock' = [sock EXCEPT ![cs'] = p]
    BY <1>2, AcceptTyped DEF FreeFds
  <2>2. Others'
    BY <2>1 DEF Sound, Others, TypeOK
  <2>3. ASSUME NEW h \in Fd PROVE Single(h)' /\ Open(h)'
    <3>1. CASE h = cs'
      <4>1. NoUsers(h)
        BY <2>1, <3>1 DEF Sound, Open, NoUsers
      <4> QED  BY <2>1, <3>1, <4>1 DEF NoUsers, Single, Open, Uses, TypeOK
    <3>2. CASE h # cs'
      <4>1. sock'[h] = sock[h] /\ NoMoreUsers(h)
        BY <2>1, <3>2 DEF NoMoreUsers, Uses, ServerUses, TypeOK
      <4> QED  BY <4>1 DEF Sound, NoMoreUsers, Single, Open
    <3> QED  BY <3>1, <3>2
  <2> QED  BY <2>2, <2>3 DEF Sound
<1> QED  BY <1>1, <1>2

LEMMA OtherSound ==
  ASSUME TypeOK, Sound, OtherOpen \/ OtherClose
  PROVE  Sound'
<1> USE Apart
<1>1. CASE OtherOpen
  <2>1. /\ LeastFd \in Fd /\ sock[LeastFd] = NULL /\ other = NULL
        /\ other' = LeastFd /\ sock' = [sock EXCEPT ![LeastFd] = Other]
    BY <1>1, LeastFdFree DEF OtherOpen, FreeFds
  <2>2. Others'
    BY <2>1 DEF Sound, Others, TypeOK
  <2>3. ASSUME NEW h \in Fd PROVE Single(h)' /\ Open(h)'
    <3>1. NoMoreUsers(h)
      BY <1>1 DEF OtherOpen, NoMoreUsers, Uses, ServerUses
    <3>2. h = LeastFd => NoUsers(h)
      BY <2>1 DEF Sound, Open, NoUsers
    <3>3. h # LeastFd => sock'[h] = sock[h]
      BY <2>1 DEF TypeOK
    <3> QED  BY <3>1, <3>2, <3>3 DEF Sound, NoMoreUsers, NoUsers, Single, Open
  <2> QED  BY <2>2, <2>3 DEF Sound
<1>2. CASE OtherClose
  <2>1. /\ other \in Fd /\ sock[other] = Other /\ other' = NULL
        /\ sock' = [sock EXCEPT ![other] = NULL]
    BY <1>2, CloseTyped DEF OtherClose, Sound, Others, TypeOK
  <2>2. Others'
    BY <2>1 DEF Sound, Others, TypeOK
  <2>3. ASSUME NEW h \in Fd PROVE Single(h)' /\ Open(h)'
    <3>1. NoMoreUsers(h)
      BY <1>2 DEF OtherClose, NoMoreUsers, Uses, ServerUses
    <3>2. h = other => NoUsers(h)
      BY <2>1 DEF Sound, Open, NoUsers
    <3>3. h # other => sock'[h] = sock[h]
      BY <2>1 DEF TypeOK
    <3> QED  BY <3>1, <3>2, <3>3 DEF Sound, NoMoreUsers, NoUsers, Single, Open
  <2> QED  BY <2>2, <2>3 DEF Sound
<1> QED  BY <1>1, <1>2

LEMMA ServingSound ==
  ASSUME TypeOK, Announced, Sound, Serving, ~robbed'
  PROVE  Sound'
<1> USE Apart
<1>1. CASE MakeSet \/ Select \/ ReadRest
  BY <1>1, Fewer DEF MakeSet, Select, ReadRest, NoMoreUsers, Uses, ServerUses
<1>2. CASE AcceptWeb
  BY <1>2, FirstAnnounced, Accepting DEF AcceptWeb
<1>3. CASE AcceptTelnet
  BY <1>3, FirstAnnounced, Accepting DEF AcceptTelnet
<1>4. ASSUME NEW w \in Worker, StartClient(w) PROVE Sound'
  <2>1. /\ UNCHANGED <<sock, other, ws, tn>> /\ spc = "slot" /\ spc' = "round"
        /\ cs \in Fd /\ wpc[w] = "none"
        /\ wfd'[w] = cs /\ wpc'[w] = "read"
        /\ \A v \in Worker : v # w => wfd'[v] = wfd[v] /\ wpc'[v] = wpc[v]
    BY <1>4 DEF StartClient, TypeOK
  <2>2. ASSUME NEW h \in Fd PROVE Single(h)' /\ Open(h)'
    <3>1. ServerUses(h) <=> h = cs
      BY <2>1 DEF ServerUses
    <3>2. ~ServerUses(h)'
      BY <2>1 DEF ServerUses
    <3>3. \A v \in Worker : Uses(v, h)' <=> (Uses(v, h) \/ (v = w /\ h = cs))
      BY <2>1 DEF Uses
    <3> QED  BY <2>1, <3>1, <3>2, <3>3 DEF Sound, Single, Open
  <2> QED  BY <2>1, <2>2 DEF Sound, Others
<1>5. CASE Welcome
  <2>1. cs \in Fd /\ ServerUses(cs) /\ spc' # "welcome" /\ spc' \in {"round", "close again"}
    BY <1>5 DEF Welcome, TypeOK, ServerUses
  <2>2. CASE \E i \in TnSlot : tn[i] = NULL
    <3>1. PICK i \in TnSlot : tn' = [tn EXCEPT ![i] = cs]
      BY <1>5, <2>2 DEF Welcome
    <3>2. ASSUME NEW h \in Fd PROVE Single(h)' /\ Open(h)'
      <4>1. \A v \in Worker : Uses(v, h)' <=> Uses(v, h)
        BY <1>5 DEF Welcome, Uses
      <4>2. \A j \in TnSlot : tn'[j] = h <=> IF j = i THEN h = cs ELSE tn[j] = h
        BY <3>1 DEF TypeOK
      <4>3. ws' = ws /\ sock' = sock
        BY <1>5, <2>2 DEF Welcome
      <4>4. ~ServerUses(h)'
        BY <2>1 DEF ServerUses
      <4>5. h = cs => ServerUses(h)
        BY <2>1
      <4> QED  BY <4>1, <4>2, <4>3, <4>4, <4>5 DEF Sound, Single, Open
    <3> QED  BY <1>5, <2>2, <3>2 DEF Welcome, Sound, Others
  <2>3. CASE ~\E i \in TnSlot : tn[i] = NULL
    <3>1. Close(cs) /\ other' = other /\ UNCHANGED <<wpc, wfd, ws, tn>>
      BY <1>5, <2>3 DEF Welcome
    <3>2. PICK f \in Fd : f = cs
      BY <2>1
    <3>3. sock[f] # Other
      BY <2>1, <3>2 DEF Sound, Open
    <3>4. NoUsers(f)' /\ \A h \in Fd : NoMoreUsers(h)
      BY <2>1, <3>1, <3>2 DEF Sound, Single, NoUsers, NoMoreUsers, Uses, ServerUses
    <3> QED  BY <3>1, <3>2, <3>3, <3>4, Closing
  <2> QED  BY <2>2, <2>3
<1>6. CASE CloseAgain
  <2>1. cs \in Fd /\ Close(cs) /\ sock[cs] = NULL
    BY <1>6 DEF CloseAgain, TypeOK
  <2>2. sock' = sock
    <3>1. sock' = [sock EXCEPT ![cs] = NULL]
      BY <2>1, CloseTyped
    <3>2. sock = [f \in Fd |-> sock[f]]
      BY DEF TypeOK
    <3> QED  BY <2>1, <3>1, <3>2
  <2> QED  BY <1>6, <2>2, Fewer DEF CloseAgain, NoMoreUsers, Uses, ServerUses
<1>7. CASE ReadTelnet
  <2>1. PICK i \in TnSlot :
          \/ tn' = [tn EXCEPT ![i] = NULL] /\ cs' = tn[i] /\ spc' = "close"
          \/ UNCHANGED <<tn, cs, spc>>
    BY <1>7 DEF ReadTelnet
  <2>2. CASE UNCHANGED <<tn, cs, spc>>
    BY <1>7, <2>2, Fewer DEF ReadTelnet, NoMoreUsers, Uses, ServerUses
  <2>3. CASE tn' = [tn EXCEPT ![i] = NULL] /\ cs' = tn[i] /\ spc' = "close"
    <3>1. ASSUME NEW h \in Fd PROVE Single(h)' /\ Open(h)'
      <4>1. \A v \in Worker : Uses(v, h)' <=> Uses(v, h)
        BY <1>7 DEF ReadTelnet, Uses
      <4>2. \A j \in TnSlot : tn'[j] = h <=> (j # i /\ tn[j] = h)
        BY <2>3 DEF TypeOK
      <4>3. ServerUses(h)' <=> tn[i] = h
        BY <2>3 DEF ServerUses
      <4>4. ws' = ws /\ sock' = sock
        BY <1>7 DEF ReadTelnet
      <4> QED  BY <4>1, <4>2, <4>3, <4>4 DEF Sound, Single, Open
    <3> QED  BY <1>7, <3>1 DEF ReadTelnet, Sound, Others
  <2> QED  BY <2>1, <2>2, <2>3
<1>8. ASSUME NEW f \in Websockets, ws' = Cleared(f),
             UNCHANGED <<sock, other, wpc, wfd, tn>>, ~ServerUses(f),
             \A h \in Fd : ServerUses(h)' => h = f \/ ServerUses(h)
      PROVE  Sound'
  <2>1. PICK i \in WsSlot : ws[i] = f
    BY <1>8 DEF Websockets, Entries
  <2>2. ASSUME NEW h \in Fd PROVE Single(h)' /\ Open(h)'
    <3>1. \A v \in Worker : Uses(v, h)' <=> Uses(v, h)
      BY <1>8 DEF Uses
    <3>2. \A j \in WsSlot : ws'[j] = h <=> (h # f /\ ws[j] = h)
      BY <1>8 DEF Cleared, TypeOK
    <3> QED  BY <1>8, <2>1, <3>1, <3>2 DEF Sound, Single, Open
  <2> QED  BY <1>8, <2>2 DEF Sound, Others
<1>9. CASE ReadWebsocket
  <2>1. PICK f \in ready \cap Websockets :
          /\ ws' = IF Incoming(f) \in {"end", "error", "bye"} THEN Cleared(f) ELSE ws
          /\ \/ Incoming(f) \in {"end", "bye"}   /\ spc' = "close"
             \/ Incoming(f) \in {"end", "error"} /\ spc' = "close error"
             \/ Incoming(f) = "part"             /\ spc' = "part"
             \/ Incoming(f) \notin {"end", "bye", "error", "part"} /\ UNCHANGED spc
          /\ cs' = IF spc' = "round" THEN cs ELSE f
    BY <1>9 DEF ReadWebsocket
  <2>2. /\ UNCHANGED <<sock, other, wpc, wfd, tn>> /\ spc = "round"
    BY <1>9 DEF ReadWebsocket
  <2>3. CASE Incoming(f) \in {"end", "error", "bye"}
    BY <1>8, <2>1, <2>2, <2>3 DEF ServerUses
  <2>4. CASE Incoming(f) \notin {"end", "error", "bye"}
    <3>1. ws' = ws /\ spc' \in {"part", "round"}
      BY <2>1, <2>2, <2>4
    <3> QED  BY <2>2, <3>1, Fewer DEF NoMoreUsers, Uses, ServerUses
  <2> QED  BY <2>3, <2>4
<1>10. CASE CloseClient
  <2>1. /\ cs \in Fd /\ ServerUses(cs) /\ Close(cs) /\ other' = other
        /\ UNCHANGED <<wpc, wfd, ws, tn>> /\ spc' \in {"round", "remove again"}
    BY <1>10 DEF CloseClient, TypeOK, ServerUses
  <2>2. PICK f \in Fd : f = cs
    BY <2>1
  <2>3. sock[f] # Other
    BY <2>1, <2>2 DEF Sound, Open
  <2>4. NoUsers(f)' /\ \A h \in Fd : NoMoreUsers(h)
    BY <2>1, <2>2 DEF Sound, Single, NoUsers, NoMoreUsers, Uses, ServerUses
  <2> QED  BY <2>1, <2>2, <2>3, <2>4, Closing
<1>11. CASE RemoveAgain
  <2>1. CASE cs \in Websockets
    BY <1>8, <1>11, <2>1 DEF RemoveAgain, ServerUses
  <2>2. CASE cs \notin Websockets
    BY <1>11, <2>2, Fewer DEF RemoveAgain, NoMoreUsers, Uses, ServerUses
  <2> QED  BY <2>1, <2>2
<1> QED  BY <1>1, <1>2, <1>3, <1>4, <1>5, <1>6, <1>7, <1>9, <1>10, <1>11
         DEF Serving

LEMMA ClientSound ==
  ASSUME TypeOK, Sound, NEW w \in Worker, Client(w)
  PROVE  Sound'
<1> USE Apart
<1>1. CASE ReadRequest(w) \/ ReadHalf(w) \/ TakeFile(w) \/ FileSent(w)
           \/ FindEntry(w) \/ EndClient(w)
  <2>1. /\ UNCHANGED <<sock, other, ws, tn, cs, spc>>
        /\ wpc[w] \notin {"none"} /\ \E l \in ClientAt : Goto(w, l)
        /\ wpc[w] = "exit" => wpc'[w] = "none"
    BY <1>1 DEF ReadRequest, ReadHalf, Handle, TakeFile, FileSent, FindEntry,
                EndClient, Goto, ClientAt, TypeOK
  <2>2. \A v \in Worker : wfd'[v] = wfd[v] \/ (v = w /\ wpc'[v] = "none")
    BY <1>1 DEF ReadRequest, ReadHalf, TakeFile, FileSent, FindEntry,
                EndClient, Goto, TypeOK
  <2>3. \A v \in Worker : v # w => wpc'[v] = wpc[v]
    BY <2>1, GotoTyped
  <2>4. \A h \in Fd : NoMoreUsers(h)
    BY <2>1, <2>2, <2>3 DEF NoMoreUsers, Uses, ServerUses
  <2> QED  BY <2>1, <2>4, Fewer
<1>2. CASE TakeEntry(w)
  <2>1. /\ UNCHANGED <<sock, other, tn, cs, spc, wfd>> /\ wpc[w] = "take"
        /\ ws' = [ws EXCEPT ![wslot[w]] = wfd[w]] /\ wslot[w] \in WsSlot
        /\ wfd[w] \in Fd
        /\ wpc'[w] = "exit" /\ \A v \in Worker : v # w => wpc'[v] = wpc[v]
    BY <1>2 DEF TakeEntry, Goto, TypeOK
  <2>2. ASSUME NEW h \in Fd PROVE Single(h)' /\ Open(h)'
    <3>1. \A v \in Worker : Uses(v, h)' <=> (v # w /\ Uses(v, h))
      BY <2>1 DEF Uses
    <3>2. Uses(w, h) <=> wfd[w] = h
      BY <2>1 DEF Uses
    <3>3. \A j \in WsSlot :
            ws'[j] = h <=> IF j = wslot[w] THEN wfd[w] = h ELSE ws[j] = h
      BY <2>1 DEF TypeOK
    <3>4. ServerUses(h)' <=> ServerUses(h)
      BY <2>1 DEF ServerUses
    <3> QED  BY <2>1, <3>1, <3>2, <3>3, <3>4 DEF Sound, Single, Open
  <2> QED  BY <2>1, <2>2 DEF Sound, Others
<1>3. CASE CloseSocket(w)
  <2>1. /\ wfd[w] \in Fd /\ Uses(w, wfd[w]) /\ Close(wfd[w]) /\ other' = other
        /\ UNCHANGED <<wfd, ws, tn, cs, spc>>
        /\ wpc'[w] = "exit" /\ \A v \in Worker : v # w => wpc'[v] = wpc[v]
    BY <1>3 DEF CloseSocket, Goto, Uses, TypeOK
  <2>2. sock[wfd[w]] # Other
    BY <2>1 DEF Sound, Open
  <2>3. NoUsers(wfd[w])' /\ \A h \in Fd : NoMoreUsers(h)
    BY <2>1 DEF Sound, Single, NoUsers, NoMoreUsers, Uses, ServerUses
  <2> QED  BY <2>1, <2>2, <2>3, Closing
<1> QED  BY <1>1, <1>2, <1>3 DEF Client

LEMMA OwnedNext == ASSUME IInv, [Next]_vars PROVE Owned'
<1>1. robbed => robbed'
  BY DEF Next, vars, Serving, Client, MakeSet, Select, AcceptWeb, StartClient,
         AcceptTelnet, Welcome, CloseAgain, ReadTelnet, ReadWebsocket, ReadRest,
         CloseClient, RemoveAgain, ReadRequest, ReadHalf, TakeFile, FileSent,
         FindEntry, TakeEntry, CloseSocket, EndClient, OtherOpen, OtherClose,
         Connect, Send, Leave
<1>2. ASSUME ~robbed' PROVE Sound'
  <2>1. Sound /\ TypeOK /\ Announced
    BY <1>1, <1>2 DEF IInv, Owned, Sound
  <2>2. CASE Serving
    BY <1>2, <2>1, <2>2, ServingSound
  <2>3. CASE OtherOpen \/ OtherClose
    BY <2>1, <2>3, OtherSound
  <2>4. CASE \E w \in Worker : Client(w)
    BY <2>1, <2>4, ClientSound
  <2>5. CASE UNCHANGED vars \/ \E p \in Peer : Connect(p) \/ Send(p) \/ Leave(p)
    <3>1. UNCHANGED <<sock, other, wpc, wfd, ws, tn, cs, spc>>
      BY <2>5 DEF Connect, Send, Leave, vars
    <3> QED  BY <2>1, <3>1, Fewer DEF NoMoreUsers, Uses, ServerUses
  <2> QED  BY <2>2, <2>3, <2>4, <2>5 DEF Next
<1> QED  BY <1>1, <1>2 DEF Owned, Sound

-----------------------------------------------------------------------------
LEMMA Invariance == Spec => []IInv
<1>1. IInv /\ [Next]_vars => IInv'
  BY Typed, SlotsNext, LinkedNext, OwnedNext DEF IInv
<1> QED  BY <1>1, InitIInv, PTL DEF Spec

\* Types, for every number of sockets, slots, entries and connections; and
\* whoever closes, reads or answers has a socket at hand.
THEOREM Typing == Spec => []TypeOK
<1>1. IInv => TypeOK
  BY DEF IInv
<1> QED  BY <1>1, Invariance, PTL

\* webserver_client_task gives semclient back once, whatever way it ends.
THEOREM NoSlotLost == Spec => []SlotsKept
<1>1. IInv => SlotsKept
  BY DEF IInv
<1> QED  BY <1>1, Invariance, PTL

\* No socket has two users, or a user whose connection is closed or another's,
\* although a number is used again as soon as it is closed and the tables are
\* changed without a lock: until a telnet is turned away (servers.c, 242).
THEOREM SocketsApart == Spec => []OneUser
<1>1. ASSUME NEW f \in Fd, Single(f), Open(f)
      PROVE  /\ Users(f) # {} => sock[f] \in Peer
             /\ \A a, b \in Users(f) : a = b
  BY <1>1 DEF Users, Single, Open
<1>2. IInv => OneUser
  BY <1>1 DEF IInv, Owned, OneUser
<1> QED  BY <1>2, Invariance, PTL

=============================================================================
