------------------------------ MODULE Servers ------------------------------
(***************************************************************************)
(* The web and telnet servers: main/servers.c (one task that accepts and     *)
(* selects), main/webserver.c (a task for each browser's connection),        *)
(* main/websocket.c and main/telnet.c (the tables of connected clients).     *)
(*                                                                          *)
(* A socket is a number that lwIP hands out again once it is closed.  The    *)
(* tables and the sockets are shared without a lock between the server, the  *)
(* client tasks and the other tasks of the radio that open sockets.         *)
(***************************************************************************)
EXTENDS Integers, FiniteSets

CONSTANTS NPeers,      \* bound: connections made, to port 80 or 23
          NFd,         \* sockets (CONFIG_LWIP_MAX_SOCKETS, 12)
          NSlots,      \* client tasks at a time (semclient, 4)
          NWs,         \* websockets (NBCLIENT, 5)
          NTelnet,     \* telnets (NBCLIENTT, 5)
          MaxSend,     \* bound: messages sent, and sockets other tasks open
          Other,       \* a connection of another task, the webclient's say
          NULL         \* -1

ASSUME ServersAssumption ==
  /\ NPeers \in Nat /\ NFd \in Nat \ {0} /\ NSlots \in Nat \ {0}
  /\ NWs \in Nat /\ NTelnet \in Nat /\ MaxSend \in Nat
  /\ {NULL, Other} \cap Int = {} /\ NULL # Other

\* A name that ends in _m is a mutated form of the definition that follows it.

Peer   == 1 .. NPeers    \* in the order in which they connect
Fd     == 1 .. NFd
WebServer    == 0        \* server_sock
TelnetServer == -1       \* telnetServer_sock
Worker == 1 .. NSlots    \* webserver_client_task, while it has a slot
WsSlot == 1 .. NWs
TnSlot == 1 .. NTelnet

VARIABLES
  sock,         \* who is at the other end of a socket
  slots,        \* the count of semclient
  semfile,      \* the count of semfile
  spc, fds, ready, cs,   \* servers_task: where it is, what it selects on,
                         \* what is ready, the socket it deals with
  wpc, wfd, wslot,       \* client tasks: where, client_sock, the i they found
  ws, tn,       \* webserverclients[].socket, telnetclients
  conn, inbox,  \* a peer's connection, and what it has sent
  other,        \* the socket of another task
  sent,         \* counter
  robbed        \* history: the second close of a telnet's hit another

servers == <<spc, fds, ready, cs>>
workers == <<wpc, wfd, wslot>>
peers   == <<conn, inbox, sent>>
vars    == <<sock, slots, semfile, spc, fds, ready, cs, wpc, wfd, wslot, ws, tn,
             conn, inbox, other, sent, robbed>>

Init ==
  /\ sock = [f \in Fd |-> NULL]
  /\ slots = NSlots /\ semfile = 1
  /\ spc = "round" /\ fds = {} /\ ready = {} /\ cs = NULL
  /\ wpc = [w \in Worker |-> "none"]
  /\ wfd = [w \in Worker |-> NULL] /\ wslot = [w \in Worker |-> NULL]
  /\ ws = [i \in WsSlot |-> NULL] /\ tn = [i \in TnSlot |-> NULL]
  /\ conn = [p \in Peer |-> "away"] /\ inbox = [p \in Peer |-> "none"]
  /\ other = NULL /\ sent = 0 /\ robbed = FALSE

Entries_m(table, Slot) == {table[i] : i \in Slot}
Entries(table, Slot) == {table[i] : i \in Slot} \ {NULL}
Telnets    == Entries(tn, TnSlot)
Websockets == Entries(ws, WsSlot)

-----------------------------------------------------------------------------
(* lwIP *)

FreeFds == {f \in Fd : sock[f] = NULL}
LeastFd == CHOOSE f \in FreeFds : \A h \in FreeFds : f <= h

\* accept() for peer p: without a free socket the connection is dropped.
Accept(p) ==
  IF FreeFds = {}
  THEN /\ conn' = [conn EXCEPT ![p] = "closed"]
       /\ UNCHANGED <<sock, cs>>
  ELSE /\ conn' = [conn EXCEPT ![p] = "open"]
       /\ sock' = [sock EXCEPT ![LeastFd] = p]
       /\ cs' = LeastFd

\* close(f), whoever has f now; what was not read is lost.
Close(f) ==
  /\ sock' = [sock EXCEPT ![f] = NULL]
  /\ IF sock[f] \in Peer
     THEN /\ conn' = [conn EXCEPT ![sock[f]] = "closed"]
          /\ inbox' = [inbox EXCEPT ![sock[f]] = "none"]
     ELSE UNCHANGED <<conn, inbox>>

\* What read(f) finds: something a peer sent, the end, or an error.
Incoming(f) == IF sock[f] \notin Peer THEN "error"
               ELSE IF inbox[sock[f]] = "none" /\ conn[sock[f]] = "left" THEN "end"
               ELSE inbox[sock[f]]

Nothing == {"none", "end", "error"}

Consume(f) == inbox' = IF sock[f] \in Peer
                       THEN [inbox EXCEPT ![sock[f]] = "none"] ELSE inbox

-----------------------------------------------------------------------------
(* The peers, and the other tasks of the radio *)

Connect(p) ==
  /\ conn[p] = "away" /\ (p > 1 => conn[p - 1] # "away")
  /\ \E port \in {"web", "telnet"} : conn' = [conn EXCEPT ![p] = port]
  /\ UNCHANGED <<sock, slots, semfile, servers, workers, ws, tn, inbox, other,
                 sent, robbed>>

\* What a peer may send: a command, or a message or a part of one or the close
\* of a websocket; a request or a half of one, or the opening of a websocket.
Message == {"whole", "half", "upgrade", "part", "bye"}
Says(p) == IF \E f \in Telnets : sock[f] = p THEN {"whole"}
           ELSE IF \E f \in Websockets : sock[f] = p THEN {"whole", "part", "bye"}
           ELSE {"whole", "half", "upgrade"}

Send(p) ==
  /\ conn[p] = "open" /\ inbox[p] = "none" /\ sent < MaxSend
  /\ sent' = sent + 1
  /\ \E m \in Says(p) : inbox' = [inbox EXCEPT ![p] = m]
  /\ UNCHANGED <<sock, slots, semfile, servers, workers, ws, tn, conn, other,
                 robbed>>

Leave(p) ==
  /\ conn[p] = "open"
  /\ conn' = [conn EXCEPT ![p] = "left"]
  /\ UNCHANGED <<sock, slots, semfile, servers, workers, ws, tn, inbox, other,
                 sent, robbed>>

OtherOpen ==
  /\ other = NULL /\ FreeFds # {} /\ sent < MaxSend
  /\ other' = LeastFd /\ sent' = sent + 1
  /\ sock' = [sock EXCEPT ![LeastFd] = Other]
  /\ UNCHANGED <<slots, semfile, servers, workers, ws, tn, conn, inbox, robbed>>

OtherClose ==
  /\ other # NULL
  /\ Close(other) /\ other' = NULL
  /\ UNCHANGED <<slots, semfile, servers, workers, ws, tn, sent, robbed>>

-----------------------------------------------------------------------------
(* servers_task *)

\* What is left of a round of the loop, in its order: the connections to
\* accept, the telnets and the websockets to read.
Listeners  == {WebServer, TelnetServer}

\* FD_ZERO and FD_SETs: the set is made of the tables as they are now.
MakeSet ==
  /\ spc = "round" /\ ready \cap (Listeners \cup Telnets \cup Websockets) = {}
  /\ ready' = {} /\ fds' = Telnets \cup Websockets
  /\ spc' = "select"
  /\ UNCHANGED <<sock, slots, semfile, cs, workers, ws, tn, peers, other, robbed>>

Waiting(port) == {p \in Peer : conn[p] = port}
First(port) == CHOOSE p \in Waiting(port) : \A q \in Waiting(port) : p <= q

Select ==
  /\ spc = "select"
  /\ ready' = {f \in fds : Incoming(f) # "none"}
              \cup {l \in Listeners :
                     Waiting(IF l = WebServer THEN "web" ELSE "telnet") # {}}
  /\ ready' # {}
  /\ fds' = {} /\ spc' = "round"
  /\ UNCHANGED <<sock, slots, semfile, cs, workers, ws, tn, peers, other,
                 robbed>>

AcceptWeb ==
  /\ spc = "round" /\ WebServer \in ready
  /\ ready' = ready \ {WebServer}
  /\ Accept(First("web"))
  /\ spc' = IF FreeFds = {} THEN spc ELSE "slot"
  /\ UNCHANGED <<slots, semfile, fds, workers, ws, tn, inbox, other, sent,
                 robbed>>

\* semclient is waited for without a limit, then a task is created.
StartClient(w) ==
  /\ spc = "slot" /\ slots > 0
  /\ wpc[w] = "none" /\ \A v \in Worker : v < w => wpc[v] # "none"
  /\ slots' = slots - 1
  /\ wpc' = [wpc EXCEPT ![w] = "read"]
  /\ wfd' = [wfd EXCEPT ![w] = cs]
  /\ spc' = "round" /\ cs' = NULL
  /\ UNCHANGED <<sock, semfile, fds, ready, wslot, ws, tn, peers, other, robbed>>

AcceptTelnet ==
  /\ spc = "round" /\ WebServer \notin ready /\ TelnetServer \in ready
  /\ ready' = ready \ {TelnetServer}
  /\ Accept(First("telnet"))
  /\ spc' = IF FreeFds = {} THEN spc ELSE "welcome"
  /\ UNCHANGED <<slots, semfile, fds, workers, ws, tn, inbox, other, sent,
                 robbed>>

\* telnet_accept: with the table full the socket is closed, and then closed
\* once more by servers_task, whoever has it by then.
Welcome ==
  /\ spc = "welcome"
  /\ IF \E i \in TnSlot : tn[i] = NULL
     THEN /\ tn' = [tn EXCEPT ![CHOOSE i \in TnSlot : tn[i] = NULL] = cs]
          /\ spc' = "round" /\ cs' = NULL
          /\ UNCHANGED <<sock, conn, inbox>>
     ELSE Close(cs) /\ spc' = "close again" /\ UNCHANGED <<tn, cs>>
  /\ UNCHANGED <<slots, semfile, fds, ready, workers, ws, other, sent, robbed>>

CloseAgain ==
  /\ spc = "close again"
  /\ Close(cs) /\ cs' = NULL /\ spc' = "round"
  /\ robbed' = (robbed \/ sock[cs] # NULL)
  /\ UNCHANGED <<slots, semfile, fds, ready, workers, ws, tn, other, sent>>

\* A command of a telnet, or its end: telnet_read, telnet_remove_client
ReadTelnet ==
  /\ spc = "round" /\ ready \cap Listeners = {}
  /\ \E i \in TnSlot :
       /\ tn[i] \in ready
       /\ ready' = ready \ {tn[i]}
       /\ Consume(tn[i])
       /\ IF Incoming(tn[i]) \in {"end", "error"}
          THEN /\ tn' = [tn EXCEPT ![i] = NULL] /\ cs' = tn[i]
               /\ spc' = "close"
          ELSE UNCHANGED <<tn, cs, spc>>
  /\ UNCHANGED <<sock, slots, semfile, fds, workers, ws, conn, other, sent,
                 robbed>>

Cleared_m(f) == ws
Cleared(f) == [i \in WsSlot |-> IF ws[i] = f THEN NULL ELSE ws[i]]

\* websocket_read: a close, a reset connection and what is not understood end
\* the client; after most errors websocket_remove_client is called twice.
ReadWebsocket ==
  /\ spc = "round" /\ ready \cap (Listeners \cup Telnets) = {}
  /\ \E f \in ready \cap Websockets :
       /\ ready' = ready \ {f}
       /\ Consume(f)
       /\ ws' = IF Incoming(f) \in {"end", "error", "bye"} THEN Cleared(f) ELSE ws
       /\ \/ Incoming(f) \in {"end", "bye"}   /\ spc' = "close"
          \/ Incoming(f) \in {"end", "error"} /\ spc' = "close error"
          \/ Incoming(f) = "part"             /\ spc' = "part"
          \/ Incoming(f) \notin {"end", "bye", "error", "part"} /\ UNCHANGED spc
       /\ cs' = IF spc' = "round" THEN cs ELSE f
  /\ UNCHANGED <<sock, slots, semfile, fds, workers, tn, conn, other, sent,
                 robbed>>

\* The rest of a message is read in a loop that nothing else ends.
ReadRest ==
  /\ spc = "part" /\ Incoming(cs) \notin Nothing
  /\ Consume(cs) /\ spc' = "round" /\ cs' = NULL
  /\ UNCHANGED <<sock, slots, semfile, fds, ready, workers, ws, tn, conn, other,
                 sent, robbed>>

CloseClient ==
  /\ spc \in {"close", "close error"}
  /\ Close(cs)
  /\ spc' = IF spc = "close" THEN "round" ELSE "remove again"
  /\ cs' = IF spc = "close" THEN NULL ELSE cs
  /\ UNCHANGED <<slots, semfile, fds, ready, workers, ws, tn, other, sent, robbed>>

RemoveAgain ==
  /\ spc = "remove again"
  /\ IF cs \in Websockets
     THEN ws' = Cleared(cs) /\ spc' = "close" /\ UNCHANGED cs
     ELSE spc' = "round" /\ cs' = NULL /\ UNCHANGED ws
  /\ UNCHANGED <<sock, slots, semfile, fds, ready, workers, tn, peers, other,
                 robbed>>

-----------------------------------------------------------------------------
(* webserver_client_task *)

Goto(w, l) == wpc' = [wpc EXCEPT ![w] = l]

\* httpServerHandleConnection: a file is asked for; or a command is answered,
\* or there is no such file, and semfile (1 at most) is given if that fails.
Handle(w) == \/ Goto(w, "serve") /\ UNCHANGED semfile
             \/ Goto(w, "read") /\ semfile' \in {semfile, 1}

\* A read that fails, ends, or gets nothing in 6 s ends the task.
ReadRequest(w) ==
  /\ wpc[w] = "read"
  /\ CASE Incoming(wfd[w]) = "half"    -> Goto(w, "rest") /\ UNCHANGED semfile
       [] Incoming(wfd[w]) = "upgrade" -> Goto(w, "find") /\ UNCHANGED semfile
       [] Incoming(wfd[w]) \in Nothing -> Goto(w, "close") /\ UNCHANGED semfile
       [] OTHER                        -> Handle(w)
  /\ Consume(wfd[w])
  /\ UNCHANGED <<sock, slots, servers, wfd, wslot, ws, tn, conn, other, sent,
                 robbed>>

\* Once 6 s have passed errno stays EAGAIN, and the loop throws away whatever
\* comes; it does not leave at the end of the connection either.
ReadHalf(w) ==
  /\ wpc[w] = "rest"
  /\ IF Incoming(wfd[w]) \in Nothing THEN Goto(w, "stuck") /\ UNCHANGED semfile
                                      ELSE Handle(w)
  /\ Consume(wfd[w])
  /\ UNCHANGED <<sock, slots, servers, wfd, wslot, ws, tn, conn, other, sent,
                 robbed>>

\* serveFile
TakeFile(w) ==
  /\ wpc[w] = "serve" /\ semfile > 0
  /\ semfile' = semfile - 1 /\ Goto(w, "send")
  /\ UNCHANGED <<sock, slots, servers, wfd, wslot, ws, tn, peers, other, robbed>>

FileSent(w) ==
  /\ wpc[w] = "send"
  /\ semfile' = 1 /\ Goto(w, "read")
  /\ UNCHANGED <<sock, slots, servers, wfd, wslot, ws, tn, peers, other, robbed>>

\* websocket_accept: a free entry is looked for, taken, and the client answered.
FindEntry(w) ==
  /\ wpc[w] = "find"
  /\ IF \E i \in WsSlot : ws[i] = NULL
     THEN /\ wslot' = [wslot EXCEPT ![w] = CHOOSE i \in WsSlot :
                          ws[i] = NULL /\ \A j \in 1 .. i - 1 : ws[j] # NULL]
          /\ Goto(w, "take")
     ELSE Goto(w, "exit") /\ UNCHANGED wslot
  /\ UNCHANGED <<sock, slots, semfile, servers, wfd, ws, tn, peers, other,
                 robbed>>

TakeEntry(w) ==
  /\ wpc[w] = "take"
  /\ ws' = [ws EXCEPT ![wslot[w]] = wfd[w]]
  /\ wslot' = [wslot EXCEPT ![w] = NULL]
  /\ Goto(w, "exit")
  /\ UNCHANGED <<sock, slots, semfile, servers, wfd, tn, peers, other, robbed>>

CloseSocket(w) ==
  /\ wpc[w] = "close"
  /\ Close(wfd[w]) /\ Goto(w, "exit")
  /\ UNCHANGED <<slots, semfile, servers, wfd, wslot, ws, tn, other, sent, robbed>>

SlotsAfter_m(w) == IF wfd[w] \in Websockets THEN slots ELSE slots + 1
SlotsAfter(w)   == slots + 1

EndClient(w) ==
  /\ wpc[w] = "exit"
  /\ slots' = SlotsAfter(w) /\ Goto(w, "none")
  /\ wfd' = [wfd EXCEPT ![w] = NULL]
  /\ UNCHANGED <<sock, semfile, servers, wslot, ws, tn, peers, other, robbed>>

-----------------------------------------------------------------------------
Serving == MakeSet \/ Select \/ AcceptWeb \/ AcceptTelnet \/ Welcome
           \/ CloseAgain \/ ReadTelnet \/ ReadWebsocket \/ ReadRest
           \/ CloseClient \/ RemoveAgain \/ \E w \in Worker : StartClient(w)
Client(w) == ReadRequest(w) \/ ReadHalf(w) \/ TakeFile(w) \/ FileSent(w)
             \/ FindEntry(w) \/ TakeEntry(w) \/ CloseSocket(w)
             \/ EndClient(w)

Next == \/ Serving \/ OtherOpen \/ OtherClose
        \/ \E w \in Worker : Client(w)
        \/ \E p \in Peer : Connect(p) \/ Send(p) \/ Leave(p)

Spec == Init /\ [][Next]_vars

\* The tasks are scheduled, and a read gives up after 6 s; no peer has to do
\* anything but take what it has asked for.
FairSpec == Spec /\ WF_vars(Serving) /\ \A w \in Worker : WF_vars(Client(w))

-----------------------------------------------------------------------------
ServerAt == {"round", "select", "slot", "welcome", "close again", "part", "close",
             "close error", "remove again"}
ClientAt == {"none", "read", "rest", "stuck", "serve", "send", "find", "take",
             "close", "exit"}

\* Every variable keeps to its type, and a socket is at hand where the code
\* uses one.
TypeOK ==
  /\ sock \in [Fd -> Peer \cup {Other, NULL}]
  /\ slots \in 0 .. NSlots /\ semfile \in 0 .. 1
  /\ spc \in ServerAt /\ fds \subseteq Fd
  /\ ready \subseteq Fd \cup Listeners
  /\ cs \in Fd \cup {NULL}
  /\ (cs = NULL) <=> (spc \in {"round", "select"})
  /\ wpc \in [Worker -> ClientAt]
  /\ wfd \in [Worker -> Fd \cup {NULL}]
  /\ wslot \in [Worker -> WsSlot \cup {NULL}]
  /\ \A w \in Worker : /\ (wfd[w] = NULL) <=> (wpc[w] = "none")
                       /\ (wslot[w] = NULL) <=> (wpc[w] # "take")
  /\ ws \in [WsSlot -> Fd \cup {NULL}] /\ tn \in [TnSlot -> Fd \cup {NULL}]
  /\ conn \in [Peer -> {"away", "web", "telnet", "open", "left", "closed"}]
  /\ inbox \in [Peer -> Message \cup {"none"}]
  /\ other \in Fd \cup {NULL} /\ sent \in Nat /\ robbed \in BOOLEAN

\* A slot is free, or a client task has it: whatever way a task ends, it gives
\* semclient back once (webserver_client_task, 1136).
Busy == {w \in Worker : wpc[w] # "none"}
SlotsKept == slots + Cardinality(Busy) = NSlots

\* A socket has one user: two client tasks, two entries of the tables, or a
\* task and an entry never share one, and none of them has one that is closed
\* or belongs to another task.  So nobody reads what was sent to another, or
\* closes another's socket; until a telnet client that is turned away makes the
\* server do that.
Uses(w, f) == wfd[w] = f /\ wpc[w] \notin {"none", "exit"}
ServerUses(f) == cs = f /\ spc \in {"slot", "welcome", "close", "close error"}
Users(f) == {<<"client", w>> : w \in {v \in Worker : Uses(v, f)}}
            \cup {<<"websocket", i>> : i \in {j \in WsSlot : ws[j] = f}}
            \cup {<<"telnet", i>> : i \in {j \in TnSlot : tn[j] = f}}
            \cup {<<"server", 0>> : x \in {y \in {0} : ServerUses(f)}}
OneUser ==
  robbed \/ \A f \in Fd : /\ Users(f) # {} => sock[f] \in Peer
                          /\ \A a, b \in Users(f) : a = b

\* A connection that is open is somebody's: a client task ends without closing
\* its socket when "only a websocket" was created (webserver.c, 1121).
NoOrphan == \A f \in Fd : sock[f] \in Peer => Users(f) # {}

\* Again and again the server has accepted whoever came and waits for more,
\* however the connections there are behave, unless a part of a websocket's
\* message or half requests, one for each slot, have been left behind: the time
\* limit of 6 s, the slots and semfile let everyone else go on.
Blocked == spc = "part" \/ \A w \in Worker : wpc[w] = "stuck"
Accepted ==
  []<>(Blocked \/ (spc = "select" /\ Waiting("web") \cup Waiting("telnet") = {}))
====
