----------------------------- MODULE WebClient -----------------------------
(***************************************************************************)
(* The session protocol of the web radio: webclient_task of main/webclient.c *)
(* and the tasks that ask it to play or to stop, through webclient_connect,  *)
(* webclient_silent_disconnect and action_webstation_set / _stop of          *)
(* esp_radio/action_manager.c.                                               *)
(*                                                                           *)
(* They meet in three binary semaphores (sConnect: begin a session;          *)
(* sDisconnect: end it; sConnected: there is none) and a few plain variables.*)
(* The webclient calls the same functions itself, to end, redirect or        *)
(* restart a session.  One step is one access to what is shared.  What the   *)
(* session does to the player is in Player, to the stream's bytes in IcyMeta.*)
(***************************************************************************)
EXTENDS Integers

CONSTANTS User,      \* tasks that command the radio: UART, web, timers, buttons
          Command,   \* what they ask for
          Chunked,   \* may a stream be chunked?  a subset of BOOLEAN
          MaxError   \* the count of empty reads that ends a session (10)

ASSUME TaskAssumption  == "webclient" \notin User
ASSUME LimitAssumption == Chunked \subseteq BOOLEAN /\ MaxError \in Nat \ {0}
ASSUME CommandAssumption ==
  Command \subseteq {"station", "instant", "stop", "wake", "wifi lost"}

\* A name that ends in _m is a mutated form of the definition that follows it.

Client == "webclient"
Task   == User \cup {Client}

VARIABLES
  pc, back,      \* where every task is, and where it goes on after a call
  sConnect, sConnected, sDisconnect,
  cstatus, once, playing,
  bytes,         \* bytes_read of the last recv: "some", "none" or "error"
  cnterror,
  tail,          \* bound: the packet goes on after a header, at most once
  chunked,       \* the stream is chunked
  closed,        \* the server has closed the connection
  running,       \* webstation_is_running
  on,            \* what of the audio path is on: "merus", "i2s"
  asked          \* history: has sDisconnect been given in this session?

sems    == <<sConnect, sConnected, sDisconnect>>
conn    == <<bytes, cnterror, tail, chunked, closed>>
session == <<cstatus, once, playing, conn>>
audio   == <<running, on>>
vars    == <<pc, back, sems, session, audio, asked>>

Go(t, l)      == pc' = [pc EXCEPT ![t] = l]
Call(t, f, l) == Go(t, f) /\ back' = [back EXCEPT ![t] = l]
Return(t)     == Go(t, back[t]) /\ UNCHANGED back

Init ==
  /\ pc = [t \in Task |-> IF t = Client THEN "top" ELSE "idle"]
  /\ back = [t \in Task |-> "idle"]
  /\ sConnect = FALSE /\ sConnected = FALSE /\ sDisconnect = FALSE
  /\ cstatus = "header" /\ once = FALSE /\ playing = FALSE
  /\ bytes = "none" /\ cnterror = 0 /\ tail = FALSE
  /\ chunked = FALSE /\ closed = FALSE
  /\ running = FALSE /\ on = {} /\ asked = FALSE

-----------------------------------------------------------------------------
(* action_webstation_stop, for the webclient behind webclient_disconnect *)

StopRunning(t) ==
  /\ pc[t] = "stop"
  /\ running' = FALSE
  /\ Go(t, "stop give")
  /\ UNCHANGED <<back, sems, session, on, asked>>

StopGive(t) ==
  /\ pc[t] = "stop give"
  /\ sDisconnect' = TRUE /\ asked' = TRUE
  /\ Go(t, "stop i2s")
  /\ UNCHANGED <<back, sConnect, sConnected, session, audio>>

StopI2s(t) ==
  /\ pc[t] = "stop i2s"
  /\ on' = on \ {"i2s"}
  /\ Go(t, "stop merus")
  /\ UNCHANGED <<back, sems, session, running, asked>>

StopMerus(t) ==
  /\ pc[t] = "stop merus"
  /\ on' = on \ {"merus"}
  /\ Return(t)
  /\ UNCHANGED <<sems, session, running, asked>>

StopStep(t) == StopRunning(t) \/ StopGive(t) \/ StopI2s(t) \/ StopMerus(t)

-----------------------------------------------------------------------------
(* webclient_connect, and webclient_connect_once without its last line *)

ConnectStatus(t) ==
  /\ pc[t] \in {"connect", "connect once"}
  /\ cstatus' = "header"
  /\ once' = IF pc[t] = "connect" THEN FALSE ELSE once
  /\ Go(t, "resolve")
  /\ UNCHANGED <<back, sems, playing, conn, audio, asked>>

Resolved(t) ==
  /\ pc[t] = "resolve"
  /\ sConnect' = TRUE
  /\ Return(t)
  /\ UNCHANGED <<sConnected, sDisconnect, session, audio, asked>>

\* No address: the radio is stopped.
Unresolved(t) ==
  /\ pc[t] = "resolve"
  /\ Go(t, "stop")
  /\ UNCHANGED <<back, sems, session, audio, asked>>

ConnectStep(t) == ConnectStatus(t) \/ Resolved(t) \/ Unresolved(t)

-----------------------------------------------------------------------------
(* webclient_silent_disconnect, for the webclient from audio_stream_consumer *)

\* It waits until no session is left, or for so long:
\* webclient_is_connected takes sConnected, and gives it back.
SilentDisconnect(t) ==
  /\ pc[t] = "disconnect"
  /\ sDisconnect' = TRUE /\ asked' = TRUE
  /\ Go(t, "wait")
  /\ UNCHANGED <<back, sConnect, sConnected, session, audio>>

NotConnected(t) ==
  /\ pc[t] = "wait" /\ sConnected
  /\ sConnected' = FALSE
  /\ Go(t, "give back")
  /\ UNCHANGED <<back, sConnect, sDisconnect, session, audio, asked>>

GiveBack(t) ==
  /\ pc[t] = "give back"
  /\ sConnected' = TRUE
  /\ Return(t)
  /\ UNCHANGED <<sConnect, sDisconnect, session, audio, asked>>

WaitedEnough(t) ==
  /\ pc[t] = "wait" /\ ~sConnected
  /\ Return(t)
  /\ UNCHANGED <<sems, session, audio, asked>>

SilentStep(t) ==
  SilentDisconnect(t) \/ NotConnected(t) \/ GiveBack(t) \/ WaitedEnough(t)

CallStep(t) == StopStep(t) \/ ConnectStep(t) \/ SilentStep(t)

-----------------------------------------------------------------------------
(* What the other tasks ask for *)

\* action_webstation_set: silent disconnect, connect, power the audio path.
AskStation(u) ==
  /\ pc[u] = "idle" /\ "station" \in Command
  /\ Call(u, "disconnect", "set")
  /\ UNCHANGED <<sems, session, audio, asked>>

\* cli.instant: stop, then connect once.
AskInstant(u) ==
  /\ pc[u] = "idle" /\ "instant" \in Command
  /\ Call(u, "stop", "instant")
  /\ UNCHANGED <<sems, session, audio, asked>>

AskStop(u) ==
  /\ pc[u] = "idle" /\ "stop" \in Command
  /\ Call(u, "stop", "idle")
  /\ UNCHANGED <<sems, session, audio, asked>>

\* TIMER_WAKE.
Wake(u) ==
  /\ pc[u] = "idle" /\ "wake" \in Command
  /\ Call(u, "connect", "idle")
  /\ UNCHANGED <<sems, session, audio, asked>>

\* on_wifi_disconnected.
WifiLost(u) ==
  /\ pc[u] = "idle" /\ "wifi lost" \in Command
  /\ Call(u, "disconnect", "idle")
  /\ UNCHANGED <<sems, session, audio, asked>>

SetRunning(u) ==
  /\ pc[u] = "set"
  /\ running' = TRUE
  /\ Call(u, "connect", "merus on")
  /\ UNCHANGED <<sems, session, on, asked>>

\* The station cannot be read: action_webstation_set returns.
NoStation(u) ==
  /\ pc[u] = "set"
  /\ Go(u, "idle")
  /\ UNCHANGED <<back, sems, session, audio, asked>>

MerusOn(u) ==
  /\ pc[u] = "merus on"
  /\ on' = on \cup {"merus"}
  /\ Go(u, "i2s on")
  /\ UNCHANGED <<back, sems, session, running, asked>>

I2sOn(u) ==
  /\ pc[u] = "i2s on"
  /\ on' = on \cup {"i2s"}
  /\ Go(u, "idle")
  /\ UNCHANGED <<back, sems, session, running, asked>>

InstantConnect(u) ==
  /\ pc[u] = "instant"
  /\ Call(u, "connect once", "set once")
  /\ UNCHANGED <<sems, session, audio, asked>>

SetOnce(u) ==
  /\ pc[u] = "set once"
  /\ once' = TRUE
  /\ Go(u, "idle")
  /\ UNCHANGED <<back, sems, cstatus, playing, conn, audio, asked>>

Ask(u) ==
  AskStation(u) \/ AskInstant(u) \/ AskStop(u) \/ Wake(u) \/ WifiLost(u)

UserStep(u) ==
  \/ CallStep(u)
  \/ SetRunning(u) \/ NoStation(u) \/ MerusOn(u) \/ I2sOn(u)
  \/ InstantConnect(u) \/ SetOnce(u)

-----------------------------------------------------------------------------
(* webclient_task: from one session to the next *)

NoSession ==
  /\ pc[Client] = "top"
  /\ sConnected' = TRUE
  /\ Go(Client, "idle")
  /\ UNCHANGED <<back, sConnect, sDisconnect, session, audio, asked>>

TakeConnect ==
  /\ pc[Client] = "idle" /\ sConnect
  /\ sConnect' = FALSE /\ asked' = FALSE
  /\ Go(Client, "drop")
  /\ UNCHANGED <<back, sConnected, sDisconnect, session, audio>>

\* A stop given before the session is none of its business.
Kept_m == sDisconnect
Kept == FALSE

DropDisconnect ==
  /\ pc[Client] = "drop"
  /\ sDisconnect' = Kept
  /\ Go(Client, "socket")
  /\ UNCHANGED <<back, sConnect, sConnected, session, audio, asked>>

NoSocket ==
  /\ pc[Client] = "socket"
  /\ sDisconnect' = TRUE /\ asked' = TRUE
  /\ Go(Client, "top")
  /\ UNCHANGED <<back, sConnect, sConnected, session, audio>>

\* connect(), or the TLS handshake, fails.
ConnectionError ==
  /\ pc[Client] = "socket"
  /\ bytes' = "none"
  /\ Call(Client, "stop", "top")
  /\ UNCHANGED <<sems, cstatus, once, playing, cnterror, tail, chunked,
                 closed, audio, asked>>

\* The path asked for names a playlist, or a stream.
Connected ==
  /\ pc[Client] = "socket"
  /\ bytes' = "none" /\ closed' = FALSE
  /\ cstatus' \in {cstatus, "playlist"}
  /\ Go(Client, "request")
  /\ UNCHANGED <<back, sems, once, playing, cnterror, tail, chunked, audio,
                 asked>>

\* The request is sent; over TLS it may fail.
Request ==
  /\ pc[Client] = "request"
  /\ sConnected' = FALSE /\ cnterror' = 0
  /\ \E l \in {"recv", "clear"} : Go(Client, l)
  /\ UNCHANGED <<back, sConnect, sDisconnect, cstatus, once, playing, bytes,
                 tail, chunked, closed, audio, asked>>

-----------------------------------------------------------------------------
(* The receive loop *)

Loop == {"recv", "callback", "stream", "first length", "first delay", "length",
         "delay", "chunk", "dropped", "undecoded", "redirect", "test"}

ServerCloses ==
  /\ pc[Client] \in Loop /\ ~closed
  /\ closed' = TRUE
  /\ UNCHANGED <<pc, back, sems, cstatus, once, playing, bytes, cnterror,
                 tail, chunked, audio, asked>>

Received ==
  /\ pc[Client] = "recv" /\ ~closed
  /\ bytes' = "some" /\ cnterror' = 0 /\ tail' = TRUE
  /\ Go(Client, "callback")
  /\ UNCHANGED <<back, sems, cstatus, once, playing, chunked, closed, audio,
                 asked>>

\* How many reads in a row may bring nothing.
ReadsOn_m(n) == n <= MaxError
ReadsOn(n) == n < MaxError

\* Nothing within the timeout, the end of the stream, or an error: the loop
\* ends at once on errno 128, or after so many times.
NoData ==
  /\ pc[Client] = "recv"
  /\ bytes' \in {"none", "error"}
  /\ cnterror' = cnterror + 1
  /\ \/ ReadsOn(cnterror') /\ Go(Client, "test")
     \/ Go(Client, "after")
  /\ UNCHANGED <<back, sems, cstatus, once, playing, tail, chunked, closed,
                 audio, asked>>

\* The stop that was asked for is seen after every read.
StopSeen_m == sDisconnect /\ bytes = "none"
StopSeen == sDisconnect

LoopTest ==
  /\ pc[Client] = "test"
  /\ sDisconnect' = IF StopSeen THEN FALSE ELSE sDisconnect
  /\ Go(Client, IF ~StopSeen /\ (bytes = "some" \/ (playing /\ bytes = "none"))
                THEN "recv" ELSE "after")
  /\ UNCHANGED <<back, sConnect, sConnected, session, audio, asked>>

(* clientReceiveCallback, by cstatus *)

NotFound ==
  /\ pc[Client] = "callback" /\ cstatus # "data"
  /\ cstatus' = "header"
  /\ Call(Client, "stop", "test")
  /\ UNCHANGED <<sems, once, playing, conn, audio, asked>>

\* A playlist with an address, and one that goes on in the next packet.
PlaylistParsed ==
  /\ pc[Client] = "callback" /\ cstatus = "playlist"
  /\ Call(Client, "stop", "test")
  /\ UNCHANGED <<sems, session, audio, asked>>

PlaylistMore ==
  /\ pc[Client] = "callback" /\ cstatus = "playlist"
  /\ cstatus' = "playlist1"
  /\ Go(Client, "test")
  /\ UNCHANGED <<back, sems, once, playing, conn, audio, asked>>

\* The rest of a playlist, or an answer "moved": a playlist to follow.
Redirect ==
  /\ pc[Client] = "callback" /\ cstatus \in {"playlist1", "header"}
  /\ Call(Client, "stop", "redirect")
  /\ UNCHANGED <<sems, session, audio, asked>>

Redirected ==
  /\ pc[Client] = "redirect"
  /\ cstatus' = "playlist"
  /\ Go(Client, "test")
  /\ UNCHANGED <<back, sems, once, playing, conn, audio, asked>>

\* The header of a stream: read to its end, or given up; an error the server
\* reports in it stops the radio first.
Header ==
  /\ pc[Client] = "callback" /\ cstatus \in {"header", "header1"}
  /\ cstatus' = "header1"
  /\ \/ Go(Client, "stream") /\ UNCHANGED back
     \/ \E l \in {"test", "stream"} : Call(Client, "stop", l)
  /\ UNCHANGED <<sems, once, playing, conn, audio, asked>>

StreamFound ==
  /\ pc[Client] = "stream"
  /\ cstatus' = "data" /\ chunked' \in Chunked
  /\ \/ Go(Client, "test") /\ UNCHANGED tail
     \/ chunked' /\ Go(Client, "first length") /\ UNCHANGED tail
     \/ tail /\ tail' = FALSE /\ Go(Client, "callback")
  /\ UNCHANGED <<back, sems, once, playing, bytes, cnterror, closed, audio,
                 asked>>

\* The two loops that read on until the length of a chunk is there: the first
\* one's, behind the header, and the next one's.  Then comes what follows it.
LengthWait == {"first length", "length"}
Behind ==
  IF pc[Client] = "length" THEN {"chunk"}
  ELSE {"test"} \cup (IF tail THEN {"callback"} ELSE {})

LengthRead ==
  /\ pc[Client] \in LengthWait /\ ~closed
  /\ \E l \in Behind : Go(Client, l)
  /\ tail' = FALSE
  /\ UNCHANGED <<back, sems, cstatus, once, playing, bytes, cnterror, chunked,
                 closed, audio, asked>>

LengthError ==
  /\ pc[Client] \in LengthWait /\ ~closed
  /\ \E l \in Behind : Call(Client, "stop", l)
  /\ tail' = FALSE
  /\ UNCHANGED <<sems, cstatus, once, playing, bytes, cnterror, chunked,
                 closed, audio, asked>>

LengthMissing ==
  /\ closed
  /\ \/ pc[Client] = "length" /\ Go(Client, "delay")
     \/ pc[Client] = "first length" /\ Go(Client, "first delay")
  /\ UNCHANGED <<back, sems, session, audio, asked>>

LengthDelay ==
  /\ \/ pc[Client] = "delay" /\ Go(Client, "length")
     \/ pc[Client] = "first delay" /\ Go(Client, "first length")
  /\ UNCHANGED <<back, sems, session, audio, asked>>

\* In the C_DATA part, whatever cstatus becomes meanwhile.
InData == \/ pc[Client] = "callback" /\ cstatus = "data"
          \/ pc[Client] = "chunk"

\* Bytes of a stream: after so many packets it counts as playing.
Data ==
  /\ InData
  /\ playing' \in {playing, TRUE}
  /\ Go(Client, "test")
  /\ UNCHANGED <<back, sems, cstatus, once, conn, audio, asked>>

\* The player has been told to stop: audio_stream_consumer disconnects.
StoppedData ==
  /\ InData
  /\ Call(Client, "disconnect", "dropped")
  /\ UNCHANGED <<sems, session, audio, asked>>

Dropped ==
  /\ pc[Client] = "dropped"
  /\ playing' \in {playing, TRUE}
  /\ Go(Client, "test")
  /\ UNCHANGED <<back, sems, cstatus, once, conn, audio, asked>>

\* No decoder can be made: action_stop, which leaves the web station alone when
\* the radio is set to FM; the webclient counts it as playing.
NoDecoder ==
  /\ InData
  /\ \/ Call(Client, "stop", "undecoded")
     \/ Go(Client, "undecoded") /\ UNCHANGED back
  /\ UNCHANGED <<sems, session, audio, asked>>

Undecoded ==
  /\ pc[Client] = "undecoded"
  /\ playing' = TRUE
  /\ Go(Client, "test")
  /\ UNCHANGED <<back, sems, cstatus, once, conn, audio, asked>>

\* A chunk ends in the packet.
NextChunk ==
  /\ InData /\ chunked
  /\ Go(Client, "length")
  /\ UNCHANGED <<back, sems, session, audio, asked>>

\* A chunk that does not end where it should: disconnect, then connect.
BadChunk ==
  /\ InData /\ chunked
  /\ Call(Client, "stop", "reconnect")
  /\ UNCHANGED <<sems, session, audio, asked>>

Reconnect ==
  /\ pc[Client] = "reconnect"
  /\ Call(Client, "connect", "test")
  /\ UNCHANGED <<sems, session, audio, asked>>

LoopStep ==
  \/ Received \/ NoData \/ LoopTest \/ NotFound \/ PlaylistParsed \/ PlaylistMore
  \/ Redirect \/ Redirected \/ Header \/ StreamFound \/ LengthRead \/ LengthError
  \/ LengthMissing \/ LengthDelay \/ Data \/ StoppedData \/ Dropped \/ NoDecoder
  \/ Undecoded \/ NextChunk \/ BadChunk \/ Reconnect

-----------------------------------------------------------------------------
(* After the loop *)

\* The session ended with data, or played nothing and was to be played once.
NothingToDo ==
  /\ pc[Client] = "after"
  /\ bytes = "some" \/ (once /\ ~playing)
  /\ Go(Client, "end")
  /\ UNCHANGED <<back, sems, session, audio, asked>>

TryRestart ==
  /\ pc[Client] = "after" /\ bytes # "some" /\ playing /\ ~once
  /\ Call(Client, "stop", "restart")
  /\ UNCHANGED <<sems, session, audio, asked>>

Restart ==
  /\ pc[Client] = "restart"
  /\ Call(Client, "connect", "restarted")
  /\ UNCHANGED <<sems, session, audio, asked>>

Restarted ==
  /\ pc[Client] = "restarted"
  /\ playing' = TRUE
  /\ Go(Client, "end")
  /\ UNCHANGED <<back, sems, cstatus, once, conn, audio, asked>>

NothingReceived ==
  /\ pc[Client] = "after" /\ bytes # "some" /\ ~playing /\ ~once
  /\ Call(Client, "stop", "end")
  /\ UNCHANGED <<sems, session, audio, asked>>

\* What is played once is heard to its end; how long that takes is Player's.
Drain ==
  /\ pc[Client] = "after" /\ bytes # "some" /\ once
  /\ playing' = TRUE
  /\ Go(Client, IF playing THEN "drain" ELSE "drain unheard")
  /\ UNCHANGED <<back, sems, cstatus, once, conn, audio, asked>>

Drained ==
  /\ pc[Client] \in {"drain", "drain unheard"}
  /\ playing' = (pc[Client] = "drain")
  /\ Call(Client, "stop", "end")
  /\ UNCHANGED <<sems, cstatus, once, conn, audio, asked>>

\* `playing' when the session is over.
PlayingAfter_m == playing
PlayingAfter == FALSE

End ==
  /\ pc[Client] = "end"
  /\ playing' = PlayingAfter
  /\ Go(Client, "clear")
  /\ UNCHANGED <<back, sems, cstatus, once, conn, audio, asked>>

\* clearAll, then the stream a playlist or an answer "moved" leads to.
ClearAll ==
  /\ pc[Client] = "clear"
  /\ IF cstatus = "playlist" THEN Call(Client, "connect", "top")
                             ELSE Go(Client, "top") /\ UNCHANGED back
  /\ UNCHANGED <<sems, session, audio, asked>>

AfterStep ==
  \/ NothingToDo \/ TryRestart \/ Restart \/ Restarted \/ NothingReceived \/ Drain
  \/ End \/ ClearAll

ClientStep ==
  \/ NoSession \/ TakeConnect \/ DropDisconnect \/ NoSocket \/ ConnectionError
  \/ Connected \/ Request \/ LoopStep \/ AfterStep
  \/ CallStep(Client)

Next == \/ ClientStep \/ Drained \/ ServerCloses
        \/ \E u \in User : Ask(u) \/ UserStep(u)

Spec == Init /\ [][Next]_vars

\* A ready task runs, a read ends after 6 s at the latest (SO_RCVTIMEO), and a
\* name is resolved or not.  Nobody has to ask for anything, no server has to
\* close, and nothing is assumed of the wait for what is played once.
FairSpec == Spec /\ WF_vars(ClientStep) /\ \A u \in User : WF_vars(UserStep(u))

-----------------------------------------------------------------------------
CallPc   == {"stop", "stop give", "stop i2s", "stop merus", "connect",
             "connect once", "resolve", "disconnect", "wait", "give back"}
UserPc   == {"idle", "set", "merus on", "i2s on", "instant", "set once"}
ClientPc == Loop \cup {"top", "idle", "drop", "socket", "request", "reconnect",
                       "after", "restart", "restarted", "drain",
                       "drain unheard", "end", "clear"}
Pc       == CallPc \cup UserPc \cup ClientPc

\* Where task t may be, and where it may go on after a call.
BackOf(t) == IF t = Client THEN ClientPc ELSE UserPc
PcOf(t)   == CallPc \cup BackOf(t)

\* Every task is where its code has a step, and returns to a place of its own
\* code from the functions they share; counts and flags keep their ranges.
TypeOK ==
  /\ pc \in [Task -> Pc] /\ \A t \in Task : pc[t] \in PcOf(t)
  /\ back \in [Task -> Pc] /\ \A t \in Task : back[t] \in BackOf(t)
  /\ sConnect \in BOOLEAN /\ sConnected \in BOOLEAN /\ sDisconnect \in BOOLEAN
  /\ cstatus \in {"header", "header1", "playlist", "playlist1", "data"}
  /\ once \in BOOLEAN /\ playing \in BOOLEAN
  /\ bytes \in {"some", "none", "error"}
  /\ cnterror \in 0..MaxError
  /\ tail \in BOOLEAN /\ chunked \in BOOLEAN /\ closed \in BOOLEAN
  /\ running \in BOOLEAN /\ on \subseteq {"merus", "i2s"}
  /\ asked \in BOOLEAN

\* A stop ends the session it was given in, never a later one: what is left of
\* it in sDisconnect when the next session begins has no effect there, although
\* the code gives sDisconnect far more often than it takes it (every stop with
\* no session, every restart, every redirection).
NoStaleStop ==
  [][pc[Client] = "test" /\ sDisconnect /\ ~sDisconnect' => asked]_vars

\* webclient_get_state() tells the truth between two sessions: whatever way a
\* session ended, nothing counts as playing.
PlayingTells == pc[Client] \in {"top", "idle"} => ~playing

\* The webclient is among the chunks of a packet, or stops the radio there.
InChunks ==
  \/ pc[Client] \in {"first length", "first delay", "length", "delay",
                     "chunk"}
  \/ pc[Client] \in CallPc /\ back[Client] = "chunk"

\* A stop given while the webclient receives ends the session, unless that is
\* played once, or the webclient waits for the length of the next chunk for
\* ever.  (What ended may begin again: a restart does not look at the stop.)
StopEndsSession ==
  []<>~InChunks =>
    (pc[Client] \in Loop /\ sDisconnect
       ~> pc[Client] \in {"idle", "drain", "drain unheard"})
=============================================================================
