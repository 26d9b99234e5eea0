------------------------------- MODULE Player -------------------------------
(***************************************************************************)
(* The audio player: components/audio_player, the byte FIFO in front of the *)
(* decoders (components/fifo, a FreeRTOS stream buffer), and the decoder    *)
(* tasks of mp3_decoder.c, fdk_aac_decoder.c and VS1053_task of vs1053.c.   *)
(*                                                                          *)
(* The webclient task starts the player when a stream begins, writes the    *)
(* stream's bytes and creates a decoder task when enough of them wait; any  *)
(* task may call audio_player_stop; the decoder tasks run on the other core *)
(* and all of them share the fields of player_t without a lock.  One step is *)
(* one access to that shared state.                                         *)
(***************************************************************************)
EXTENDS Integers, FiniteSets

CONSTANTS Decoder,     \* slots for decoder tasks
          Stopper,     \* tasks, other than the webclient, that stop the player
          Kind,        \* the decoders the streams ask for: "mp3", "aac", "vs"
          Len,         \* spiRamFifoLen
          Trigger,     \* a sleeping reader is woken when so many bytes wait
          Threshold,   \* a decoder is started when spiRamFifoFill exceeds it
          Chunk        \* sizes of the pieces audio_stream_consumer is given

ASSUME FifoAssumption ==
  /\ Len \in Nat /\ Trigger \in Nat /\ Threshold \in Nat
  /\ 0 < Trigger /\ Trigger < Len /\ Threshold < Len
  /\ Chunk \subseteq Nat \ {0}
ASSUME TaskAssumption ==
  /\ Kind = {"vs"} \/ Kind \subseteq {"mp3", "aac"}
  /\ Decoder \cap Stopper = {} /\ "webclient" \notin Decoder \cup Stopper

\* A name that ends in _m is a mutated form of the definition that follows it.

Client == "webclient"
Task   == Decoder \cup Stopper \cup {Client}

VARIABLES
  pc,               \* where every task is; "none" in a free decoder slot
  back,             \* where a task goes on after audio_player_stop
  kind,             \* the code a decoder task runs
  content,          \* media_stream->content_type of the stream
  command, decoder_command, decoder_status, eof,  \* fields of *player
  player_status,
  held,             \* bytes in the FIFO
  sDisconnect       \* the semaphore that asks webclient_task to end the session

flags == <<command, decoder_command, decoder_status, eof, player_status>>
vars  == <<pc, back, kind, content, command, decoder_command, decoder_status,
           eof, player_status, held, sDisconnect>>

Go(t, l) == pc' = [pc EXCEPT ![t] = l]

\* Where a decoder task still works, and where it may read the FIFO.
Reading(d) == pc[d] \in {"input", "read", "asleep", "woken", "test", "decode"}
InStop(t)  == pc[t] \in {"stop", "stop command", "stop eof", "stop none",
                         "stop status", "stop wake"}
Running(d) == Reading(d) \/ (d \in Decoder /\ InStop(d))

-----------------------------------------------------------------------------
(* The FIFO.  A stream buffer of Len bytes holds Len - 1 at most. *)

Spaces == Len - 1 - held

\* spiRamFifoFill subtracts the free space from the whole size.
Fill == Len - Spaces

\* The bytes of n that a write with no timeout stores.
Stored_m(n) == n
Stored(n) == IF n <= Spaces THEN n ELSE Spaces

Sleepers == {d \in Decoder : pc[d] = "asleep"}

\* The size of the write that ends audio_player_stop: the trigger level.
Wake_m == Trigger - 1
Wake == Trigger

\* A write of n bytes by task t, which then goes on at l; a reader asleep is
\* woken when the trigger level is reached.
Write(t, n, l) ==
  /\ held' = held + Stored(n)
  /\ pc' = [u \in Task |-> CASE u = t -> l
                             [] u \in Sleepers /\ held' >= Trigger -> "woken"
                             [] OTHER -> pc[u]]

\* A reset has no effect while a reader is asleep on the buffer.
Emptied == IF Sleepers = {} THEN 0 ELSE held

-----------------------------------------------------------------------------
Rest(t) == IF t \in Decoder THEN "input" ELSE "idle"

Init ==
  /\ pc = [t \in Task |-> IF t \in Decoder THEN "none" ELSE "idle"]
  /\ back = [t \in Task |-> Rest(t)]
  /\ kind = [d \in Decoder |-> "none"]
  /\ content \in Kind
  /\ command = "none" /\ decoder_command = "none"
  /\ decoder_status = "uninitialized" /\ eof = FALSE
  /\ player_status = "initialized"
  /\ held = 0 /\ sDisconnect = FALSE

-----------------------------------------------------------------------------
(* audio_player_stop, called by task t *)

StopDecoderCommand(t) ==
  /\ pc[t] = "stop"
  /\ decoder_command' = "stop"
  /\ Go(t, "stop command")
  /\ UNCHANGED <<back, kind, content, command, decoder_status, eof,
                 player_status, held, sDisconnect>>

StopCommand(t) ==
  /\ pc[t] = "stop command"
  /\ command' = "stop"
  /\ Go(t, "stop eof")
  /\ UNCHANGED <<back, kind, content, decoder_command, decoder_status, eof,
                 player_status, held, sDisconnect>>

StopEof(t) ==
  /\ pc[t] = "stop eof"
  /\ eof' = TRUE
  /\ Go(t, "stop none")
  /\ UNCHANGED <<back, kind, content, command, decoder_command, decoder_status,
                 player_status, held, sDisconnect>>

StopNone(t) ==
  /\ pc[t] = "stop none"
  /\ command' = "none"
  /\ Go(t, "stop status")
  /\ UNCHANGED <<back, kind, content, decoder_command, decoder_status, eof,
                 player_status, held, sDisconnect>>

StopStatus(t) ==
  /\ pc[t] = "stop status"
  /\ player_status' = "stopped"
  /\ Go(t, "stop wake")
  /\ UNCHANGED <<back, kind, content, command, decoder_command, decoder_status,
                 eof, held, sDisconnect>>

StopWake(t) ==
  /\ pc[t] = "stop wake"
  /\ Write(t, Wake, back[t])
  /\ back' = [back EXCEPT ![t] = Rest(t)]
  /\ UNCHANGED <<kind, content, flags, sDisconnect>>

StopStep(t) == \/ StopDecoderCommand(t) \/ StopCommand(t) \/ StopEof(t)
               \/ StopNone(t) \/ StopStatus(t) \/ StopWake(t)

\* A caller that asks get_player_status() first, and then goes on at l.
StopUnlessStopped(t, l) ==
  /\ Go(t, IF player_status = "stopped" THEN l ELSE "stop")
  /\ back' = [back EXCEPT ![t] = l]

\* action_webstation_stop: the webclient is told first.
UserStop(s) ==
  /\ pc[s] = "idle"
  /\ sDisconnect' = TRUE
  /\ Go(s, "asked")
  /\ UNCHANGED <<back, kind, content, flags, held>>

UserStopPlayer(s) ==
  /\ pc[s] = "asked"
  /\ StopUnlessStopped(s, "idle")
  /\ UNCHANGED <<kind, content, flags, held, sDisconnect>>

-----------------------------------------------------------------------------
(* The webclient task: audio_player_start when the header of a stream has    *)
(* been read, audio_stream_consumer for every piece of it, and what          *)
(* webclient_task does with the player when the session ends.                *)

Connect ==
  /\ pc[Client] = "idle"
  /\ sDisconnect' = FALSE
  /\ Go(Client, "header")
  /\ UNCHANGED <<back, kind, content, flags, held>>

BeginStream ==
  /\ pc[Client] = "header"
  /\ content' \in Kind
  /\ Go(Client, "start")
  /\ UNCHANGED <<back, kind, flags, held, sDisconnect>>

StartEof ==
  /\ pc[Client] = "start"
  /\ eof' = FALSE
  /\ Go(Client, "start command")
  /\ UNCHANGED <<back, kind, content, command, decoder_command, decoder_status,
                 player_status, held, sDisconnect>>

StartCommand ==
  /\ pc[Client] = "start command"
  /\ command' = "start"
  /\ Go(Client, "start none")
  /\ UNCHANGED <<back, kind, content, decoder_command, decoder_status, eof,
                 player_status, held, sDisconnect>>

StartDecoderCommand ==
  /\ pc[Client] = "start none"
  /\ decoder_command' = "none"
  /\ Go(Client, "start status")
  /\ UNCHANGED <<back, kind, content, command, decoder_status, eof,
                 player_status, held, sDisconnect>>

StartStatus ==
  /\ pc[Client] = "start status"
  /\ player_status' = "running"
  /\ Go(Client, "data")
  /\ UNCHANGED <<back, kind, content, command, decoder_command, decoder_status,
                 eof, held, sDisconnect>>

\* The test that opens audio_stream_consumer.
ConsumerTest ==
  /\ pc[Client] = "data"
  /\ Go(Client, IF command = "stop" THEN "silent disconnect" ELSE "write")
  /\ UNCHANGED <<back, kind, content, flags, held, sDisconnect>>

SilentDisconnect ==
  /\ pc[Client] = "silent disconnect"
  /\ sDisconnect' = TRUE
  /\ StopUnlessStopped(Client, "data")
  /\ UNCHANGED <<kind, content, flags, held>>

ConsumerWrite ==
  /\ pc[Client] = "write"
  /\ \E n \in Chunk : Write(Client, n, "written")
  /\ UNCHANGED <<back, kind, content, flags, sDisconnect>>

NeedsDecoder_m == TRUE
NeedsDecoder == decoder_status # "running"

DecoderTest ==
  /\ pc[Client] = "written"
  /\ Go(Client, IF NeedsDecoder THEN "level" ELSE "data")
  /\ UNCHANGED <<back, kind, content, flags, held, sDisconnect>>

LevelTest ==
  /\ pc[Client] = "level"
  /\ Go(Client, IF Fill > Threshold THEN "create" ELSE "data")
  /\ UNCHANGED <<back, kind, content, flags, held, sDisconnect>>

\* start_decoder_task: a new task in a free slot ...
Create(d) ==
  /\ pc[Client] = "create" /\ pc[d] = "none"
  /\ kind' = [kind EXCEPT ![d] = content]
  /\ pc' = [pc EXCEPT ![Client] = "created",
                      ![d] = IF content = "aac" THEN "read" ELSE "input"]
  /\ UNCHANGED <<back, content, flags, held, sDisconnect>>

\* ... and decoder_status once xTaskCreatePinnedToCore has returned, ...
Created ==
  /\ pc[Client] = "created"
  /\ decoder_status' = "running"
  /\ Go(Client, "data")
  /\ UNCHANGED <<back, kind, content, command, decoder_command, eof,
                 player_status, held, sDisconnect>>

\* ... or no memory for it (or no decoder for the content type).
CreateFails ==
  /\ pc[Client] = "create"
  /\ held' = Emptied
  /\ sDisconnect' = TRUE
  /\ back' = [back EXCEPT ![Client] = "data"]
  /\ Go(Client, "stop")
  /\ UNCHANGED <<kind, content, flags>>

\* The receive loop of webclient_task ends because it was asked to, ...
EndAsked ==
  /\ pc[Client] = "data" /\ sDisconnect
  /\ sDisconnect' = FALSE
  /\ \/ StopUnlessStopped(Client, "end")          \* the stream was heard
     \/ Go(Client, "clear") /\ UNCHANGED back     \* not yet
  /\ UNCHANGED <<kind, content, flags, held>>

\* ... or for lack of data, of a stream that was heard or was not, ...
EndNoData ==
  /\ pc[Client] = "data"
  /\ sDisconnect' = TRUE
  /\ \E l \in {"end", "clear"} : StopUnlessStopped(Client, l)
  /\ UNCHANGED <<kind, content, flags, held>>

\* ... or of one to be played once, whose last bytes wait in the FIFO.
EndOnce ==
  /\ pc[Client] = "data"
  /\ Go(Client, "drain")
  /\ UNCHANGED <<back, kind, content, flags, held, sDisconnect>>

Drain ==
  /\ pc[Client] = "drain"
  /\ IF Fill # 0
       THEN Go(Client, "delay") /\ UNCHANGED <<back, sDisconnect>>
       ELSE StopUnlessStopped(Client, "end") /\ sDisconnect' = TRUE
  /\ UNCHANGED <<kind, content, flags, held>>

DrainDelay ==
  /\ pc[Client] = "delay"
  /\ Go(Client, "drain")
  /\ UNCHANGED <<back, kind, content, flags, held, sDisconnect>>

EndEof ==
  /\ pc[Client] = "end"
  /\ eof' = TRUE
  /\ Go(Client, "clear")
  /\ UNCHANGED <<back, kind, content, command, decoder_command, decoder_status,
                 player_status, held, sDisconnect>>

ClearAll ==
  /\ pc[Client] = "clear"
  /\ held' = Emptied
  /\ Go(Client, "idle")
  /\ UNCHANGED <<back, kind, content, flags, sDisconnect>>

ClientStep ==
  \/ BeginStream \/ StartEof \/ StartCommand \/ StartDecoderCommand \/ StartStatus
  \/ ConsumerTest \/ SilentDisconnect \/ ConsumerWrite \/ DecoderTest
  \/ LevelTest \/ (\E d \in Decoder : Create(d)) \/ Created \/ CreateFails
  \/ EndAsked \/ EndNoData \/ EndOnce \/ Drain \/ DrainDelay
  \/ EndEof \/ ClearAll \/ StopStep(Client)

-----------------------------------------------------------------------------
(* The decoder tasks *)

\* What a decoder of kind k does at its end after step l: mp3 empties the FIFO
\* first, vs last, aac never. 
After_m(k, l) == CASE l = "begin"  -> "status"
                        [] l = "status" -> "unset"
                        [] l = "unset"  -> IF k = "aac" THEN "none" ELSE "reset"
                        [] l = "reset"  -> "none"
After(k, l) == CASE l = "begin"  -> IF k = "mp3" THEN "reset" ELSE "status"
                 [] l = "status" -> "unset"
                 [] l = "unset"  -> IF k = "vs" THEN "reset" ELSE "none"
                 [] l = "reset"  -> IF k = "mp3" THEN "status" ELSE "none"

\* mp3 (when it finds the order while decoding) and aac leave command set.
Leave(d) == IF kind[d] = "aac" \/ pc[d] = "decode" THEN "abort"
                                                   ELSE After(kind[d], "begin")

GoOn(d) ==
  /\ Go(d, After(kind[d], pc[d]))
  /\ kind' = IF After(kind[d], pc[d]) = "none" THEN [kind EXCEPT ![d] = "none"]
                                               ELSE kind

\* The head of the loop: mp3 and vs look at decoder_command, aac at eof.
DecoderInput(d) ==
  /\ pc[d] = "input"
  /\ IF (IF kind[d] = "aac" THEN eof ELSE decoder_command = "stop")
       THEN Go(d, Leave(d)) /\ UNCHANGED back
       ELSE /\ back' = [back EXCEPT ![d] = IF kind[d] = "mp3" THEN "input" ELSE "test"]
            /\ Go(d, "read")
  /\ UNCHANGED <<kind, content, flags, held, sDisconnect>>

\* spiRamFifoRead for any number of bytes; input() of mp3 repeats it until it
\* has enough to decode.
Taken(d) ==
  /\ \E n \in 0..held : /\ (n = 0 => held = 0)
                        /\ held' = held - n
  /\ \E l \in IF kind[d] = "mp3" THEN {"input", "decode"} ELSE {back[d]} : Go(d, l)
  /\ back' = [back EXCEPT ![d] = "input"]

DecoderRead(d) ==
  /\ pc[d] = "read"
  /\ IF held = 0 THEN Go(d, "asleep") /\ UNCHANGED <<back, held, sDisconnect>> ELSE Taken(d)
  /\ UNCHANGED <<kind, content, flags, sDisconnect>>

DecoderWoken(d) ==
  /\ pc[d] = "woken"
  /\ Taken(d)
  /\ UNCHANGED <<kind, content, flags, sDisconnect>>

\* aac and vs look at decoder_command after a read, mp3 before each frame.
DecoderTestStop(d) ==
  /\ pc[d] \in {"test", "decode"}
  /\ Go(d, IF decoder_command = "stop" THEN Leave(d) ELSE "input")
  /\ UNCHANGED <<back, kind, content, flags, held, sDisconnect>>

\* A format it cannot render, or no memory: the renderer stops the player from
\* the task of the decoder.
RenderFails(d) ==
  /\ kind[d] \in {"mp3", "aac"}
  /\ pc[d] = IF kind[d] = "mp3" THEN "decode" ELSE "input"
  /\ IF kind[d] = "mp3" THEN decoder_command # "stop" ELSE ~eof
  /\ back' = [back EXCEPT ![d] = pc[d]]
  /\ Go(d, "stop")
  /\ UNCHANGED <<kind, content, flags, held, sDisconnect>>

DecoderAbort(d) ==
  /\ pc[d] = "abort"
  /\ command' = "stop"
  /\ Go(d, After(kind[d], "begin"))
  /\ UNCHANGED <<back, kind, content, decoder_command, decoder_status, eof,
                 player_status, held, sDisconnect>>

DecoderReset(d) ==
  /\ pc[d] = "reset"
  /\ held' = Emptied
  /\ GoOn(d)
  /\ UNCHANGED <<back, content, flags, sDisconnect>>

DecoderStopped(d) ==
  /\ pc[d] = "status"
  /\ decoder_status' = "stopped"
  /\ GoOn(d)
  /\ UNCHANGED <<back, content, command, decoder_command, eof,
                 player_status, held, sDisconnect>>

DecoderUnset(d) ==
  /\ pc[d] = "unset"
  /\ decoder_command' = "none"
  /\ GoOn(d)
  /\ UNCHANGED <<back, content, command, decoder_status, eof,
                 player_status, held, sDisconnect>>

DecoderStep(d) ==
  \/ DecoderInput(d) \/ DecoderRead(d) \/ DecoderWoken(d) \/ DecoderTestStop(d)
  \/ RenderFails(d) \/ DecoderAbort(d) \/ DecoderReset(d) \/ DecoderStopped(d)
  \/ DecoderUnset(d) \/ StopStep(d)

-----------------------------------------------------------------------------
Next == \/ Connect \/ ClientStep
        \/ \E d \in Decoder : DecoderStep(d)
        \/ \E s \in Stopper : UserStop(s) \/ UserStopPlayer(s) \/ StopStep(s)

Spec == Init /\ [][Next]_vars

\* FreeRTOS lets every ready task run, so a task goes on with what it has
\* begun; nobody has to begin a stream or to press stop.
Fairness == /\ WF_vars(ClientStep)
            /\ \A d \in Decoder : WF_vars(DecoderStep(d))
            /\ \A s \in Stopper : WF_vars(UserStopPlayer(s) \/ StopStep(s))

FairSpec == Spec /\ Fairness

-----------------------------------------------------------------------------
StopPc    == {"stop", "stop command", "stop eof", "stop none", "stop status",
              "stop wake"}
ClientPc  == {"idle", "header", "start", "start command", "start none",
              "start status", "data", "silent disconnect", "write", "written",
              "level", "create", "created", "end", "clear", "drain", "delay"}
DecoderPc == {"none", "input", "read", "asleep", "woken", "test", "decode",
              "abort", "reset", "status", "unset"}
StopperPc == {"idle", "asked"}
Pc        == StopPc \cup ClientPc \cup DecoderPc \cup StopperPc

\* Where task t may be, and where it may go on after a stop (or a read).
PcOf(t)   == StopPc \cup (CASE t = Client  -> ClientPc
                            [] t \in Decoder -> DecoderPc
                            [] t \in Stopper -> StopperPc)
BackOf(t) == CASE t = Client  -> {"idle", "data", "end", "clear"}
               [] t \in Decoder -> {"input", "decode", "test"}
               [] t \in Stopper -> {"idle"}

\* Every task is where its code has a step, and the player's fields keep to
\* their values; a stream buffer never holds more than Len - 1 bytes, whoever
\* writes it.
TypeOK ==
  /\ pc \in [Task -> Pc] /\ \A t \in Task : pc[t] \in PcOf(t)
  /\ back \in [Task -> Pc] /\ \A t \in Task : back[t] \in BackOf(t)
  /\ kind \in [Decoder -> Kind \cup {"none"}]
  /\ content \in Kind
  /\ command \in {"none", "start", "stop"}
  /\ decoder_command \in {"none", "stop"}
  /\ decoder_status \in {"uninitialized", "running", "stopped"}
  /\ eof \in BOOLEAN
  /\ player_status \in {"initialized", "running", "stopped"}
  /\ held \in 0..(Len - 1)
  /\ sDisconnect \in BOOLEAN

\* The FIFO has one reader at most (a second one blocking on a stream buffer
\* is an assertion failure in FreeRTOS), although nothing but decoder_status,
\* written by two tasks, keeps start_decoder_task from starting a second
\* decoder while the first still reads (audio_player.c:110, 86; the decoders
\* write STOPPED only when they no longer read).
SingleReader == \A d, e \in Decoder : Running(d) /\ Running(e) => d = e

\* The reset a software decoder ends with (mp3_decoder.c:197) comes before its
\* STOPPED, so it never throws away bytes another decoder is there to play.
CleanupSparesSuccessor ==
  [][\A d, e \in Decoder : pc[d] = "reset" /\ pc'[d] # "reset" /\ d # e
                              => pc[e] \in {"none", "unset"}]_vars

\* A stop that begins while the webclient is idle, and while no earlier decoder
\* is still ending, ends the decoder that runs, or a new stream begins: the 16
\* bytes audio_player_stop writes (audio_player.c:181) wake the reader, and it
\* finds decoder_command or eof set wherever it was.
StopWhileIdle ==
  \A s \in Stopper :
    /\ pc[s] = "stop command" /\ decoder_command = "stop" /\ pc[Client] = "idle"
    /\ \A d \in Decoder : pc[d] = "none" \/ Running(d)
    ~> pc[Client] # "idle" \/ \A d \in Decoder : ~Running(d)

-----------------------------------------------------------------------------
(* What a comment of the code says, and the code does not do *)

\* The wait for the last bytes of what is played once (webclient.c:1567) ends
\* when the decoder has read them.
DrainEnds == pc[Client] = "drain" ~> pc[Client] \notin {"drain", "delay"}
=============================================================================
