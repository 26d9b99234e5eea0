------------------------------- MODULE IcyMeta -------------------------------
(***************************************************************************)
(* The C_DATA part of clientReceiveCallback (main/webclient.c): it splits a *)
(* shoutcast stream, cut into packets anywhere, into audio and metadata.    *)
(*                                                                          *)
(* Such a stream is `metaint' audio bytes, one length byte, that many bytes *)
(* of metadata, and so on.  The code keeps its place in two static          *)
(* variables: `metad', the audio bytes until the next length byte, and      *)
(* `rest', minus the metadata bytes still missing.  The packets come from   *)
(* the chunk decoder, or from the socket when the stream is not chunked.    *)
(*                                                                          *)
(* What a byte really is is kept in the history variable `due'.  The code   *)
(* also ends the titles it copies with a zero, which may fall on bytes of   *)
(* the packet it has still to split: those are `zeroed'.                    *)
(***************************************************************************)
EXTENDS Integers

CONSTANTS MetaInt,   \* values of the icy-metaint header, 0 when it is absent
          MetaLen,   \* lengths of a metadata block (16 times the length byte)
          MaxPacket  \* RECEIVE: the longest packet

ASSUME MetaAssumption ==
  MetaInt \subseteq Nat /\ MetaLen \subseteq Nat /\ MaxPacket \in Nat

VARIABLES
  pc,         \* "off": no stream; "recv": between packets; else in a packet
  metaint,    \* header.members.single.metaint
  metad, rest, metadata,   \* the statics; of metadata, its length
  clen,       \* bytes of the packet the code has still to split
  due,        \* the stream: next `meta' bytes of metadata, then `audio' of audio
  block,      \* length of the stream's last metadata block
  packet,     \* bytes of the packet that are still to be used
  zeroed,     \* bytes of the packet, from the next one on, written over with 0
  began,      \* rest when this stream began
  mistaken,   \* what bytes of this stream were taken for, and are not
  marred      \* how far from the last block audio bytes were given as 0

vars == <<pc, metaint, metad, rest, metadata, clen, due, block, packet, zeroed,
          began, mistaken, marred>>

Init ==
  /\ pc = "off" /\ metaint = 0 /\ metad = 0 /\ rest = 0 /\ metadata = 0
  /\ clen = 0 /\ due = [meta |-> 0, audio |-> 0] /\ block = 0 /\ packet = 0
  /\ zeroed = {} /\ began = 0 /\ mistaken = {} /\ marred = {}

\* Of the next k bytes, given to the decoder, those that are 0 by now.
Mars(k) == {metaint - due.audio + o : o \in {z \in zeroed : z < k}}

\* audio_stream_consumer is given k bytes.
IsAudio(k) == due.meta = 0 /\ (metaint = 0 \/ k <= due.audio)
GiveAudio(k) ==
  /\ due' = IF metaint = 0 THEN due ELSE [due EXCEPT !.audio = @ - k]
  /\ packet' = packet - k
  /\ marred' = marred \cup Mars(k)
  /\ mistaken' = IF IsAudio(k) THEN mistaken ELSE mistaken \cup {"audio"}

\* A name that ends in _m is a mutated form of the definition that follows it.

\* Of a block of l bytes that starts after metad bytes: what the packet holds of
\* it, and the bytes left after it, negative when some are missing.
Got_m(l) == clen - metad - l - 1
Got(l) == IF clen - metad - 1 < l THEN clen - metad - 1 ELSE l
RestAfter_m(l) == clen - metad - l
RestAfter(l) == clen - metad - l - 1

\* What the code reads at metad, where the stream has a length byte worth l.
Read(l) == IF metad \in zeroed THEN 0 ELSE l

\* clientSaveMetadata reads on behind a title that no zero ends, and cuts there:
\* it writes over the second byte behind the block, or the first two.
Overwritten(l) == IF l = 0 THEN {{}} ELSE {{}, {1}, {0, 1}}

\* The audio bytes until the next length byte, `rest' bytes after a block.
UntilNext_m == metaint
UntilNext == metaint - rest

\* The header of a stream: clearHeaders, then what clientParseHeader finds.
Header(m) ==
  /\ pc = "off"
  /\ pc' = "recv"
  /\ metaint' = m
  /\ metad' = IF m > 0 THEN m ELSE -1
  /\ due' = [meta |-> 0, audio |-> m] /\ block' = 0
  /\ began' = rest /\ mistaken' = {} /\ marred' = {}
  /\ UNCHANGED <<rest, metadata, clen, packet, zeroed>>

\* A packet of n bytes begins with metadata that the last one did not end.  The
\* zero that ends it for strcat is written over the byte that follows it.
MissingMetadata(n) ==
  /\ pc = "recv" /\ rest < 0
  /\ pc' = "first"
  /\ zeroed' = IF n > -rest THEN {0} ELSE {}
  /\ IF n >= -rest
     THEN /\ metad' = metaint /\ clen' = n + rest /\ rest' = 0
          /\ metadata' = metadata - rest      \* strcat; clientSaveMetadata
          /\ due' = [due EXCEPT !.meta = @ + rest]
          /\ packet' = n + rest
          /\ mistaken' = IF due.meta = -rest /\ metadata' = block
                         THEN mistaken ELSE mistaken \cup {"title"}
     ELSE /\ rest' = rest + n /\ clen' = 0
          /\ metadata' = metadata + n
          /\ due' = [due EXCEPT !.meta = @ - n]
          /\ packet' = 0
          /\ mistaken' = IF n <= due.meta THEN mistaken
                         ELSE mistaken \cup {"title"}
          /\ UNCHANGED metad
  /\ UNCHANGED <<metaint, block, began, marred>>

Packet(n) ==
  /\ pc = "recv" /\ rest >= 0
  /\ pc' = "first" /\ clen' = n /\ packet' = n
  /\ UNCHANGED <<metaint, metad, rest, metadata, due, block, zeroed, began,
                 mistaken, marred>>

\* One turn of the loop: metad bytes of audio, a length byte worth l bytes, and
\* as much of the block as the packet holds.  Out of step, the code takes any
\* byte for a length byte.
Block(l) ==
  /\ pc \in {"first", "again"} /\ metaint # 0 /\ clen > metad
  /\ rest' = RestAfter(Read(l))
  /\ metadata' = IF Read(l) # 0 /\ rest' < 0 THEN Got(Read(l)) ELSE metadata
  /\ metad' = metaint
  /\ clen' = IF rest' < 0 THEN 0 ELSE rest'
  /\ pc' = IF rest' < 0 THEN "recv" ELSE "again"
  /\ due' = [meta |-> l - Got(Read(l)), audio |-> metaint]
  /\ block' = l
  /\ packet' = packet - metad - 1 - Got(Read(l))
  /\ marred' = marred \cup Mars(metad)
  /\ \E over \in Overwritten(Read(l)) : zeroed' = {o \in over : o < rest'}
  /\ mistaken' = IF due.meta = 0 /\ due.audio = metad
                  THEN mistaken ELSE mistaken \cup {"length"}
  /\ UNCHANGED <<metaint, began>>

\* The loop ended inside the packet: the bytes after the last block are audio.
AfterBlocks ==
  /\ pc = "again" /\ clen <= metad
  /\ metad' = UntilNext /\ rest' = 0 /\ clen' = 0
  /\ GiveAudio(rest)
  /\ pc' = "recv" /\ zeroed' = {}
  /\ UNCHANGED <<metaint, metadata, block, began>>

\* No length byte in the packet.
AllAudio ==
  /\ pc = "first" /\ (metaint = 0 \/ clen <= metad)
  /\ metad' = IF metaint # 0 THEN metad - clen ELSE metad
  /\ IF clen > 0 THEN GiveAudio(clen) ELSE UNCHANGED <<due, packet, mistaken, marred>>
  /\ clen' = 0
  /\ pc' = "recv" /\ zeroed' = {}
  /\ UNCHANGED <<metaint, rest, metadata, block, began>>

\* The stream ends anywhere: the server closes, or a stop is asked for.
End ==
  /\ pc = "recv" /\ pc' = "off"
  /\ UNCHANGED <<metaint, metad, rest, metadata, clen, due, block, packet, zeroed,
                 began, mistaken, marred>>

Next ==
  \/ \E m \in MetaInt : Header(m)
  \/ \E n \in 0..MaxPacket : MissingMetadata(n) \/ Packet(n)
  \/ \E l \in MetaLen : Block(l)
  \/ AfterBlocks \/ AllAudio \/ End

Spec == Init /\ [][Next]_vars

-----------------------------------------------------------------------------
(* Properties *)

TypeOK ==
  /\ pc \in {"off", "recv", "first", "again"}
  /\ metaint \in Nat /\ metad \in Int /\ rest \in Int /\ metadata \in Nat
  /\ clen \in Nat /\ due \in [meta : Int, audio : Int]
  /\ block \in Nat /\ packet \in Int
  /\ zeroed \subseteq {0, 1} /\ marred \subseteq Int
  /\ began \in Int /\ mistaken \subseteq {"audio", "length", "title"}

\* The streams the promises are about: they begin with no metadata pending, and
\* more than one byte of audio lies between two blocks.  (With one, the zero of
\* clientSaveMetadata may fall on the next length byte.)
Sound == began = 0 /\ metaint # 1

\* Between two packets the statics say where the stream really is, however it
\* was cut, and no byte of the last packet was left out.
InStep ==
  pc = "recv" =>
    /\ packet = 0
    /\ Sound /\ metaint # 0 =>
         /\ rest <= 0 /\ metad >= 0
         /\ rest = 0 => due = [meta |-> 0, audio |-> metad]
         /\ rest < 0 => due = [meta |-> -rest, audio |-> metaint]

\* In a sound stream every byte goes where it belongs, to the decoder or to the
\* title, which is copied whole.  Not every byte gets there as it was sent: the
\* zeros that end the titles spoil audio, but only the first two bytes behind a
\* block, and none in a stream without metadata.
RightBytes ==
  Sound => mistaken = {} /\ marred \subseteq (IF metaint = 0 THEN {} ELSE {0, 1})
=============================================================================
