--------------------------- MODULE IcyMetaProofs ---------------------------
(***************************************************************************)
(* Proofs about IcyMeta, for every icy-metaint, every length of a block and *)
(* every size of a packet.                                                  *)
(***************************************************************************)
EXTENDS IcyMeta, TLAPS

\* Inside a packet the code has split off all but the last `packet' = clen bytes.
InPacket ==
  Sound =>
    /\ pc = "first" /\ metaint # 0 /\ rest = 0 =>
         due = [meta |-> 0, audio |-> metad] /\ metad >= 0
    /\ pc = "first" /\ metaint # 0 /\ rest < 0 =>
         due = [meta |-> -rest, audio |-> metaint] /\ clen = 0 /\ metad = metaint
    /\ pc = "first" => rest <= 0
    /\ pc = "again" => due = [meta |-> 0, audio |-> metaint]
    /\ metaint = 0 => due.meta = 0 /\ rest = 0

\* In the loop, the rest of the packet follows a whole block.
InLoop == pc = "again" => metaint # 0 /\ metad = metaint /\ rest = clen

\* The missing part of a title and the part that was kept make the block.
TitleWhole == Sound /\ rest < 0 => metadata - rest = block /\ metad = metaint

\* Where the stream is: all but the bytes that are written over.
Numbers ==
  /\ pc \in {"off", "recv", "first", "again"}
  /\ metaint \in Nat /\ metad \in Int /\ rest \in Int /\ metadata \in Nat
  /\ clen \in Nat /\ due \in [meta : Int, audio : Int]
  /\ block \in Nat /\ packet \in Int
  /\ began \in Int /\ mistaken \subseteq {"audio", "length", "title"}

Place == /\ Numbers /\ InStep
         /\ Sound => mistaken = {}
         /\ InPacket /\ InLoop /\ TitleWhole
         /\ packet = clen
         /\ pc \in {"off", "recv"} => clen = 0

\* The bytes written over lie just behind a block, and the next byte of length
\* is not one of them.
Zeros ==
  /\ zeroed \subseteq {0, 1} /\ marred \subseteq Int
  /\ pc \in {"off", "recv"} => zeroed = {}
  /\ pc = "first" /\ zeroed # {} => zeroed = {0} /\ metad = metaint /\ rest = 0
  /\ Sound /\ metaint = 0 => zeroed = {}
  /\ Sound => marred \subseteq (IF metaint = 0 THEN {} ELSE {0, 1})

Inv == Place /\ Zeros

LEMMA InitInv == Init => Inv
BY DEF Init, Inv, Place, Numbers, Zeros, Sound, InStep, InPacket, InLoop, TitleWhole

\* In a sound stream, the length byte is read as it was sent.
LEMMA LengthRead ==
  ASSUME Place, Zeros, NEW l \in Nat, Block(l)
  PROVE  Read(l) \in Nat /\ (Sound => Read(l) = l)
<1>1. Read(l) \in {0, l}
  BY DEF Read
<1>2. Sound => metad \notin zeroed
  BY DEF Place, Numbers, Zeros, InLoop, Block, Sound
<1> QED  BY <1>1, <1>2 DEF Read

\* Of the audio given to the decoder in a sound stream, only the first two bytes
\* behind a block are written over.
LEMMA MarsNear ==
  ASSUME Place, Zeros, NEW k \in Int, pc \in {"first", "again"}
  PROVE  Mars(k) \subseteq Int
         /\ (Sound => Mars(k) \subseteq (IF metaint = 0 THEN {} ELSE {0, 1}))
<1>1. Mars(k) \subseteq Int
  BY DEF Mars, Place, Numbers, Zeros
<1>2. CASE zeroed = {}
  BY <1>1, <1>2 DEF Mars
<1>3. CASE Sound /\ zeroed # {}
  <2>1. metaint # 0 /\ due.audio = metaint /\ metaint \in Int
    <3>1. metaint # 0 /\ metaint \in Int
      <4>1. Sound /\ metaint = 0 => zeroed = {}
        BY DEF Zeros
      <4>2. metaint \in Nat
        BY DEF Place, Numbers
      <4> QED  BY <1>3, <4>1, <4>2
    <3>2. CASE pc = "first"
      <4>1. rest = 0 /\ metad = metaint
        BY <1>3, <3>2 DEF Zeros
      <4> QED  BY <1>3, <3>1, <3>2, <4>1 DEF Place, InPacket
    <3>3. CASE pc = "again"
      BY <1>3, <3>1, <3>3 DEF Place, InPacket
    <3> QED  BY <3>2, <3>3
  <2>2. metaint - due.audio = 0
    BY <2>1
  <2>3. Mars(k) \subseteq {0 + o : o \in zeroed}
    BY <2>2 DEF Mars
  <2>4. {0 + o : o \in zeroed} \subseteq {0, 1}
    BY DEF Zeros
  <2>5. Mars(k) \subseteq {0, 1}
    BY <2>3, <2>4
  <2> QED  BY <1>1, <2>1, <2>5
<1> QED  BY <1>1, <1>2, <1>3

\* What a call of audio_stream_consumer does to the histories.
LEMMA GaveAudio ==
  ASSUME Numbers, NEW k \in Nat, GiveAudio(k)
  PROVE  /\ due' \in [meta : Int, audio : Int]
         /\ due'.meta = due.meta
         /\ metaint # 0 => due'.audio = due.audio - k
         /\ packet' = packet - k /\ packet' \in Int
         /\ mistaken' \subseteq {"audio", "length", "title"}
         /\ IsAudio(k) => mistaken' = mistaken
BY DEF GiveAudio, Numbers

\* The place in the stream is kept, step by step.
LEMMA StepPlace == Inv /\ [Next]_vars => Place'
<1> SUFFICES ASSUME Place, Zeros, [Next]_vars PROVE Place'
  BY DEF Inv
<1> USE MetaAssumption DEF Place, Numbers, InStep, InPacket, InLoop, TitleWhole, Sound
<1>1. ASSUME NEW m \in MetaInt, Header(m)
      PROVE  Place'
  <2>1. m \in Nat
    OBVIOUS
  <2> QED  BY <1>1, <2>1 DEF Header
<1>2. ASSUME NEW n \in 0..MaxPacket, MissingMetadata(n)
      PROVE  Place'
  <2>1. n \in Nat /\ due.meta \in Int /\ due.audio \in Int
    OBVIOUS
  <2>2. CASE n >= -rest
    BY <1>2, <2>1, <2>2 DEF MissingMetadata
  <2>3. CASE n < -rest
    BY <1>2, <2>1, <2>3 DEF MissingMetadata
  <2> QED  BY <2>1, <2>2, <2>3
<1>3. ASSUME NEW n \in 0..MaxPacket, Packet(n)
      PROVE  Place'
  BY <1>3 DEF Packet
<1>4. ASSUME NEW l \in MetaLen, Block(l)
      PROVE  Place'
  <2>1. /\ l \in Nat /\ metaint \in Nat /\ metad \in Int /\ clen \in Nat
        /\ due.meta \in Int /\ due.audio \in Int /\ clen > metad /\ metaint # 0
    BY <1>4 DEF Block
  <2>0. Read(l) \in Nat /\ (Sound => Read(l) = l)
    BY <1>4, <2>1, LengthRead
  <2>2. /\ Got(Read(l)) \in Nat /\ Got(Read(l)) <= Read(l) /\ RestAfter(Read(l)) \in Int
        /\ RestAfter(Read(l)) < 0 => Got(Read(l)) - RestAfter(Read(l)) = Read(l)
        /\ RestAfter(Read(l)) < 0 => Got(Read(l)) = clen - metad - 1
        /\ RestAfter(Read(l)) >= 0 => Got(Read(l)) = Read(l)
    BY <2>0, <2>1 DEF Got, RestAfter
  <2>3. Numbers'
    BY <1>4, <2>0, <2>1, <2>2 DEF Block
  <2>4. Sound => mistaken' = mistaken
    BY <1>4 DEF Block
  <2>5. packet' = clen'
    BY <1>4, <2>0, <2>1, <2>2 DEF Block, RestAfter
  <2>6. Sound /\ RestAfter(Read(l)) < 0 => due' = [meta |-> -RestAfter(Read(l)), audio |-> metaint]
    BY <1>4, <2>0, <2>1, <2>2 DEF Block, RestAfter
  <2>7. Sound /\ RestAfter(Read(l)) >= 0 => due' = [meta |-> 0, audio |-> metaint]
    BY <1>4, <2>0, <2>1, <2>2 DEF Block
  <2>8. CASE RestAfter(Read(l)) < 0
    <3>1. Read(l) # 0
      BY <2>0, <2>1, <2>8 DEF RestAfter
    <3>2. /\ pc' = "recv" /\ clen' = 0 /\ rest' = RestAfter(Read(l)) /\ metad' = metaint
          /\ metadata' = Got(Read(l)) /\ block' = l /\ began' = began /\ metaint' = metaint
      BY <1>4, <2>8, <3>1 DEF Block
    <3>3. Sound => -rest' = -RestAfter(Read(l)) /\ metadata' - rest' = block'
      BY <2>0, <2>1, <2>2, <2>8, <3>2
    <3>4. InStep' /\ TitleWhole'
      BY <2>0, <2>1, <2>2, <2>5, <2>6, <2>8, <3>2, <3>3
    <3>5. InPacket' /\ InLoop' /\ (Sound' => mistaken' = {})
      BY <2>1, <2>4, <2>5, <2>8, <3>2
    <3> QED  BY <2>3, <2>5, <3>2, <3>4, <3>5, <1>4 DEF Block
  <2>9. CASE RestAfter(Read(l)) >= 0
    BY <1>4, <2>0, <2>1, <2>2, <2>3, <2>4, <2>5, <2>7, <2>9 DEF Block
  <2> QED  BY <2>2, <2>8, <2>9
<1>5. CASE AfterBlocks
  <2>1. rest \in Nat /\ rest <= metad
    BY <1>5 DEF AfterBlocks
  <2>2. GiveAudio(rest)
    BY <1>5 DEF AfterBlocks
  <2>3. Sound => IsAudio(rest)
    BY <1>5, <2>1 DEF AfterBlocks, IsAudio
  <2>4. Sound => due' = [meta |-> 0, audio |-> metaint - rest]
    BY <1>5, <2>1, <2>2 DEF AfterBlocks, GiveAudio
  <2>5. /\ pc' = "recv" /\ clen' = 0 /\ rest' = 0 /\ metad' = metaint - rest
        /\ metadata' = metadata /\ block' = block /\ began' = began
        /\ metaint' = metaint
    BY <1>5 DEF AfterBlocks, UntilNext
  <2>6. /\ Numbers' /\ packet' = packet - rest /\ packet' = 0
        /\ IsAudio(rest) => mistaken' = mistaken
    <3>1. packet = rest
      BY <1>5 DEF AfterBlocks
    <3> QED  BY <2>1, <2>2, <2>5, <3>1, GaveAudio
  <2>7. InStep' /\ InPacket' /\ (Sound' => mistaken' = {})
    BY <1>5, <2>1, <2>3, <2>4, <2>5, <2>6 DEF AfterBlocks
  <2> QED  BY <2>5, <2>6, <2>7
<1>6. CASE AllAudio
  <2>1. CASE clen > 0
    <3>1. GiveAudio(clen)
      BY <1>6, <2>1 DEF AllAudio
    <3>2. Sound => IsAudio(clen)
      BY <1>6, <2>1 DEF AllAudio, IsAudio
    <3>3. Sound /\ metaint # 0 => due' = [meta |-> 0, audio |-> metad - clen] /\ rest = 0
      BY <1>6, <2>1, <3>1 DEF AllAudio, GiveAudio
    <3>4. metad' = (IF metaint # 0 THEN metad - clen ELSE metad) /\ pc' = "recv"
          /\ clen' = 0 /\ rest' = rest /\ began' = began /\ metaint' = metaint
          /\ metadata' = metadata /\ block' = block
      BY <1>6 DEF AllAudio
    <3>5. Numbers'
      BY <3>1, <3>4, GaveAudio
    <3> QED  BY <1>6, <2>1, <3>1, <3>2, <3>3, <3>4, <3>5, GaveAudio DEF AllAudio
  <2>2. CASE clen = 0
    <3>1. /\ metad' = IF metaint # 0 THEN metad - clen ELSE metad
          /\ clen' = clen /\ pc' = "recv"
          /\ UNCHANGED <<metaint, rest, metadata, block, began, due, packet, mistaken>>
          /\ pc = "first"
      BY <1>6, <2>2 DEF AllAudio
    <3>2. metad' = metad
      BY <2>2, <3>1
    <3> QED  BY <2>2, <3>1, <3>2
  <2> QED  BY <2>1, <2>2
<1>7. CASE End
  BY <1>7 DEF End
<1>8. CASE UNCHANGED vars
  BY <1>8 DEF vars
<1> QED  BY <1>1, <1>2, <1>3, <1>4, <1>5, <1>6, <1>7, <1>8 DEF Next

\* No byte of length is written over, step by step, and of the audio two bytes at
\* the most.
LEMMA StepZeros == Inv /\ [Next]_vars => Zeros'
<1> SUFFICES ASSUME Place, Zeros, [Next]_vars PROVE Zeros'
  BY DEF Inv
<1> USE MetaAssumption DEF Zeros, Sound
<1>1. ASSUME NEW m \in MetaInt, Header(m)
      PROVE  Zeros'
  BY <1>1 DEF Header
<1>2. ASSUME NEW n \in 0..MaxPacket, MissingMetadata(n)
      PROVE  Zeros'
  <2>1. Sound => metaint # 0
    BY <1>2 DEF MissingMetadata, Place, Numbers, InPacket
  <2>2. n > -rest => metad' = metaint /\ rest' = 0
    BY <1>2 DEF MissingMetadata, Place, Numbers
  <2> QED  BY <1>2, <2>1, <2>2 DEF MissingMetadata
<1>3. ASSUME NEW n \in 0..MaxPacket, Packet(n)
      PROVE  Zeros'
  BY <1>3 DEF Packet
<1>4. ASSUME NEW l \in MetaLen, Block(l)
      PROVE  Zeros'
  <2>1. metad \in Int /\ pc \in {"first", "again"} /\ metaint # 0
    BY <1>4 DEF Block, Place, Numbers
  <2>2. zeroed' \subseteq {0, 1} /\ rest' \in Int /\ (rest' <= 0 => zeroed' = {})
    <3>1. PICK over \in Overwritten(Read(l)) : zeroed' = {o \in over : o < rest'}
      BY <1>4 DEF Block
    <3>2. over \subseteq {0, 1}
      BY DEF Overwritten
    <3>3. l \in Nat /\ rest' \in Int
      BY <1>4, LengthRead DEF Block, RestAfter, Place, Numbers
    <3>4. \A o \in zeroed' : o \in {0, 1} /\ o < rest'
      BY <3>1, <3>2
    <3> QED  BY <3>3, <3>4
  <2>3. pc' = "recv" => rest' < 0
    <3>1. pc' = IF rest' < 0 THEN "recv" ELSE "again"
      BY <1>4 DEF Block
    <3> QED  BY <3>1
  <2>4. pc' \in {"recv", "again"}
    BY <1>4 DEF Block
  <2>5. /\ marred' = marred \cup Mars(metad) /\ metaint' = metaint /\ began' = began
    BY <1>4 DEF Block
  <2>6. Mars(metad) \subseteq Int /\ (Sound => Mars(metad) \subseteq {0, 1})
    BY <2>1, MarsNear
  <2>7. marred' \subseteq Int /\ (Sound' => marred' \subseteq {0, 1})
    BY <2>1, <2>5, <2>6
  <2> QED  BY <2>1, <2>2, <2>3, <2>4, <2>5, <2>7
<1>5. CASE AfterBlocks
  BY <1>5, MarsNear DEF AfterBlocks, GiveAudio, Place, Numbers
<1>6. CASE AllAudio
  BY <1>6, MarsNear DEF AllAudio, GiveAudio, Place, Numbers
<1>7. CASE End
  BY <1>7 DEF End
<1>8. CASE UNCHANGED vars
  BY <1>8 DEF vars
<1> QED  BY <1>1, <1>2, <1>3, <1>4, <1>5, <1>6, <1>7, <1>8 DEF Next

LEMMA Invariance == Spec => []Inv
<1>1. Inv /\ [Next]_vars => Inv'
  BY StepPlace, StepZeros DEF Inv
<1> QED  BY <1>1, InitInv, PTL DEF Spec

LEMMA Consequences == Inv => TypeOK /\ InStep /\ RightBytes
BY DEF Inv, Place, Numbers, Zeros, TypeOK, RightBytes

\* Every state is well typed.
THEOREM Typing == Spec => []TypeOK
BY Invariance, Consequences, PTL

\* Between two packets of a sound stream, metad and rest are its real position,
\* wherever the packets cut it (webclient.c:1180-1304).
THEOREM StaysInStep == Spec => []InStep
BY Invariance, Consequences, PTL

\* In every sound stream no metadata byte reaches the decoder, no audio byte a
\* title, no title is copied in part, and of the audio only the first two bytes
\* behind a block are written over before the decoder has them.
THEOREM BytesGoRight == Spec => []RightBytes
BY Invariance, Consequences, PTL
=============================================================================
