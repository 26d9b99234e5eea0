----------------------------- MODULE AudioPath -----------------------------
(***************************************************************************)
(* The path of the sound: the port expander (esp_radio/ext_gpio.c), the      *)
(* amplifier (esp_radio/merus.c), the task that copies I2S samples           *)
(* (esp_radio/i2s_redirector.c) and the calls that play, stop and change     *)
(* the volume (esp_radio/action_manager.c).                                 *)
(*                                                                          *)
(* Any task may make such a call, at any moment, and nothing locks what the  *)
(* calls share.  A call is the sequence of the steps it takes: a read and a  *)
(* write of port_b, a write to the chip, an assignment.  Two tasks           *)
(* interleave between any two of them.  And the task of the display writes   *)
(* the same port_b, no less unlocked, when it wakes the display or puts it to *)
(* sleep: the calls themselves make it do so, by the messages they send it.  *)
(***************************************************************************)
EXTENDS Naturals, Sequences

CONSTANTS HttpCalls,    \* the calls that httpd makes
          OtherCalls,   \* those of the addon task, or of the webclient
          MaxCalls,     \* bound: calls made and updates of the display
          Overlap,      \* bound: the first so many may meet another call or update
          Meeting       \* bound: the calls that may meet another

Calls == {"web", "fm", "stop", "pause", "source", "volume", "power", "webstation_stop"}

ASSUME AudioPathAssumption ==
  /\ HttpCalls \subseteq Calls /\ OtherCalls \subseteq Calls
  /\ MaxCalls \in Nat /\ Overlap \in Nat /\ Meeting \subseteq Calls

\* A name that ends in _m is a mutated form of the definition that follows it.

Task == {"httpd", "other"}
\* Who writes port_b: those, and the task of the display (or whoever wakes it).
Writer == Task \cup {"lcd"}
CallsOf(t) == IF t = "httpd" THEN HttpCalls ELSE OtherCalls

\* The outputs of port B.  EN and MUTE are active when they are low.
EN == "merus_en"    MUTE == "merus_mute"   MERUS_CS == "merus_cs"
FM_CS == "fm_cs"    I2S_0 == "i2s_0"       I2S_1 == "i2s_1"        LCD == "lcd"
Pin == {EN, MUTE, MERUS_CS, FM_CS, I2S_0, I2S_1, LCD}

(***************************************************************************)
(* The Booleans: webstation_is_running, fmstation_is_running, is_sleeping,   *)
(* is_current_fm of app_state.c; is_running of the redirector; and what is    *)
(* really so: its task not suspended, its I2S channel enabled.              *)
(***************************************************************************)
Flag == {"web", "fm", "sleeping", "is_fm", "is_running", "task", "channel"}

VARIABLES
  port_b,     \* the pins that are high, as the program believes
  chip,       \* the pins that are high
  flag,
  reg,        \* per writer: port_b as it last read or wrote it
  prev,       \* per task: what i2s_redirector_stop returned
  prog,       \* per writer: the steps left of its call
  calls,      \* counter
  call, solo, \* history: the call, and whether it met no other, no refusal, and
              \* no update of the display that its own change of port_b overtook
  done,       \* history: the last call, if it was solo and all is quiet
  was         \* history: the radio as the solo call found it

vars == <<port_b, chip, flag, reg, prev, prog, calls, call, solo, done, was>>

-----------------------------------------------------------------------------
Do(what)        == <<[do |-> what]>>
Assign(v, bool) == <<[do |-> "assign", flag |-> v, to |-> bool]>>
Update(set, clear) == Do("load") \o <<[do |-> "store", set |-> set, clear |-> clear]>>

\* SET_BIT or CLEAR_BIT, then mcp23017_write_io
Drive(pin, high) ==
  Update(IF high THEN {pin} ELSE {}, IF high THEN {} ELSE {pin}) \o Do("write")

ext_gpio_set_merus_chip_select(enable) == Drive(MERUS_CS, enable)
ext_gpio_set_fm_chip_select(enable)    == Drive(FM_CS, enable)
ext_gpio_set_merus_en(enable)          == Drive(EN, ~enable)
ext_gpio_set_merus_mute(enable)        == Drive(MUTE, ~enable)
ext_gpio_set_lcd_m(enable)             == Drive("button_play", enable)
ext_gpio_set_lcd(enable)               == Drive(LCD, enable)
ext_gpio_set_i2s(pin) ==
  Update({}, {I2S_0, I2S_1}) \o Update({pin}, {}) \o Do("write")

i2s_redirector_start ==
  Assign("channel", TRUE) \o Assign("task", TRUE) \o Assign("is_running", TRUE)
StopRunning_m == Assign("task", FALSE) \o Assign("channel", FALSE)
StopRunning ==
  Assign("task", FALSE) \o Assign("channel", FALSE) \o Assign("is_running", FALSE)

\* The registers of the amplifier are written with the redirector stopped.
Paused_m(talk) == talk
Paused(talk) == Do("redirector_stop") \o talk \o Do("redirector_restore")

merus_init ==
  ext_gpio_set_merus_chip_select(TRUE) \o ext_gpio_set_merus_mute(TRUE)
    \o ext_gpio_set_merus_en(TRUE) \o Paused(Do("merus"))
    \o ext_gpio_set_merus_mute(FALSE) \o ext_gpio_set_merus_chip_select(FALSE)
merus_deinit ==
  ext_gpio_set_merus_chip_select(FALSE) \o ext_gpio_set_merus_mute(TRUE)
    \o ext_gpio_set_merus_en(FALSE)
merus_set_volume ==
  ext_gpio_set_merus_chip_select(TRUE) \o Paused(Do("merus"))
    \o ext_gpio_set_merus_chip_select(FALSE)

\* rda5807_...
FmRegisters ==
  ext_gpio_set_fm_chip_select(TRUE) \o Do("rda5807") \o ext_gpio_set_fm_chip_select(FALSE)

PlayThrough(pin) == merus_init \o i2s_redirector_start \o ext_gpio_set_i2s(pin)

action_webstation_stop ==
  Assign("web", FALSE) \o Do("redirector_stop") \o merus_deinit
\* webclient_connect, which disconnects when the name of the server is not found
Connect(resolved) == IF resolved THEN <<>> ELSE action_webstation_stop
\* From webstation_is_running on; the part before it is WebstationSet.
action_webstation_set(resolved) ==
  Assign("web", TRUE) \o Assign("fm", FALSE) \o Assign("is_fm", FALSE)
    \o merus_set_volume \o Connect(resolved) \o PlayThrough(I2S_1)
action_fmstation_set ==
  Assign("fm", TRUE) \o Assign("web", FALSE) \o FmRegisters
    \o Assign("is_fm", TRUE) \o PlayThrough(I2S_0)
action_fmstation_stop ==
  Assign("fm", FALSE) \o FmRegisters \o Do("redirector_stop") \o merus_deinit
action_power_on ==
  FmRegisters \o ext_gpio_set_lcd(TRUE) \o Do("switch")
action_power_off ==
  Do("stop") \o ext_gpio_set_lcd(FALSE) \o Do("rda5807")

IsFm == flag["is_fm"]
action_is_running == IF IsFm THEN flag["fm"] ELSE flag["web"]

\* What a step that calls others stands for, at the moment it is reached.
Expansion(what) ==
  CASE what = "fm"     -> action_fmstation_set
    [] what = "webstation_stop" -> action_webstation_stop
    [] what = "stop"   -> IF IsFm THEN action_fmstation_stop ELSE action_webstation_stop
    [] what = "switch" -> IF IsFm THEN Do("fm") ELSE Do("web")
    [] what = "pause"  -> IF action_is_running THEN Do("stop") ELSE Do("switch")
    [] what = "source" -> Do("stop") \o Do("other_source")
    [] what = "other_source" -> IF IsFm THEN Do("web") ELSE Do("fm")
    [] what = "volume" -> merus_set_volume
    [] what = "power"  ->
         (IF flag["sleeping"] THEN action_power_on ELSE action_power_off) \o Do("toggle")
    [] what = "redirector_stop" -> IF flag["is_running"] THEN StopRunning ELSE <<>>
Expanding == {"fm", "webstation_stop", "stop", "switch", "pause", "source",
              "other_source", "volume", "power"}

\* The steps: the small ones of the calls above, those that stand for others (the
\* two calls to the redirector are small and come to more), and the return.
Plain   == {"load", "write", "merus", "rda5807", "redirector_stop",
            "redirector_restore", "toggle"}
Assigns == [do : {"assign"}, flag : Flag, to : BOOLEAN]
Stores  == [do : {"store"}, set : SUBSET Pin, clear : SUBSET Pin]
Small   == [do : Plain] \cup Assigns \cup Stores
Step    == Small \cup [do : Expanding \cup {"web", "return"}]

-----------------------------------------------------------------------------
\* The sound of the source reaches the loudspeaker.
Plays(pin) ==
  /\ chip \cap {EN, MERUS_CS} = {} /\ MUTE \in chip
  /\ chip \cap {I2S_0, I2S_1} = {pin}
  /\ flag["is_running"] /\ flag["task"] /\ flag["channel"]

\* The amplifier is muted and off.
Silent == EN \in chip /\ chip \cap {MUTE, MERUS_CS} = {} /\ ~flag["is_running"]

\* The chip has what port_b says, of the pins that are not the display's.
Sent == chip \ {LCD} = port_b \ {LCD}

\* The radio as its user knows it.
Heard ==
  CASE Sent /\ Plays(I2S_1) -> "web"
    [] Sent /\ Plays(I2S_0) -> "fm"
    [] Sent /\ Silent       -> "silence"
    [] OTHER                -> "unknown"
RadioNow ==
  [source |-> IF IsFm THEN "fm" ELSE "web", on |-> action_is_running,
   asleep |-> flag["sleeping"], sound |-> Heard]
Unasked == [source |-> "web", on |-> FALSE, asleep |-> FALSE, sound |-> "unknown"]

-----------------------------------------------------------------------------
\* Boot leaves the amplifier off and the display on.  i2s_redirector_init stops
\* the task it has created, unless that has yet to set is_running: then it runs.
Init ==
  /\ port_b = {EN, MUTE, LCD} /\ chip = port_b
  /\ \E ran \in BOOLEAN :
       flag = [v \in Flag |-> v = "sleeping" \/ (ran /\ v \in {"is_running", "task", "channel"})]
  /\ reg = [t \in Writer |-> {}] /\ prev = [t \in Task |-> FALSE]
  /\ prog = [t \in Writer |-> <<>>]
  /\ calls = 0 /\ call = [t \in Task |-> "none"]
  /\ solo = [t \in Task |-> FALSE] /\ done = "none" /\ was = Unasked

Idle(t) == prog[t] = <<>>
At(t, what) == ~Idle(t) /\ Head(prog[t]).do = what
Goes(t, steps) == prog' = [prog EXCEPT ![t] = steps \o Tail(@)]

ports == <<port_b, chip, reg>>
history == <<calls, call, solo, done, was>>

\* The display's task has read port_b and is to write it back; that harms no call
\* as long as port_b is, but for the display's pin, what it read.
Updating == ~Idle("lcd")
Fresh == Updating => reg["lcd"] \ {LCD} = port_b \ {LCD}

Call(t) ==
  /\ Idle(t) /\ calls < MaxCalls
  /\ \E c \in CallsOf(t) :
       /\ prog' = [prog EXCEPT ![t] = Do(c) \o Do("return")]
       /\ call' = [call EXCEPT ![t] = c]
  /\ LET alone == Fresh /\ \A v \in Task \ {t} : Idle(v)
     IN  /\ solo' = [u \in Task |-> u = t /\ alone]
         /\ was' = IF alone THEN RadioNow ELSE Unasked
         /\ alone \/ (calls < Overlap /\ {call'[v] : v \in Task} \subseteq Meeting \cup {"none"})
  /\ calls' = calls + 1 /\ done' = "none"
  /\ UNCHANGED <<ports, flag, prev>>

Return(t) ==
  /\ At(t, "return") /\ Goes(t, <<>>)
  /\ done' = IF solo[t] THEN call[t] ELSE "none"
  /\ call' = [call EXCEPT ![t] = "none"] /\ solo' = [solo EXCEPT ![t] = FALSE]
  /\ prev' = [prev EXCEPT ![t] = FALSE] /\ was' = Unasked
  /\ UNCHANGED <<ports, flag, calls>>

Expand(t) ==
  \E what \in Expanding :
    /\ At(t, what) /\ Goes(t, Expansion(what))
    /\ UNCHANGED <<ports, flag, prev, history>>

\* The network is down, or there is no memory for the station: nothing is done.
WebstationSet(t) ==
  /\ At(t, "web")
  /\ \/ /\ \E resolved \in BOOLEAN : Goes(t, action_webstation_set(resolved))
        /\ UNCHANGED <<solo, was>>
     \/ /\ Goes(t, <<>>) /\ solo' = [solo EXCEPT ![t] = FALSE] /\ was' = Unasked
  /\ UNCHANGED <<ports, flag, prev, calls, call, done>>

\* addon_wake_lcd or addon_sleep_lcd, on a message, a timer, a key or a command, up to
\* the read of port_b.
LcdUpdate ==
  /\ Idle("lcd") /\ calls < MaxCalls /\ calls < Overlap
  /\ \E on \in BOOLEAN : prog' = [prog EXCEPT !["lcd"] = Tail(ext_gpio_set_lcd(on))]
  /\ reg' = [reg EXCEPT !["lcd"] = port_b]
  /\ calls' = calls + 1
  /\ UNCHANGED <<port_b, chip, flag, prev, call, solo, done, was>>

Load(t) ==
  /\ At(t, "load") /\ Goes(t, <<>>)
  /\ reg' = [reg EXCEPT ![t] = port_b]
  /\ UNCHANGED <<port_b, chip, flag, prev, history>>

Stored(t, step) == (reg[t] \ step.clear) \cup step.set

Store(t) ==
  /\ At(t, "store") /\ Goes(t, <<>>)
  /\ port_b' = Stored(t, Head(prog[t]))
  /\ reg' = [reg EXCEPT ![t] = port_b']
  /\ IF t \in Task /\ Updating
     THEN solo' = [u \in Task |-> FALSE] /\ was' = Unasked
     ELSE UNCHANGED <<solo, was>>
  /\ UNCHANGED <<chip, flag, prev, calls, call, done>>

WriteIo(t) ==
  /\ At(t, "write") /\ Goes(t, <<>>)
  /\ chip' = reg[t] /\ reg' = [reg EXCEPT ![t] = {}]
  /\ UNCHANGED <<port_b, flag, prev, history>>

\* The registers of the amplifier or of the FM chip are read or written.
Talk(t) ==
  /\ At(t, "merus") \/ At(t, "rda5807")
  /\ Goes(t, <<>>)
  /\ UNCHANGED <<ports, flag, prev, history>>

SetFlag(t) ==
  /\ At(t, "assign") /\ Goes(t, <<>>)
  /\ flag' = [flag EXCEPT ![Head(prog[t]).flag] = Head(prog[t]).to]
  /\ UNCHANGED <<ports, prev, history>>

Toggle_m(t) ==
  /\ At(t, "toggle") /\ Goes(t, <<>>)
  /\ flag' = [flag EXCEPT !["sleeping"] = TRUE]
  /\ UNCHANGED <<ports, prev, history>>
\* is_sleeping = !is_sleeping
Toggle(t) ==
  /\ At(t, "toggle") /\ Goes(t, <<>>)
  /\ flag' = [flag EXCEPT !["sleeping"] = ~@]
  /\ UNCHANGED <<ports, prev, history>>

i2s_redirector_stop(t) ==
  /\ At(t, "redirector_stop")
  /\ prev' = [prev EXCEPT ![t] = flag["is_running"]]
  /\ Goes(t, Expansion("redirector_stop"))
  /\ UNCHANGED <<ports, flag, history>>

Restored(t) == IF prev[t] THEN i2s_redirector_start ELSE Expansion("redirector_stop")

i2s_redirector_restore(t) ==
  /\ At(t, "redirector_restore") /\ Goes(t, Restored(t))
  /\ UNCHANGED <<ports, flag, prev, history>>

Next ==
  \/ \E t \in Task :
       \/ Call(t) \/ Return(t) \/ Expand(t) \/ WebstationSet(t) \/ Load(t) \/ Talk(t)
       \/ SetFlag(t) \/ Toggle(t) \/ i2s_redirector_stop(t) \/ i2s_redirector_restore(t)
  \/ LcdUpdate
  \/ \E t \in Writer : Store(t) \/ WriteIo(t)

Spec == Init /\ [][Next]_vars

\* What Radio says of it: the radio as the solo call found it, until that returns.
Alone == \E t \in Task : solo[t]
RadioSeen == IF Alone THEN was ELSE RadioNow
Doing == IF Fresh /\ \A t \in Task : Idle(t) THEN "nothing"
         ELSE IF Alone THEN call[CHOOSE t \in Task : solo[t]] ELSE "several"

Promise == INSTANCE Radio WITH radio <- RadioSeen, doing <- Doing

-----------------------------------------------------------------------------
(***************************************************************************)
(* Types.                                                                  *)
(***************************************************************************)
TypeOK ==
  /\ port_b \subseteq Pin /\ chip \subseteq Pin
  /\ flag \in [Flag -> BOOLEAN]
  /\ reg \in [Writer -> SUBSET Pin] /\ prev \in [Task -> BOOLEAN]
  /\ prog \in [Writer -> Seq(Step)]
  /\ calls \in 0 .. MaxCalls
  /\ call \in [Task -> Calls \cup {"none"}]
  /\ solo \in [Task -> BOOLEAN] /\ done \in Calls \cup {"none"}
  /\ was \in Promise!State

-----------------------------------------------------------------------------
\* A change of the volume returns with the redirector as it found it.
KeptRunning(t) ==
  At(t, "return") /\ call[t] = "volume" => flag["is_running"] = prev[t]

(***************************************************************************)
(* A call that met no other one takes effect, whatever the calls before it,  *)
(* at the same time or one after another, did to the pins, to port_b and to   *)
(* the redirector: the chip has what port_b says, and the radio plays the     *)
(* source that is chosen or, after a stop, is silent.  In particular no      *)
(* update that two tasks lost on port_b outlives the next play or stop.  The  *)
(* flags say the same, except that a web station whose server is not found   *)
(* leaves the amplifier on with webstation_is_running false.  The display's  *)
(* task may wake it or put it to sleep meanwhile, if only the call does not   *)
(* write port_b between that task's read and its write of the chip.         *)
(***************************************************************************)
SoloCallWorks ==
  /\ done # "none" => Sent
  /\ done \notin {"none", "volume", "webstation_stop"} =>
       IF action_is_running THEN Plays(IF IsFm THEN I2S_0 ELSE I2S_1)
       ELSE Silent \/ (~IsFm /\ Plays(I2S_1))
  /\ done \in {"web", "fm", "source"} => Plays(IF IsFm THEN I2S_0 ELSE I2S_1)
  /\ done = "fm" => action_is_running
  /\ done \in {"stop", "webstation_stop"} => Silent
  /\ \A t \in Task : solo[t] => KeptRunning(t)

(***************************************************************************)
(* Of calls made one after another each takes the radio from the state it     *)
(* found to the one it is for, as if it were one step: the source, on or off, *)
(* asleep or not, and what is heard, the display's task at work or not.      *)
(***************************************************************************)
ImplementsRadio == Promise!Spec

(***************************************************************************)
(* A call that met no other one so far writes the registers of the           *)
(* amplifier when the amplifier is selected, powered or not, and the         *)
(* redirector is stopped as far as the program knows.  An update of the       *)
(* display that read port_b since the call last changed it does not take the *)
(* selection away.                                                         *)
(***************************************************************************)
SoloTalkIsHeard ==
  \A t \in Task : solo[t] /\ At(t, "merus") =>
    MERUS_CS \in chip /\ ~flag["is_running"] /\ Sent

(***************************************************************************)
(* "Need to enable chip before any communication" (merus.c:8): at any time   *)
(* a task that talks to the amplifier has it selected.                      *)
(***************************************************************************)
ChipEnabled == \A t \in Task : At(t, "merus") => MERUS_CS \in chip

=============================================================================
