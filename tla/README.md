# TLA+ models of the esp_radio firmware

esp_radio (`Firmware/`) is an internet radio on an ESP32: it fetches a
Shoutcast/Icecast stream, decodes it in software or in a VS1053 chip, and is
commanded by buttons, an infrared remote, a web page, a serial line and timers.
Everything is FreeRTOS tasks on two cores that share plain variables, a few
binary semaphores, queues and one stream buffer. What is hard in this program is
therefore not any one function but the order in which the tasks meet: this
project models those meetings, checks them with TLC on small instances and proves
the safety properties for instances of any size with TLAPS.

Paths below are relative to `src/Firmware/` unless they say otherwise.

## Inventory

| Part | Code | State | Operations | Meets | What makes it correct |
|---|---|---|---|---|---|
| Button queue | `main/esp_radio/buttons.c`, `buttons_loop` in `main/addon.c` | two linked lists of event nodes, a mutex, encoder and button states | scan, `enqueue_event`, `buttons_get_event`, `buttons_release_event` | `buttons_task` and the addon task | no node lost or in two places, lists stay lists, an event in use is not rewritten, every event is taken |
| Webclient | `main/webclient.c` | `sConnect`, `sConnected`, `sDisconnect`, `cstatus`, `once`, `playing`, the socket | connect, silent connect/disconnect, connect once, `webclient_task`, `clientReceiveCallback` | every task that commands the radio; the player; the audio path | a stop ends the session it was meant for and no other; a request to play is served; no loop without an end |
| Metadata splitter | `main/webclient.c` 1222-1330 | the statics `metad`, `rest`, `metadata` | one call per packet | server, FIFO, title display | every byte of audio goes to the decoder, every byte of a title to the title, however packets are cut; what the code writes over audio is told |
| Chunk decoder | `main/webclient.c` 1075-1175 | `chunk`, `cchunk` | one call per packet | server | keeps its place in the stream |
| Player | `components/audio_player` | `command`, `decoder_command`, `decoder_status`, `eof`, `player_status` | init, start, stop, consume | webclient, decoder tasks, whoever stops | one decoder at a time, a stop ends it |
| FIFO | `components/fifo` | a FreeRTOS stream buffer | write, read, fill, reset | webclient (writer), decoder (reader) | bytes in order, reader wakes |
| Decoder tasks | `components/mp3_decoder`, `components/fdk-aac_decoder`, `VS1053_task` in `main/vs1053.c` | their own, and the fields of the player | read, decode, end | player, FIFO, renderer | ends when told to, leaves nothing to its successor |
| Read buffer | `components/common` | pointers of one buffer | `fill_read_buffer`, `buf_move_read_ptr` | decoder | pointers in order, no byte lost |
| Renderer | `components/audio_renderer` | `renderer_status`, I2S channels | init, start, stop, `render_samples` | decoders | conversion and partial writes |
| Action manager | `main/esp_radio/action_manager.c` | `webstation_is_running`, `fmstation_is_running`, `is_sleeping` | set/stop station, FM, volume, power | everything | one source at a time, heard when it should be |
| Audio path | `main/esp_radio/merus.c`, `i2s_redirector.c`, `ext_gpio.c` | `port_b`, `is_running`, chip selects | init/deinit, volume, start/stop/restore | action manager, webclient, volume from any task | a chip is talked to only while selected; a volume change leaves the path as it was; no mishap outlives the next call, whatever the display's task writes beside it |
| Settings and stations | `main/esp_radio/app_state.c`, `main/eeprom.c` | cached values, the settings in two partitions, the stations in a third, the volume in NVS, a mutex, a timer of 30 s | get/set, delayed commit, save, backup, restore, erase, rewrite of stations | web server, commands, start-up, loss of power | what is in use is what is saved, but for fields that are changed in memory only; stations nobody changed survive; a backup is enough |
| Web servers | `main/webserver.c`, `main/esp_radio/webserver.c`, `main/servers.c` | four connection slots, `semclient`, `semfile`, sockets | accept, select, requests | browsers, telnets, action manager, settings | slots are given back, a socket has one user, everyone is accepted |
| WebSocket | `main/websocket.c` | table of clients, without a lock | accept, read, broadcast, close | client tasks, the server task, every task that reports | an entry is a socket that is open and nobody else's |
| Telnet and serial commands | `main/telnet.c`, `main/interface.c` | telnet sockets, current line | `cli.*`, `sys.*`, `wifi.*` | webclient, settings | a command does what it says |
| Infrared | `main/irnec.c` | a frame, the repeat flags | receive, repeat | addon task | repeats belong to a frame |
| Display, addon task | `main/addon.c`, `addonu8g2.c`, `addonucg.c` | screen state, `event_lcd` queue, one pin of `port_b` | events, timers, wake, sleep | every task that reports; the audio path | its pin does not cost others theirs |
| Network, time | `main/esp_radio/network.c`, `main/ntp.c`, `main/timezone.c` | event group, retry state | connect, lost, fall back | webclient | reconnects or falls back |
| Start, timers | `main/app_main.c` | sleep and wake timers | start-up, autoplay, wake, sleep | webclient | a timer does its work once |
| I2C bus | `components/i2c_bus` | reference counts, a mutex | create, delete, transfer | chips | count matches users |
| The rest | chip drivers, OTA, GPIO settings, helpers, vendored libraries, Bluetooth speaker, the web page | - | - | - | I/O, wording or third-party code; not modelled |

`PROJECT.json` lists the same parts with what is modelled of each, and the
hazards of the code line by line.

## Modules

| Module | What it is |
|---|---|
| `EventPool` | abstract: a bounded stack of events with one producer and one consumer |
| `Buttons` | `buttons.c` and its reader, one access to the shared lists per step; refines `EventPool` |
| `IcyMeta` | the splitter of `clientReceiveCallback`, one packet per step, against the stream the server sends |
| `Player` | player, FIFO and decoder tasks, one access to shared state per step |
| `WebClient` | the session protocol of `webclient_task` and the tasks that command it |
| `Settings` | settings, backup, stations and volume in flash, a page or a sector at a time, with losses of power |
| `Servers` | the server task, the client tasks, the tables of websockets and telnets, and the sockets of lwIP |
| `Radio` | abstract: what a radio promises whose calls are made one at a time |
| `AudioPath` | the calls that play, stop and change the volume, as the steps they take on pins, redirector and amplifier; refines `Radio` |
| `MC...` | the values TLC needs (the others need none) |
| `...Proofs` | the theorems about the module named, and their proofs |

In all of them a name that ends in `_m` is a mutated form of the definition that
follows it: a mistake someone could have made in that line, which the property
named in `PROJECT.json` must find.

**Buttons.** `next` and `event` are the fields of the nodes, `event_queue` and
`released_events` the heads of the two lists. `ProcessEncoder` and `ProcessButton`
are one call each of the scan, `Enqueue...`, `Get...` and `Release...` are the
steps of the three functions: the test of the head before the lock, the lock, each
access under it, the unlock. `queued` and `free` record what the lists should be.
`addon_task` reads at its own pace and keeps a node while it acts on it. The queue
is last in, first out: the TODO at `buttons.c:24` says so.

**IcyMeta.** The variables are the three statics; `due` is the truth, where in the
stream the server is. A step is a packet of any size and any cut. The code ends a
title with a zero it writes into the packet. When a block has spanned packets that zero
lies on the first byte behind it (`webclient.c:1184`), which is audio and goes to the
decoder as 0; when a block is whole, `clientSaveMetadata` may cut a title that nothing
ends one or two bytes behind it (506, 517). `zeroed` are the bytes of the packet that
are 0 by now, also when the code reads one of them as a length (`Read`), and `marred`
those of them that were given as audio. Out: `clientSaveMetadata` searches an unended
title for `song_spot=`, `StreamUrl` and a quote as far as the next zero byte, and what it
cuts there may lie further away than the two bytes the model has; a title longer than 256
is not saved.

**Player.** `pc` names the place of every task: the webclient as the one who starts,
writes and ends, decoder tasks in slots, and tasks that stop the player at any time.
The five fields of `player_t` are written without a lock, so each assignment is a
step. The FIFO is the number of its bytes: a stream buffer of `Len` holds `Len - 1`,
a reader asleep wakes when `Trigger` bytes are there, a reset does nothing while
somebody sleeps on it. These three facts of FreeRTOS, and the creation of a task
on the other core, are all the model takes from outside the repository.

**WebClient.** The webclient and any number of users are places (`pc`) in the same
functions: the webclient ends and restarts sessions with the functions users call.
`Stop...` is `action_webstation_stop`, `Connect...` is `webclient_connect`
(`webclient_connect_once` is the same but for its last line), then come the parts of
`action_webstation_set`, `cli.instant`, the timers and the loss of Wi-Fi. What the
server sends is a choice at every read: data, nothing, an error, a close, a
playlist, an answer "moved", "404", a stream, chunked or not. In the bytes of a stream
`audio_stream_consumer` may find the player stopped and disconnect (`StoppedData`), or
no decoder for it, and stop the radio (`NoDecoder`). `first length` and `length` are the
two loops that wait for the length of a chunk, behind the header and later. `asked` is
a history for `NoStaleStop`.

What is left out of `WebClient` on purpose: the URL, path and port (data); the
volume call of `action_webstation_set`, which is in `AudioPath`; the extra
waits of the web page's `instant_play`; what order `sDisconnect` and the log come
in when no socket can be created.

**Settings.** `device` and `device1` are the partitions of two pages each, the
record's marker on the first; a page or a sector is a value that stands for its
bytes, `Ones` when it is erased. A write can only clear bits (`And`): over erased
flash it leaves what is written, over something else `Zeros` or a `Mix`. A request
is a list of calls (`todo`): the wifi form is a save, a copy and a restart, a move of
stations two rewrites. `SaveErase` to `SaveWrite` are `eeprom_save_device_settings`
with its mutex, `Copy...` the backup, which takes none, `SetRead`, `SetErase` and
`SetWrite` a turn of the loop of `eeprom_set_data`, `Boot` is `app_state_init`. `Crash`
comes between any two of them. Requests leave even numbers; `Adjusted` is the same record
with a field that the code changes by itself and does not save: the name of the radio in
`Start`, which is where a reset or an unreadable record has none, and in `Adjust` the kind of
display (`app_main.c:593`), the name sent to servers (`webclient.c:1349`), the time zone
(`timezone.c:23`) and the screen shown at rest (`addon.c:759`). A later save takes such a
field with it. `raced` records that a volume was set while another task had set one and not
yet written it to NVS. `book` records what the stations should be, `damaged`
the sectors where two tasks met or the power failed. What is left out: the second save
of the wifi form in access point mode (one more field of the same record), the
retries without memory, and the data of a record: a change is a new number. A write
of a page is one step; a page half written is a page not written and one more crash.

**Servers.** `spc` and `wpc` are the places of the server task and of the client
tasks, which are in slots. A socket is a number and `sock` says who is at its other
end: a peer, another task of the radio that opened it (`Other`: the webclient), or
nobody. lwIP gives the first free number, which is how `CloseAgain` may hit another
task's socket. `fds` is the set made before `select`,
`ready` what is left of a round. A peer sends something whole, a half of it, the
opening of a websocket, a part of a frame, or a close, or leaves. Out: the
broadcasts, what is served, and the limits of lwIP other than the sockets.

**AudioPath.** A call is a sequence of steps (`prog`): a read of `port_b`, its
change, the write of the byte to the port expander, an assignment of a flag, a talk
to a chip; the definitions are named after the functions and written as those are.
A call that has to test something first is a step that is replaced by what the test
chooses (`Expand`). `port_b` is what the program believes and `chip` what the pins are.
Two tasks make the calls. The third `Writer` of `port_b` is the task of the display
(`LcdUpdate`): it wakes the display or puts it to sleep at any moment, because a message,
a key, a timer or a command tells it to, and reads, changes and writes `port_b` beside whatever
call is under way. Messages of the calls themselves (`action_manager.c:61`, 105, 198) are
among these; a call's own use of the display's pin, in power on and off, is a step of that call.
A name that is not found makes `webclient_connect` stop the radio within
`action_webstation_set` (`Connect`), which then goes on. `solo` marks a call that has met no
other call, no refusal, and no update of the display that read `port_b` before the call changed it
and writes it after (`Store`); an update that reads what the call has already
written, or is done before the next change, is met and does no harm. `was` is the
radio as a solo call found it. `Radio` knows a source, on or off, asleep or not, and what
is heard, which is `unknown` when the pins say nothing definite. Its
`radio` is `was` until a solo call returns and `RadioNow` otherwise, so that all a
solo call does is one step (`End`) from the state it was made in. Of calls that
meet, of one that an update of the display cuts in two and of a station that is refused
(`Interfere`, `Several`) it promises nothing; `Notice` is an update of the display between
calls, which writes out what earlier ones left unwritten. `asleep` is `is_sleeping`: the
display is no part of it, since the message of the stop that power off sends wakes it again.

The models meet at their edges: the session that `WebClient`
calls data is the one `Player` starts, writes and ends, and the bytes it writes are
those `IcyMeta` sends to the decoder; `AudioPath` is what `WebClient` switches with
`I2sOn` and `MerusOn`, and `Settings` what the requests that `Servers` accepts ask
for. They are not composed: each treats the others as an environment that may do
anything the code lets it do, which is the stronger check for safety.

## What the runs show

Passing runs:

| Run | Module, instance | Shows |
|---|---|---|
| `buttons` | `Buttons`, 2 nodes, 1 button and the encoder, clock to 2 (120 thousand states) | the lists are lists, no node lost, the tests before the lock hold after it, the event in use is stable, refinement of `EventPool`, and with fairness the queue drains |
| `icy_meta` | `IcyMeta`, intervals 0 to 3, titles to 5 bytes, packets to 9 (87 thousand) | the statics say where the stream is; every byte goes where it belongs; of audio only the first two bytes behind a block may be spoilt |
| `player` | `Player`, MP3, 2 decoder slots, 1 stopper, FIFO of 3 (0.9 million) | one reader, and no other reader lives when an ending decoder empties the FIFO |
| `player_vs` | the same with `VS1053_task`, fair (0.7 million) | one reader; a stop while idle ends the decoder |
| `web_client` | `WebClient`, a user with stations and instant plays, chunked streams (3.5 million) | nothing counts as playing between sessions; no session is ended by a stop from before it |
| `web_client_live` | `WebClient`, a user with stop, wake and loss of Wi-Fi, chunked streams, fair (0.5 million) | a stop given while receiving ends the session, unless the wait for the length of a chunk goes on for ever |
| `settings` | `Settings`, 2 tasks, 3 stations in 2 sectors, 2 changes of any kind, 1 loss of power, fair (0.2 million) | what is in use is saved, but for the fields changed in memory only; other stations survive; a valid backup and the stations survive a start however often it fails; requests end; the volume in use is stored, unless two were set at once |
| `servers` | `Servers`, 3 peers, 2 sockets, 2 slots, 1 websocket, 1 telnet, 3 messages, fair (0.6 million) | slots are kept; a socket has one user; whoever connects is accepted |
| `audio_path` | `AudioPath`, 3 calls and updates of the display of which 2 may meet (1.9 million) | the next call alone sets right whatever two calls, or a call and the display's task, did to each other; refinement of `Radio` |

Runs that end in a violation, each of what the repository itself says:

| Run | The repository says | The code does |
|---|---|---|
| `play_once` | "nothing played. Force the read of the buffer" (`webclient.c:1547`) | the wait for `spiRamFifoFill() == 0` never ends: the fill of an empty stream buffer is 1 |
| `socket_kept` | "only a websocket created. exit without closing the socket" (`webserver.c:1121`) | with the table full no websocket is created, and nobody closes the socket (`websocket.c:352`) |
| `chip_enabled` | "Need to enable chip before any communication" (`merus.c:8`) | another task's call clears the chip select before the registers are written (`merus.c:49`, 72) |

The models also reach the following, which have no run of their own. Of the player
and the webclient: a session that ends inside a metadata block leaves `rest` behind,
and the next stream is cut at the wrong places (`webclient.c:929`); the first byte of audio
behind a title that spans packets is 0 (1184), and so may the first two behind others be (506,
517), which in a stream with one byte between two titles would hit the next length; a decoder that
ends empties the FIFO of what the next stream has written by then (`mp3_decoder.c:197`); a reader of the
FIFO on its way to sleep is not woken by a stop (`audio_player.c:181`); a stop given
just after a request to play is thrown away with the stale ones (`webclient.c:1380`); a
restarted stream plays with amplifier and redirector off (`webclient.c:1542`); once
the server has closed, the wait for the length of a chunk never ends and no stop is
seen (`webclient.c:1028`, 1108), which `StopEndsSession` excepts; a stream that no
decoder can be made for counts as playing (1250); `spiRamFifoWrite` stores what fits and drops the rest, where its header says it
blocks; the start of a stream withdraws a stop the decoder has not seen
(`audio_player.c:162`); `decoder_status` may be set to RUNNING after the decoder it
speaks of has ended (86), and then no decoder is started; a stopped player still
takes bytes, because `command` is `CMD_STOP` for four lines only (174-178); a stop
seen after an empty read is answered with a restart (`webclient.c:1540`); an
instant play that goes through a playlist forgets that it was to be played once
(`webclient.c:1596`); the wake timer connects but turns nothing on
(`app_main.c:335`); and a request to play can wait behind a session whose stop was
dropped (`webclient.c:1380`).

Of the settings: a backup made while another task's save has DEVICE erased is worth
nothing, and a loss of power before that save ends loses the settings and, in the
start that follows, every station (`eeprom.c:216`, `app_state.c:162`); a record whose
second page was never written has a valid marker (`app_state.c:156`); two tasks that
rewrite the same sector lose one of the updates or write both over each other
(`eeprom.c:89`); a move cut short leaves a station twice (`webserver.c:451` of
`esp_radio`); two volumes set at once may be stored in the other order
(`app_state.c:55`, `raced`); the settings in use may differ from those saved by a
name, the kind of display, the name for servers, the time zone or the screen at rest, which the next
save takes with it (`app_state.c:177`). Of the servers: a half request whose rest never comes keeps its
slot for good (`webserver.c:1085`, 1103), and a part of a frame stops the server task
(`websocket.c:244-280`): these are `Blocked`, which `Accepted` excepts; a socket
closed twice may be another task's by then (`servers.c:243`, `robbed`); a new
websocket is not in the set of `select` until something else happens
(`servers.c:147`); two client tasks may take the same entry (`websocket.c:135`);
`semfile` is given by who has not taken it (`webserver.c:162`). Of the audio path: a
stop that meets a volume change or a start leaves the redirector running, or
stopped and called running (`merus.c:69`, `i2s_redirector.c:99`); an update of
`port_b` that was lost, or an old byte written last, stays on the pins until the next
call (`ext_gpio.c:90`); a web session that ends turns the amplifier off under the FM
radio, which does not stop it (`action_manager.c:158`, `webclient.c:749`); power off
speaks to the FM chip when its chip select is cleared (`action_manager.c:244`); a
station without memory for it leaves the flags as they were after the disconnect
(`action_manager.c:95`); a station whose name is not found leaves the amplifier on with
`webstation_is_running` false (`webclient.c:883`, `action_manager.c:121`); the display's task
may write an old byte and so take the chip select, the mute or the switch of I2S from a call,
also one that has woken it itself (`addon.c:155`); after a power off the message of its
own stop wakes the display again (`action_manager.c:61`); and autostart turns the power on without saying so in
`is_sleeping` (`app_main.c:644`).

Hazards that no model reaches, because what they are about is not modelled: several
tasks may write to the FIFO's stream buffer at once, which FreeRTOS allows to one
(`spiram_fifo.c:64`); `write_i2s` repeats the first bytes of a partial write
(`audio_renderer.c:102`); a station number is cut to one more than the last
(`app_state.c:90`), and that of an FM station is refused when there are some (106); a
broadcast reads an entry of the table twice (`websocket.c:331`); a repeat frame of the
remote that comes first sends an event nobody filled in (`irnec.c:223`).

### Bounds, and why they are enough

- Buttons: two nodes make all cases (pool full, one, empty, one in the reader's
  hand); the code never looks past the first two nodes of a list. The clock stops
  at `MaxNow`; it is only compared with the time a button went down. The proofs need
  no bound on nodes or buttons.
- IcyMeta: a packet of 9 bytes holds two blocks or more, and blocks of
  5 need several packets. 1 is the interval `Sound` excepts, 2 the
  least in which no length byte is spoilt, 3 the least with a byte of audio that is never.
- Player: a FIFO of 3 has empty, part and full; the trigger and the threshold differ
  as in the code. Two decoder slots are one that ends and one that begins. MP3 is the
  software decoder checked: it renders, aborts and resets, and AAC does less of each;
  streams that change between MP3 and AAC are 4.4 million states, and the proofs are
  for both and for any number of decoders.
- WebClient: `MaxError` is 2 for 10 (the count is only compared with it). After a
  header a packet goes on at most once (`tail`), else one packet could be without
  end. One user: two are 7 million states for stations alone, and the proofs are for
  any number of users.
- Settings: two sectors are the one that is rewritten and another, with a station
  beside the one changed. Two changes make two tasks meet in any pair of requests;
  one loss of power comes at any step, also of the start after a restart. The proofs
  need no bound.
- Servers: one entry in each table is one that is full after the first client; two
  sockets are too few for three peers and another task, so that a connection may be
  dropped and a number is given again. Two slots are two client tasks that meet in
  the table of websockets or at a file, or one that is kept and one that goes on.
  `MaxSend` counts messages, and sockets other tasks open: three are the opening of a
  websocket, a part of a frame and its rest.
- AudioPath: two calls that meet at any steps and a third alone are the mishap and its
  repair. Which calls each task makes is in the .cfg: those that write the pins and
  the redirector in every way the code does; `Meeting` names those of them that may meet
  another, one for each way to leave pins, flags and redirector. `MaxCalls` and
  `Overlap` count updates of the display like calls, so that one of the two that meet may be
  the display's. A third task, or a third call that meets them, would be more of the same
  mishaps. Two tasks that both command the display (the addon task; the console,
  `interface.c:1000`) are one writer here. The proofs need none of these bounds.

### Fairness

FreeRTOS runs every ready task, so a task goes on with what it has begun. Nobody
has to press a button, to begin a stream or to stop one.

- Buttons: weak fairness of each step, and strong fairness of taking the mutex,
  which FreeRTOS hands to the waiting task of highest priority; the two tasks release
  it after a bounded number of steps.
- Player: weak fairness of the webclient, of each decoder and of each stop begun.
- WebClient: weak fairness of the webclient and the users. Reads end after 6 s at the
  latest (`SO_RCVTIMEO`), and a name is resolved or not. Nothing is assumed of the
  server, nor of the wait for what is played once: that is `play_once`.
- Settings: weak fairness of every task's work, of the start and of the timer that
  commits. The mutex has two users at most in the instance and each keeps it for a few
  steps. Losses of power are bounded by `MaxCrash`.
- Servers: weak fairness of the server task and of each client task: a read gives up
  after 6 s (`SO_RCVTIMEO`), and who has asked for a file takes it. Nothing else is
  assumed of a peer.
- AudioPath states safety only: every call ends, being a list of steps.

`CHECK_DEADLOCK FALSE` is set for all but `Buttons` and `IcyMeta`: a radio that nobody
asks for anything rests, and counters that bound a model end.

## What is proved

For every value of the constants that the named assumptions allow:

| Module | Theorems | Inductive invariant |
|---|---|---|
| `ButtonsProofs` | `Typing`, `ListsStaySound`, `NoNodeLost`, `CheckBeforeLockIsSafe`, `HeldEventIsStable`, `QueueIsAStack` | the conjunction of the type, who holds the mutex where (`Mutex`), what is in each task's hand (`Hands`), and the four properties. `QueueIsAStack` is the refinement of `EventPool`: each step maps to one of the pool or to a stutter, and `Available` to a count of nodes because a list without duplicates has as many elements as members (`ElemsCardinality`) |
| `IcyMetaProofs` | `Typing`, `StaysInStep`, `BytesGoRight` | the type; that the statics determine the place in the stream, between packets and within one; which bytes behind the last block may be 0 by now, and that they are never a length byte |
| `PlayerProofs` | `Typing`, `OneReader`, `CleanupIsSafe` | the type; `OneEarly`: at most one decoder has not written STOPPED; `StatusTells`: while there is one, the status is RUNNING or about to be; `StatusRead`: the webclient creates one only after it read another status. `CleanupIsSafe` adds `Mp3Resets`, which kind resets when |
| `WebClientProofs` | `Typing`, `NothingPlaysBetweenSessions`, `StaleStopHarmless` | places and types; `StopKnown`: a `sDisconnect` that is set was given in this session or is about to be dropped; `PlaysInSession`: `playing` only at the places of a session, or in a call made there; `CountBelow`: the count of empty reads while receiving |
| `SettingsProofs` | `Typing`, `SettingsSaved`, `StationsSafe`, `BackupSpared` | `IInv`: the type; `Control`, what each place in a request leaves to do, who works beside the start, who holds the mutex; `Blocks`, what a page may hold; `Kept`, the pages of DEVICE that a save has written and those it has not; `Restoring`, that a restore writes what is in a valid backup; `Jobs`, what a rewrite has before it; `Held` (`Station1` of each station), that a sector without damage has one rewrite at most, which holds in its buffer what the flash had; `Others`, the types of the rest |
| `ServersProofs` | `Typing`, `NoSlotLost`, `SocketsApart` | the type, the count of slots; `Linked`: the tables and the sockets agree; `Announced`: whom `select` has announced still waits to be accepted; `Owned`: the one user of a socket is the peer's at its other end |

The rows so far are about steps of the tasks; that of `AudioPath` is about programs:

| Module | Theorems | Inductive invariant |
|---|---|---|
| `AudioPathProofs` | `Typing`, `SoloWorks`, `SoloHeard`, `ActsAtOnce` | the type; `SoloCalls`: what a solo call still has to do leads from the present state to the goal of the call, which depends on the radio it found (`was`); `SoloDone`: the call that is done has reached its goal |

Two more conjuncts are about the display: `LcdProg`, what its task has left to do, and
`LcdFresh`, that while a call is solo what that task has read is, but for its own pin, what
`port_b` is. From the second follows that its write of an old byte changes nothing the
call relies on; a call that breaks it stops being solo in that step.

The invariant of `AudioPath` does not list places. What is known of pins, flags and
registers is a set of facts that are high and a set that are low, and
`Leads(h, l, P, h2, l2)` says that the steps `P`, from any state with the facts
`h` and `l`, end in one with `h2` and `l2`: the triple of a Hoare logic. There is a rule for each
kind of step, one for sequences and one for what may be weakened, and then a lemma for each
function of `ext_gpio.c`, `merus.c`, `i2s_redirector.c` and `action_manager.c`, proved from those of the
functions it calls. A step of a solo call keeps the invariant because a triple of a program
gives one of its rest; no step of another call can meet it, and one of the display's task
keeps the facts. `ActsAtOnce` is the refinement of
`Radio`: a call begins with a step of `Radio`, its own steps leave `was` alone, and it returns in a
state that `After` allows, because that is its goal.

The invariants are needed because none of the properties is inductive. Two lists
stay lists only if the nodes in hand are in none of them, which needs the mutex.
One reader needs to know that `decoder_status` is not STOPPED while any decoder
still reads. A stale stop is harmless only because the place between taking
`sConnect` and dropping `sDisconnect` is known.

A loss of power in a save is harmless only because memory is read again from the
same flash, and a field changed under a save only because nothing but that field can differ
then; a station survives a rewrite by another only because the sector that was
read is still what it was, which is what `Held` and `damaged` are about.

Only model-checked: `QueueDrains`, `StopWhileIdle`, `StopEndsSession`, `RequestsEnd`,
`VolumeStored` and `Accepted`, because liveness is beyond the prover. Every
invariant and every action property of a run that passes is proved. The runs that end in a
violation need no proof.

## Not modelled, and the plan

The share of the repository's lines that the models map is small and will stay so:
of its 1.2 million lines all but some twenty thousand are fonts, display libraries,
codecs and TLS of other projects (`components/ucglib`, `u8g2`, `wolfssl`, `mad`,
`fdk-aac-oreo-m8`). Of the firmware's own code what is modelled is what several tasks
touch.

Left of the plan, in this order:

1. `Chunks`: the byte arithmetic of chunked streams (`webclient.c:1075-1175`), and its
   composition with `IcyMeta`; `CommonBuffer`, the pointers of the decoders' buffer.
2. In `Settings`: station numbers and totals in NVS, imports, FM stations. In `Servers`:
   broadcasts from other tasks.
3. The LCD queue; sleep and wake timers; autostart.
4. Proofs of the safety properties that come with these.

Not modelled, with the reasons: the infrared receiver (one task that
decodes pulses into events), Wi-Fi and NTP (callbacks of ESP-IDF, of which only the loss of the
connection matters to the models here), the I2C bus (a mutex around each transfer,
which is why a transfer is one step of `AudioPath`).

Not planned either: what is decoded, drawn or worded; registers of chips; OTA; vendored
libraries; the web page; the Bluetooth speaker, which `main` does not call.
