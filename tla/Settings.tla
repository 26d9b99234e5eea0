------------------------------ MODULE Settings ------------------------------
(***************************************************************************)
(* What the radio keeps in flash, main/eeprom.c and main/esp_radio/         *)
(* app_state.c: the device settings in the partitions DEVICE and DEVICE1     *)
(* (the backup), the stations in STATIONS, the volume in NVS; and the tasks  *)
(* that change them, from the web page, the serial line or a telnet.        *)
(*                                                                          *)
(* Power may fail between any two steps.  Flash is written a page at a time  *)
(* and erased before it is written: a write can only turn ones to zeros.     *)
(***************************************************************************)
EXTENDS Integers, Sequences, Functions

CONSTANTS Task,        \* the tasks that change what is kept
          Op,          \* what they are asked to do
          NStations,   \* stations 0 .. NStations - 1 (255 in the code)
          PerSector,   \* stations in a sector of flash (16 in the code)
          MaxChange,   \* bound: changes made
          MaxCrash,    \* bound: losses of power
          Ones,        \* erased flash
          Zeros,       \* flash written with zeros
          Mix,         \* bytes of more than one record
          NULL

ASSUME SettingsAssumption ==
  /\ "main" \notin Task /\ NULL \notin Task \cup {"main"}
  /\ NStations \in Nat \ {0} /\ PerSector \in Nat \ {0}
  /\ MaxChange \in Nat /\ MaxCrash \in Nat
  /\ {Ones, Zeros, Mix} \cap Int = {}
  /\ Ones # Zeros /\ Ones # Mix /\ Zeros # Mix
  /\ Op \subseteq {"theme", "wifi", "connect", "station", "move", "clear",
                   "erase", "volume"}

\* A name that ends in _m is a mutated form of the definition that follows it.

Main    == "main"          \* app_main
Runner  == Task \cup {Main}
Page    == 1 .. 2          \* of struct device_settings; the marker is on 1
Station == 0 .. NStations - 1
Cell    == Nat \cup {Ones, Zeros, Mix}
Block   == [Page -> Cell]

VARIABLES
  device, device1, \* the two copies of the settings
  stations,        \* the stations partition
  g,               \* *g_device, the settings in memory
  lock,            \* who holds muxDevice
  pc, page,        \* where a task is, and the page it writes next
  todo,            \* what its request has still to do
  buf,             \* the buffer of a copy between the partitions
  sector,          \* the buffer of eeprom_set_data
  jobs,            \* the stations eeprom_set_data has still to write
  arg,             \* the volume a task sets
  volume, written, stored, timer,  \* master_volume, and what NVS has of it
  raced,           \* history: two tasks were setting the last volume
  changes, crashes,                \* counters
  book, damaged    \* history: the stations as saved, the sectors in doubt

nvs   == <<arg, volume, written, stored, timer, raced>>
hist  == <<book, damaged>>
vars  == <<device, device1, stations, g, lock, pc, page, todo, buf, sector,
           jobs, arg, volume, written, stored, timer, raced, changes, crashes,
           book, damaged>>

-----------------------------------------------------------------------------
(* Flash *)

And(old, new) == CASE old = Ones -> new
                   [] new = Ones -> old
                   [] old = new  -> old
                   [] Zeros \in {old, new} -> Zeros
                   [] OTHER -> Mix

Erased == [p \in Page |-> Ones]

\* settings->cleared = 0xAABB; a mix of two records keeps the marker.
Valid(b) == b[1] \in Nat \cup {Mix}

\* A request leaves an even record; the code changes some fields by itself and
\* saves none of them: the odd record is the same with such a field different.
Adjusted(v) == IF v \in Nat THEN IF v % 2 = 0 THEN v + 1 ELSE v - 1 ELSE Mix

SectorOf(s) == s \div PerSector
InSector(k) == {s \in Station : SectorOf(s) = k}
Sector      == {SectorOf(s) : s \in Station}

\* The sector eeprom_set_data is at: the first of what is left of its job.
At(t) == LET left == DOMAIN Head(jobs[t])
         IN SectorOf(CHOOSE s \in left : \A u \in left : s <= u)

-----------------------------------------------------------------------------
Go(t, l)   == pc' = [pc EXCEPT ![t] = l]

\* Task t's call has returned: on with the rest of its request.
Return(t) ==
  /\ pc' = [pc EXCEPT ![t] = IF todo[t] = <<>> THEN "idle" ELSE Head(todo[t])]
  /\ todo' = [todo EXCEPT ![t] = IF @ = <<>> THEN @ ELSE Tail(@)]

NextPage_m(t) ==
  /\ page' = [page EXCEPT ![t] = @ + 1]
  /\ buf' = [buf EXCEPT ![t] = IF page[t] = 2 THEN Erased ELSE @]
  /\ IF page[t] = 2 THEN Return(t) ELSE UNCHANGED <<pc, todo>>

\* The next page of a partition, until all are written; the buffer is freed.
NextPage(t) ==
  /\ page' = [page EXCEPT ![t] = 3 - @]
  /\ buf' = [buf EXCEPT ![t] = IF page[t] = 2 THEN Erased ELSE @]
  /\ IF page[t] = 2 THEN Return(t) ELSE UNCHANGED <<pc, todo>>

\* Task t writes a page of data to a partition whose content is b.
Program(t, b, data) == [b EXCEPT ![page[t]] = And(@, data[page[t]])]

Init ==
  /\ device = [p \in Page |-> 0] /\ device1 = Erased /\ g = Erased
  /\ stations = [s \in Station |-> s] /\ book = stations
  /\ lock = NULL
  /\ pc = [t \in Runner |-> IF t = Main THEN "read" ELSE "off"]
  /\ page = [t \in Runner |-> 1]
  /\ todo = [t \in Runner |-> <<>>]
  /\ buf = [t \in Runner |-> Erased]
  /\ sector = [t \in Runner |-> [s \in Station |-> Ones]]
  /\ jobs = [t \in Runner |-> <<>>]
  /\ arg = [t \in Runner |-> 0]
  /\ volume = 0 /\ written = 0 /\ stored = 0 /\ timer = FALSE
  /\ raced = FALSE
  /\ changes = 0 /\ crashes = 0 /\ damaged = {}

-----------------------------------------------------------------------------
(* app_state_init, in app_main before any other task exists *)

BootRead ==
  /\ pc[Main] = "read"
  /\ g' = device /\ volume' = stored /\ written' = stored
  /\ Go(Main, IF Valid(device) THEN "start" ELSE "restore")
  /\ UNCHANGED <<device, device1, stations, lock, page, todo, buf, sector,
                 jobs, arg, stored, timer, raced, changes, crashes, hist>>

\* eeprom_restore_device_settings
Restore ==
  /\ pc[Main] = "restore"
  /\ buf' = [buf EXCEPT ![Main] = device1]
  /\ device' = Erased
  /\ Go(Main, "restore write")
  /\ todo' = [todo EXCEPT ![Main] = <<"reread">>]
  /\ UNCHANGED <<device1, stations, g, lock, page, sector, jobs, nvs, changes,
                 crashes, hist>>

RestoreWrite ==
  /\ pc[Main] = "restore write"
  /\ device' = Program(Main, device, buf[Main])
  /\ NextPage(Main)
  /\ UNCHANGED <<device1, stations, g, lock, sector, jobs, nvs, changes,
                 crashes, hist>>

Lost_m == ~Valid(g)
Lost   == ~Valid(device)

\* With neither copy valid all is erased, the stations too.
Reread ==
  /\ pc[Main] = "reread"
  /\ g' = device
  /\ IF ~Lost
     THEN Go(Main, "start") /\ UNCHANGED todo
     ELSE /\ Go(Main, "erase device")
          /\ todo' = [todo EXCEPT ![Main] = <<"default">>]
  /\ UNCHANGED <<device, device1, stations, lock, page, buf, sector, jobs, nvs,
                 changes, crashes, hist>>

Default ==
  /\ pc[Main] = "default"
  /\ g' = [p \in Page |-> 0]
  /\ Go(Main, "save")
  /\ todo' = [todo EXCEPT ![Main] = <<"start">>]
  /\ UNCHANGED <<device, device1, stations, lock, page, buf, sector, jobs, nvs,
                 changes, crashes, hist>>

\* The tasks that take requests are created at the end.
Started == [t \in Runner |-> "idle"]

\* The record of a reset has no name for the radio, what is no record has none
\* that ends: it gets one in memory.  No request takes the name away.
Named(v) == v \in Nat \ {0}

Start ==
  /\ pc[Main] = "start"
  /\ pc' = Started
  /\ g' = IF Named(g[2]) THEN g ELSE [g EXCEPT ![2] = Adjusted(@)]
  /\ UNCHANGED <<device, device1, stations, lock, page, todo, buf, sector,
                 jobs, nvs, changes, crashes, hist>>

\* The same later: the kind of display that was found, the name given to the
\* servers of stations, the screen the display shows when nothing happens.
Adjust ==
  /\ pc[Main] = "idle"
  /\ changes < MaxChange /\ changes' = changes + 1
  /\ \E p \in Page : g' = [g EXCEPT ![p] = Adjusted(@)]
  /\ UNCHANGED <<device, device1, stations, lock, pc, page, todo, buf, sector,
                 jobs, nvs, crashes, hist>>

-----------------------------------------------------------------------------
(* eeprom_save_device_settings(g_device) *)

ForSave_m(b) == b
ForSave(b) == Erased

SaveErase(t) ==
  /\ pc[t] = "save" /\ lock = NULL
  /\ lock' = t
  /\ device' = ForSave(device)
  /\ Go(t, "save write")
  /\ UNCHANGED <<device1, stations, g, page, todo, buf, sector, jobs, nvs,
                 changes, crashes, hist>>

\* The lock when task t has written the page it is at.
Unlocked_m(t) == lock
Unlocked(t) == IF page[t] = 2 THEN NULL ELSE lock

SaveWrite(t) ==
  /\ pc[t] = "save write"
  /\ device' = Program(t, device, g)
  /\ lock' = Unlocked(t)
  /\ NextPage(t)
  /\ UNCHANGED <<device1, stations, g, sector, jobs, nvs, changes,
                 crashes, hist>>

(* eeprom_copy_device_settings, which takes no lock *)

Copy(t) ==
  /\ pc[t] = "copy"
  /\ buf' = [buf EXCEPT ![t] = device]
  /\ Go(t, "copy erase")
  /\ UNCHANGED <<device, device1, stations, g, lock, page, todo, sector, jobs,
                 nvs, changes, crashes, hist>>

CopyErase(t) ==
  /\ pc[t] = "copy erase"
  /\ device1' = Erased
  /\ Go(t, "copy write")
  /\ UNCHANGED <<device, stations, g, lock, page, todo, buf, sector, jobs,
                 nvs, changes, crashes, hist>>

CopyWrite(t) ==
  /\ pc[t] = "copy write"
  /\ device1' = Program(t, device1, buf[t])
  /\ NextPage(t)
  /\ UNCHANGED <<device, stations, g, lock, sector, jobs, nvs, changes,
                 crashes, hist>>

-----------------------------------------------------------------------------
(* eeprom_erase_all and eeprom_erase_webstations: zeros over what is there *)

AllZeros == [p \in Page |-> Zeros]

EraseDevice(t) ==
  /\ pc[t] = "erase device"
  /\ device' = Program(t, device, AllZeros)
  /\ page' = [page EXCEPT ![t] = 3 - @]
  /\ IF page[t] = 2 THEN Go(t, "erase device1") ELSE UNCHANGED pc
  /\ UNCHANGED <<device1, stations, g, lock, todo, buf, sector, jobs, nvs,
                 changes, crashes, hist>>

NoStations == <<[s \in Station |-> Zeros]>>

EraseDevice1(t) ==
  /\ pc[t] = "erase device1"
  /\ device1' = Program(t, device1, AllZeros)
  /\ page' = [page EXCEPT ![t] = 3 - @]
  /\ IF page[t] = 2
     THEN Go(t, "clear") /\ jobs' = [jobs EXCEPT ![t] = NoStations]
     ELSE UNCHANGED <<pc, jobs>>
  /\ UNCHANGED <<device, stations, g, lock, todo, buf, sector, nvs, changes,
                 crashes, hist>>

\* What is left of task t's jobs when sector k is done, and on to the next
\* sector at l, to the next job, or out of the call.
LeftAfter(t, k) ==
  LET job  == Head(jobs[t])
      left == Restrict(job, DOMAIN job \ InSector(k))
  IN IF DOMAIN left = {} THEN Tail(jobs[t]) ELSE <<left>> \o Tail(jobs[t])

NextSector(t, l) ==
  /\ jobs' = [jobs EXCEPT ![t] = LeftAfter(t, At(t))]
  /\ IF DOMAIN Head(jobs[t]) \subseteq InSector(At(t))
     THEN Return(t)
     ELSE Go(t, l) /\ UNCHANGED todo

\* The tasks that have read sector k and not written it back yet.
Rewriting(k) ==
  {t \in Runner : pc[t] \in {"set erase", "set write"} /\ At(t) = k}

ClearSector(t) ==
  /\ pc[t] = "clear"
  /\ LET k == At(t)
         Cleared(f) == [s \in Station |-> IF s \in InSector(k) THEN Zeros
                                                              ELSE f[s]]
     IN /\ stations' = Cleared(stations)
        /\ book' = Cleared(book)
        /\ damaged' = damaged \cup IF Rewriting(k) = {} THEN {} ELSE {k}
  /\ NextSector(t, "clear")
  /\ UNCHANGED <<device, device1, g, lock, page, buf, sector, nvs, changes,
                 crashes>>

-----------------------------------------------------------------------------
(* eeprom_set_data: a sector is read, erased and written back with the *)
(* stations of the job in their places; no lock is taken               *)

SetRead(t) ==
  /\ pc[t] = "set"
  /\ sector' = [sector EXCEPT ![t] =
                  [s \in Station |-> IF SectorOf(s) = At(t) THEN stations[s]
                                                           ELSE Ones]]
  /\ Go(t, "set erase")
  /\ damaged' = damaged \cup IF Rewriting(At(t)) = {} THEN {} ELSE {At(t)}
  /\ UNCHANGED <<device, device1, stations, g, lock, page, todo, buf, jobs,
                 nvs, changes, crashes, book>>

SetErase(t) ==
  /\ pc[t] = "set erase"
  /\ stations' = [s \in Station |-> IF SectorOf(s) = At(t) THEN Ones
                                                          ELSE stations[s]]
  /\ Go(t, "set write")
  /\ UNCHANGED <<device, device1, g, lock, page, todo, buf, sector, jobs, nvs,
                 changes, crashes, hist>>

\* What is written of station s: the job's, or what was read.
Merged_m(t, s) == IF s \in DOMAIN Head(jobs[t]) THEN Head(jobs[t])[s] ELSE Ones
Merged(t, s) == IF s \in DOMAIN Head(jobs[t]) THEN Head(jobs[t])[s]
                                              ELSE sector[t][s]

SetWrite(t) ==
  /\ pc[t] = "set write"
  /\ stations' = [s \in Station |-> IF SectorOf(s) = At(t)
                                     THEN And(stations[s], Merged(t, s))
                                     ELSE stations[s]]
  /\ book' = [s \in Station |->
               IF SectorOf(s) = At(t) /\ s \in DOMAIN Head(jobs[t])
               THEN Head(jobs[t])[s] ELSE book[s]]
  /\ sector' = [sector EXCEPT ![t] = [s \in Station |-> Ones]]
  /\ NextSector(t, "set")
  /\ UNCHANGED <<device, device1, g, lock, page, buf, nvs, changes, crashes,
                 damaged>>

-----------------------------------------------------------------------------
(* The volume: app_state_set_ivol, the timer and NVS *)

TimerStarted_m == timer
TimerStarted   == TRUE

SetNvs(t) ==
  /\ pc[t] = "nvs"
  /\ written' = arg[t] /\ arg' = [arg EXCEPT ![t] = 0]
  /\ timer' = TimerStarted
  /\ Return(t)
  /\ UNCHANGED <<device, device1, stations, g, lock, page, buf, sector, jobs,
                 volume, stored, raced, changes, crashes, hist>>

\* update_settings_cb, 30 s after the last change
Commit ==
  /\ timer
  /\ timer' = FALSE /\ stored' = written
  /\ UNCHANGED <<device, device1, stations, g, lock, pc, page, todo, buf,
                 sector, jobs, arg, volume, written, raced, changes, crashes,
                 hist>>

\* NVS may write before it is told to commit.
Flush ==
  /\ stored # written
  /\ stored' = written
  /\ UNCHANGED <<device, device1, stations, g, lock, pc, page, todo, buf,
                 sector, jobs, arg, volume, written, timer, raced, changes,
                 crashes, hist>>

-----------------------------------------------------------------------------
(* Requests *)

Fresh == changes + 1

Ask(t, op) ==
  /\ pc[t] = "idle" /\ t # Main /\ op \in Op
  /\ changes < MaxChange
  /\ changes' = changes + 1

Begin(t, first, rest) ==
  /\ pc' = [pc EXCEPT ![t] = first]
  /\ todo' = [todo EXCEPT ![t] = rest]

\* A handler changes *g_device and saves it; the wifi form then makes the
\* backup and restarts, wifi.con makes the backup.
Change(t) ==
  /\ \/ Ask(t, "theme")   /\ Begin(t, "save", <<>>)
     \/ Ask(t, "wifi")    /\ Begin(t, "save", <<"copy", "restart">>)
     \/ Ask(t, "connect") /\ Begin(t, "save", <<"copy">>)
  /\ g' = [p \in Page |-> 2 * Fresh]
  /\ UNCHANGED <<device, device1, stations, lock, page, buf, sector, jobs,
                 nvs, crashes, hist>>

\* cli.edit saves one station, /setStation some in a row.
Edit(t) ==
  /\ Ask(t, "station") /\ Begin(t, "set", <<>>)
  /\ \E a, b \in Station :
       /\ a <= b
       /\ jobs' = [jobs EXCEPT ![t] = <<[s \in a .. b |-> NStations + Fresh]>>]
  /\ UNCHANGED <<device, device1, stations, g, lock, page, buf, sector, nvs,
                 crashes, hist>>

\* ipradio_move_post_handler: two stations are read, then saved in turn.
Move(t) ==
  /\ Ask(t, "move") /\ Begin(t, "set", <<"set">>)
  /\ \E prev, curr \in Station :
       jobs' = [jobs EXCEPT ![t] = <<[s \in {curr} |-> stations[prev]],
                                    [s \in {prev} |-> stations[curr]]>>]
  /\ UNCHANGED <<device, device1, stations, g, lock, page, buf, sector, nvs,
                 crashes, hist>>

Erase(t) ==
  /\ \/ Ask(t, "erase") /\ Begin(t, "erase device", <<>>) /\ UNCHANGED jobs
     \/ /\ Ask(t, "clear") /\ Begin(t, "clear", <<>>)
        /\ jobs' = [jobs EXCEPT ![t] = NoStations]
  /\ UNCHANGED <<device, device1, stations, g, lock, page, buf, sector, nvs,
                 crashes, hist>>

SetVolume(t) ==
  /\ Ask(t, "volume") /\ Begin(t, "nvs", <<>>)
  /\ volume' = Fresh
  /\ arg' = [arg EXCEPT ![t] = Fresh]
  /\ raced' = \E u \in Runner : pc[u] = "nvs"
  /\ UNCHANGED <<device, device1, stations, g, lock, page, buf, sector, jobs,
                 written, stored, timer, crashes, hist>>

-----------------------------------------------------------------------------
\* All that is in memory is lost; a sector that was erased stays so.
Reboot ==
  /\ pc' = [t \in Runner |-> IF t = Main THEN "read" ELSE "off"]
  /\ page' = [t \in Runner |-> 1]
  /\ todo' = [t \in Runner |-> <<>>]
  /\ buf' = [t \in Runner |-> Erased]
  /\ sector' = [t \in Runner |-> [s \in Station |-> Ones]]
  /\ jobs' = [t \in Runner |-> <<>>]
  /\ arg' = [t \in Runner |-> 0]
  /\ g' = Erased /\ lock' = NULL
  /\ volume' = 0 /\ written' = stored /\ timer' = FALSE /\ raced' = FALSE
  /\ damaged' = damaged \cup {At(t) : t \in {u \in Runner : pc[u] = "set write"}}
  /\ UNCHANGED <<device, device1, stations, stored, changes, book>>

\* esp_restart, after the wifi form
Restart(t) == pc[t] = "restart" /\ Reboot /\ UNCHANGED crashes

Crash ==
  /\ crashes < MaxCrash /\ crashes' = crashes + 1
  /\ Reboot

-----------------------------------------------------------------------------
Boot    == BootRead \/ Restore \/ RestoreWrite \/ Reread \/ Default \/ Start
Work(t) == \/ SaveErase(t) \/ SaveWrite(t)
           \/ Copy(t) \/ CopyErase(t) \/ CopyWrite(t)
           \/ EraseDevice(t) \/ EraseDevice1(t) \/ ClearSector(t)
           \/ SetRead(t) \/ SetErase(t) \/ SetWrite(t)
           \/ SetNvs(t) \/ Restart(t)
Request(t) == Change(t) \/ Edit(t) \/ Move(t) \/ Erase(t) \/ SetVolume(t)

Next == \/ Boot \/ Adjust \/ Commit \/ Flush \/ Crash
        \/ \E t \in Runner : Work(t) \/ Request(t)

Spec == Init /\ [][Next]_vars

\* Every task is scheduled and the timer service runs; nobody has to ask.
FairSpec == /\ Spec /\ WF_vars(Boot) /\ WF_vars(Commit)
            /\ \A t \in Runner : WF_vars(Work(t))

-----------------------------------------------------------------------------
Label == {"idle", "off", "read", "restore", "restore write", "reread",
          "default", "start", "save", "save write", "copy", "copy erase",
          "copy write", "erase device", "erase device1", "clear", "set",
          "set erase", "set write", "nvs", "restart"}
Todo  == {<<>>, <<"reread">>, <<"default">>, <<"start">>, <<"copy">>,
          <<"restart">>, <<"copy", "restart">>, <<"set">>}
InSet == {"clear", "set", "set erase", "set write"}

\* Every variable keeps to its type, and who works on the stations partition
\* has a job for it.
TypeOK ==
  /\ device \in Block /\ device1 \in Block /\ g \in Block
  /\ stations \in [Station -> Cell] /\ book \in [Station -> Cell]
  /\ lock \in Runner \cup {NULL}
  /\ pc \in [Runner -> Label] /\ page \in [Runner -> Page]
  /\ todo \in [Runner -> Todo]
  /\ buf \in [Runner -> Block]
  /\ sector \in [Runner -> [Station -> Cell]]
  /\ \A t \in Runner : \A i \in DOMAIN jobs[t] :
       /\ jobs[t][i] \in [DOMAIN jobs[t][i] -> Cell]
       /\ DOMAIN jobs[t][i] \in (SUBSET Station) \ {{}}
  /\ \A t \in Runner : pc[t] \in InSet => jobs[t] # <<>>
  /\ arg \in [Runner -> Nat]
  /\ {volume, written, stored, changes, crashes} \subseteq Nat
  /\ timer \in BOOLEAN /\ raced \in BOOLEAN
  /\ damaged \subseteq Sector

\* When no request is being served and the radio is up, the flash holds the
\* settings that are in use, but for the fields the code changes without a save,
\* or what a factory reset has left: requests that change them at the same time,
\* those fields changed under a save, and a loss of power in any of them, leave
\* no others (eeprom_save_device_settings, app_state_init).
IdleMeansSaved ==
  (\A t \in Runner : pc[t] = "idle") =>
    \A p \in Page : device[p] \in {g[p], Zeros} \/ g[p] = Adjusted(device[p])

\* A station that was saved is still there, unless two requests rewrote its
\* sector at the same time or the power failed while it was erased: the loop
\* of eeprom_set_data leaves the other stations of its sectors as they were.
StationsKept ==
  \A s \in Station :
    \/ SectorOf(s) \in damaged
    \/ \E t \in Runner : pc[t] = "set write" /\ At(t) = SectorOf(s)
    \/ stations[s] = book[s]

\* A start that finds a valid backup never touches it or the stations, however
\* often the power fails before it is through (app_state_init, 156-175).
Starting == pc[Main] \notin {"idle", "off"}
BackupSparesStations ==
  [][Starting /\ Valid(device1) => UNCHANGED <<device1, stations>>]_vars

\* Whatever a task is asked, it is done with it some day, and after a restart
\* it is there again: the lock is always given back and the start always ends.
RequestsEnd == \A t \in Task : pc[t] # "idle" ~> pc[t] = "idle"

\* Once nobody changes the volume any more, the one in use is the one stored,
\* unless another task was between its two writes when it was set: the volume
\* and NVS are written one after the other with no lock (app_state_set_ivol,
\* update_settings_cb).
VolumeStored == <>[](stored = volume \/ raced)
====
