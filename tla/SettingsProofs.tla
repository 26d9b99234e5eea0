--------------------------- MODULE SettingsProofs ---------------------------
(***************************************************************************)
(* Proofs about Settings, for every number of tasks, stations, changes and   *)
(* losses of power: the settings in flash are those in use when all is       *)
(* quiet, and a start spares a valid backup and the stations.               *)
(***************************************************************************)
EXTENDS Settings, WellFoundedInduction, TLAPS

\* Where app_main and the other tasks are, with what they have still to do.
MainPlan ==
  {<<l, <<>>>> : l \in {"idle", "read", "restore", "reread", "default", "start"}}
  \cup {<<"restore write", <<"reread">>>>}
  \cup {<<l, <<"default">>>> : l \in {"erase device", "erase device1", "clear"}}
  \cup {<<l, <<"start">>>> : l \in {"save", "save write"}}
TaskPlan ==
  {<<l, <<>>>> : l \in {"idle", "erase device", "erase device1", "clear", "nvs",
                        "restart"}}
  \cup {<<l, <<"copy", "restart">>>> : l \in {"save", "save write"}}
  \cup {<<l, <<"copy">>>> : l \in {"save", "save write"}}
  \cup {<<l, <<>>>> : l \in {"save", "save write"}}
  \cup {<<l, <<"restart">>>> : l \in {"copy", "copy erase", "copy write"}}
  \cup {<<l, <<>>>> : l \in {"copy", "copy erase", "copy write"}}
  \cup {<<l, <<"set">>>> : l \in {"set", "set erase", "set write"}}
  \cup {<<l, <<>>>> : l \in {"set", "set erase", "set write"}}

\* The labels at which a partition is written page by page.
Paging == {"save write", "restore write", "copy write", "erase device",
           "erase device1"}

\* While app_main starts, no other task exists; afterwards it does nothing.
Alone ==
  /\ <<pc[Main], todo[Main]>> \in MainPlan
  /\ \A t \in Task : IF pc[Main] = "idle" THEN <<pc[t], todo[t]>> \in TaskPlan
                                          ELSE pc[t] = "off" /\ todo[t] = <<>>

Control ==
  /\ pc \in [Runner -> Label] /\ todo \in [Runner -> Todo]
  /\ page \in [Runner -> Page]
  /\ Alone
  /\ \A t \in Runner : pc[t] \notin Paging => page[t] = 1
  /\ \A t \in Runner : lock = t <=> pc[t] = "save write"

-----------------------------------------------------------------------------
\* The two ways of a task to be somewhere.
LEMMA Who ==
  ASSUME Control, NEW t \in Runner
  PROVE  \/ t = Main /\ t \notin Task /\ <<pc[t], todo[t]>> \in MainPlan
         \/ /\ t # Main /\ t \in Task /\ pc[Main] = "idle"
            /\ <<pc[t], todo[t]>> \in TaskPlan
         \/ /\ t # Main /\ t \in Task /\ pc[Main] # "idle"
            /\ pc[t] = "off"
BY SettingsAssumption DEF Control, Alone, Runner, Main

\* A task that goes on as planned keeps the control.
LEMMA Moved ==
  ASSUME Control, NEW t \in Runner, NEW l \in Label, NEW q \in Todo,
         NEW r \in Page,
         pc' = [pc EXCEPT ![t] = l], todo' = [todo EXCEPT ![t] = q],
         page' = [page EXCEPT ![t] = r],
         pc[t] # "off",
         t = Main => pc[t] # "idle" /\ l # "idle" /\ <<l, q>> \in MainPlan,
         t # Main => <<l, q>> \in TaskPlan,
         l \notin Paging => r = 1,
         lock' = IF l = "save write" THEN t
                 ELSE IF pc[t] = "save write" THEN NULL ELSE lock,
         l = "save write" /\ pc[t] # "save write" => lock = NULL
  PROVE  Control'
<1>1. /\ pc' \in [Runner -> Label] /\ todo' \in [Runner -> Todo]
      /\ page' \in [Runner -> Page]
  BY DEF Control
<1>2. Main \in Runner /\ Task \subseteq Runner /\ Main \notin Task
  BY SettingsAssumption DEF Runner, Main
<1>3. \A u \in Runner : /\ pc'[u] = IF u = t THEN l ELSE pc[u]
                        /\ todo'[u] = IF u = t THEN q ELSE todo[u]
                        /\ page'[u] = IF u = t THEN r ELSE page[u]
  BY DEF Control
<1>4. Alone'
  <2>1. <<pc'[Main], todo'[Main]>> \in MainPlan
    BY <1>2, <1>3 DEF Control, Alone
  <2>2. pc'[Main] = "idle" <=> pc[Main] = "idle"
    BY <1>2, <1>3
  <2>3. t # Main => pc[Main] = "idle"
    BY <1>2 DEF Control, Alone, Runner
  <2>4. ASSUME NEW u \in Task
        PROVE  IF pc'[Main] = "idle" THEN <<pc'[u], todo'[u]>> \in TaskPlan
                                     ELSE pc'[u] = "off" /\ todo'[u] = <<>>
    BY <1>2, <1>3, <2>2, <2>3 DEF Control, Alone
  <2> QED  BY <2>1, <2>4 DEF Alone
<1>5. \A u \in Runner : pc'[u] \notin Paging => page'[u] = 1
  BY <1>3 DEF Control
<1>6. NULL \notin Runner
  BY SettingsAssumption DEF Runner, Main
<1>7. \A u \in Runner : lock' = u <=> pc'[u] = "save write"
  BY <1>3, <1>6 DEF Control
<1> QED  BY <1>1, <1>4, <1>5, <1>7 DEF Control

LEMMA Pages ==
  /\ 1 \in Page /\ 2 \in Page /\ 3 - 1 = 2 /\ 3 - 2 = 1 /\ 1 # 2
  /\ \A p \in Page : (p = 1 \/ p = 2) /\ 3 - p \in Page /\ 1 <= p
BY DEF Page

\* What is left of a request, and where it goes on.
LEMMA Popped ==
  ASSUME NEW q \in Todo, q # <<>>
  PROVE  /\ Head(q) \in Label /\ Tail(q) \in Todo
         /\ q = <<"copy", "restart">> => Head(q) = "copy" /\ Tail(q) = <<"restart">>
         /\ q # <<"copy", "restart">> => q = <<Head(q)>> /\ Tail(q) = <<>>
<1>1. CASE q = <<"copy", "restart">>
  <2>1. Head(q) = "copy" /\ Tail(q) = <<"restart">>
    BY <1>1
  <2> QED  BY <1>1, <2>1 DEF Todo, Label
<1>2. CASE q # <<"copy", "restart">>
  <2>1. PICK l \in {"reread", "default", "start", "copy", "restart", "set"} :
           q = <<l>>
    BY <1>2 DEF Todo
  <2>2. Head(q) = l /\ Tail(q) = <<>>
    BY <2>1
  <2> QED  BY <1>2, <2>1, <2>2 DEF Todo, Label
<1> QED  BY <1>1, <1>2

LEMMA OneLeft ==
  ASSUME NEW x
  PROVE  /\ <<x>> # <<>> /\ <<x>> # <<"copy", "restart">>
         /\ Head(<<x>>) = x /\ Tail(<<x>>) = <<>>
         /\ <<"copy", "restart">> # <<>>
         /\ x # "set" => <<x>> # <<"set">>
<1>1. Len(<<x>>) = 1 /\ Len(<<"copy", "restart">>) = 2 /\ Len(<<>>) = 0
  OBVIOUS
<1>2. Head(<<x>>) = x /\ Tail(<<x>>) = <<>>
  OBVIOUS
<1> QED  BY <1>1, <1>2

\* A call that returns goes on with the rest of the request, as planned.
LEMMA Returned ==
  ASSUME Control, NEW t \in Runner, Return(t),
         pc[t] \in {"restore write", "save write", "copy write", "clear",
                   "set write", "nvs"},
         page' = [page EXCEPT ![t] = 1],
         lock' = IF pc[t] = "save write" THEN NULL ELSE lock
  PROVE  /\ Control' /\ pc'[t] \notin Paging \cup {"save"}
         /\ pc'[t] \notin {"set erase", "set write", "clear"}
         /\ pc'[t] = "set" => todo[t] = <<"set">>
         /\ todo'[t] # <<"set">>
<1> DEFINE q == todo[t]
           l == IF q = <<>> THEN "idle" ELSE Head(q)
           r == IF q = <<>> THEN q ELSE Tail(q)
<1>1. q \in Todo /\ l \in Label /\ r \in Todo
  BY Popped DEF Control, Todo, Label
<1>2. pc' = [pc EXCEPT ![t] = l] /\ todo' = [todo EXCEPT ![t] = r]
  BY DEF Return, Control
<1>3. /\ l \notin Paging \cup {"save", "set erase", "set write", "clear"}
      /\ l = "set" => q = <<"set">>
      /\ r # <<"set">>
      /\ t = Main => l # "idle" /\ <<l, r>> \in MainPlan
      /\ t # Main => <<l, r>> \in TaskPlan
  <2>1. CASE t = Main
    <3>1. PICK x \in {"reread", "default", "start"} : q = <<x>>
      BY <2>1, Who DEF MainPlan
    <3>2. l = x /\ r = <<>>
      BY <3>1, OneLeft
    <3> HIDE DEF l, r
    <3> QED  BY <2>1, <3>2 DEF MainPlan, Paging
  <2>2. CASE t # Main
    <3>1. <<pc[t], q>> \in TaskPlan
      BY <2>2, Who
    <3>2. CASE q = <<>>
      <4>1. l = "idle" /\ r = <<>>
        BY <3>2
      <4> HIDE DEF l, r
      <4> QED  BY <2>2, <4>1 DEF TaskPlan, Paging
    <3>3. CASE q = <<"copy", "restart">>
      <4>1. l = "copy" /\ r = <<"restart">>
        BY <1>1, <3>3, OneLeft, Popped
      <4> HIDE DEF l, r
      <4> QED  BY <2>2, <4>1 DEF TaskPlan, Paging
    <3>4. CASE q # <<>> /\ q # <<"copy", "restart">>
      <4>1. PICK x \in {"copy", "restart", "set"} : q = <<x>>
        BY <3>1, <3>4 DEF TaskPlan
      <4>2. l = x /\ r = <<>>
        BY <4>1, OneLeft
      <4> HIDE DEF l, r
      <4>3. r # <<"set">> /\ (l = "set" => q = <<"set">>)
        BY <4>1, <4>2, OneLeft
      <4> QED  BY <2>2, <4>2, <4>3 DEF TaskPlan, Paging
    <3> QED  BY <3>2, <3>3, <3>4
  <2> QED  BY <2>1, <2>2
<1> HIDE DEF l, r
<1>4. /\ l # "save write" /\ pc[t] \notin {"off", "idle"}
      /\ pc'[t] = l /\ todo'[t] = r
  BY <1>2, <1>3 DEF Control, Paging
<1>5. Control'
  BY <1>1, <1>2, <1>3, <1>4, Pages, Moved
<1> QED  BY <1>3, <1>4, <1>5

\* A page is written: the same task goes on, or its call returns.
LEMMA Paged ==
  ASSUME Control, NEW t \in Runner, NextPage(t),
         pc[t] \in {"restore write", "save write", "copy write"},
         lock' = IF pc[t] = "save write" THEN Unlocked(t) ELSE lock
  PROVE  /\ Control'
         /\ page[t] = 1 => pc' = pc /\ page' = [page EXCEPT ![t] = 2]
         /\ page[t] = 2 => /\ pc'[t] \notin Paging \cup {"save"}
                           /\ pc'[t] \notin {"set erase", "set write", "clear"}
                           /\ pc'[t] = "set" => todo[t] = <<"set">>
                           /\ todo'[t] # <<"set">>
<1>1. page[t] \in {1, 2} /\ page' = [page EXCEPT ![t] = 3 - page[t]]
  BY Pages DEF Control, NextPage
<1>2. CASE page[t] = 2
  <2>1. page' = [page EXCEPT ![t] = 1]
    BY <1>1, <1>2, Pages
  <2>2. lock' = IF pc[t] = "save write" THEN NULL ELSE lock
    BY <1>2 DEF Unlocked
  <2>3. Return(t)
    BY <1>2 DEF NextPage
  <2>4. /\ Control' /\ pc'[t] \notin Paging \cup {"save"}
        /\ pc'[t] \notin {"set erase", "set write", "clear"}
        /\ pc'[t] = "set" => todo[t] = <<"set">>
        /\ todo'[t] # <<"set">>
    BY <2>1, <2>2, <2>3, Returned
  <2> QED  BY <1>2, <2>4, Pages
<1>3. CASE page[t] = 1
  <2>1. pc' = pc /\ page' = [page EXCEPT ![t] = 2] /\ todo' = todo
    BY <1>1, <1>3, Pages DEF NextPage
  <2>2. lock' = lock
    BY <1>3, Pages DEF Unlocked
  <2>3. page' \in [Runner -> Page] /\ \A u \in Runner : u # t => page'[u] = page[u]
    BY <2>1, Pages DEF Control
  <2>4. Control'
    BY <2>1, <2>2, <2>3 DEF Control, Alone, Paging
  <2> QED  BY <1>3, <2>1, <2>4, Pages
<1> QED  BY <1>1, <1>2, <1>3

\* The radio is started, again or for the first time.
LEMMA Restarted ==
  ASSUME pc' = [t \in Runner |-> IF t = Main THEN "read" ELSE "off"],
         page' = [t \in Runner |-> 1], todo' = [t \in Runner |-> <<>>],
         lock' = NULL
  PROVE  Control'
<1>1. Main \in Runner /\ Task \subseteq Runner /\ Main \notin Task /\ NULL \notin Runner
  BY SettingsAssumption DEF Runner, Main
<1>2. Alone'
  BY <1>1 DEF Alone, MainPlan
<1>3. /\ pc' \in [Runner -> Label] /\ todo' \in [Runner -> Todo]
      /\ page' \in [Runner -> Page]
  BY Pages DEF Label, Todo
<1>4. \A t \in Runner : pc'[t] # "save write" /\ page'[t] = 1 /\ lock' # t
  BY <1>1
<1> QED  BY <1>2, <1>3, <1>4 DEF Control

\* app_main is through, and the tasks begin.
LEMMA Through ==
  ASSUME Control, pc[Main] = "start", pc' = Started,
         UNCHANGED <<todo, page, lock>>
  PROVE  Control'
<1>1. Main \in Runner /\ Task \subseteq Runner /\ Main \notin Task
  BY SettingsAssumption DEF Runner, Main
<1>2. /\ todo[Main] = <<>>
      /\ \A t \in Task : pc[t] = "off" /\ todo[t] = <<>>
  BY DEF Control, Alone, MainPlan
<1>3. Alone'
  BY <1>1, <1>2 DEF Alone, MainPlan, TaskPlan, Started
<1>4. \A t \in Runner : pc[t] \notin Paging /\ pc[t] # "save write"
  BY <1>2 DEF Runner, Main, Paging
<1>5. \A t \in Runner : /\ page'[t] = 1 /\ lock' # t
                        /\ pc'[t] # "save write"
  BY <1>4 DEF Control, Started
<1>6. pc' \in [Runner -> Label]
  BY DEF Started, Label
<1> QED  BY <1>3, <1>5, <1>6 DEF Control

\* A step that leaves the page alone and does not take or give back the lock.
LEMMA Onward ==
  ASSUME Control, NEW t \in Runner, NEW l \in Label, NEW q \in Todo,
         pc' = [pc EXCEPT ![t] = l], todo' = [todo EXCEPT ![t] = q],
         page' = page, lock' = lock,
         pc[t] \notin Paging \cup {"off"}, l # "save write",
         t = Main => pc[t] # "idle" /\ l # "idle" /\ <<l, q>> \in MainPlan,
         t # Main => <<l, q>> \in TaskPlan
  PROVE  Control'
<1>1. page[t] = 1 /\ page' = [page EXCEPT ![t] = 1]
  BY DEF Control
<1>2. pc[t] # "save write" /\ pc[t] # "off"
  BY DEF Paging
<1> QED  BY <1>1, <1>2, Pages, Moved

LEMMA InitControl == Init => Control
<1> SUFFICES ASSUME Init PROVE Control
  OBVIOUS
<1>1. Main \in Runner /\ Task \subseteq Runner /\ Main \notin Task /\ NULL \notin Runner
  BY SettingsAssumption DEF Runner, Main
<1>2. Alone
  BY <1>1 DEF Init, Alone, MainPlan
<1>3. /\ pc \in [Runner -> Label] /\ todo \in [Runner -> Todo]
      /\ page \in [Runner -> Page]
  BY Pages DEF Init, Label, Todo
<1>4. \A t \in Runner : pc[t] # "save write" /\ page[t] = 1 /\ lock # t
  BY <1>1 DEF Init
<1> QED  BY <1>2, <1>3, <1>4 DEF Control

\* Where a task that is at a label is, and what it has still to do.
LEMMA Same ==
  ASSUME Control, NEW t \in Runner, UNCHANGED todo
  PROVE  todo' = [todo EXCEPT ![t] = todo[t]] /\ todo[t] \in Todo
BY DEF Control

LEMMA BootControl == ASSUME Control, Boot PROVE Control'
<1>1. Main \in Runner
  BY DEF Runner
<1>2. CASE BootRead
  <2>1. PICK l \in {"start", "restore"} : pc' = [pc EXCEPT ![Main] = l]
    BY <1>2 DEF BootRead, Go
  <2>2. pc[Main] = "read" /\ <<l, todo[Main]>> \in MainPlan
    BY <1>2 DEF BootRead, Control, Alone, MainPlan
  <2> QED  BY <1>1, <1>2, <2>1, <2>2, Same, Onward DEF BootRead, Label, Paging
<1>3. CASE Restore
  <2>1. <<"restore write", <<"reread">>>> \in MainPlan /\ <<"reread">> \in Todo
    BY DEF MainPlan, Todo
  <2> QED  BY <1>1, <1>3, <2>1, Onward DEF Restore, Go, Label, Paging
<1>4. CASE RestoreWrite
  <2>1. lock' = lock /\ pc[Main] = "restore write" /\ NextPage(Main)
    BY <1>4 DEF RestoreWrite
  <2> QED  BY <1>1, <2>1, Paged
<1>5. CASE Reread
  <2>1. CASE ~Lost
    <3>1. /\ pc[Main] = "reread" /\ pc' = [pc EXCEPT ![Main] = "start"]
          /\ UNCHANGED todo
      BY <1>5, <2>1 DEF Reread, Go
    <3>2. <<"start", todo[Main]>> \in MainPlan
      BY <3>1 DEF Control, Alone, MainPlan
    <3> QED  BY <1>1, <1>5, <3>1, <3>2, Same, Onward DEF Reread, Label, Paging
  <2>2. CASE Lost
    <3>1. /\ pc[Main] = "reread" /\ pc' = [pc EXCEPT ![Main] = "erase device"]
          /\ todo' = [todo EXCEPT ![Main] = <<"default">>]
      BY <1>5, <2>2 DEF Reread, Go
    <3>2. <<"erase device", <<"default">>>> \in MainPlan /\ <<"default">> \in Todo
      BY DEF MainPlan, Todo
    <3> QED  BY <1>1, <1>5, <3>1, <3>2, Onward DEF Reread, Label, Paging
  <2> QED  BY <2>1, <2>2
<1>6. CASE Default
  <2>1. <<"save", <<"start">>>> \in MainPlan /\ <<"start">> \in Todo
    BY DEF MainPlan, Todo
  <2> QED  BY <1>1, <1>6, <2>1, Onward DEF Default, Go, Label, Paging
<1>7. CASE Start
  BY <1>7, Through DEF Start
<1> QED  BY <1>2, <1>3, <1>4, <1>5, <1>6, <1>7 DEF Boot

LEMMA WorkControl ==
  ASSUME Control, NEW t \in Runner, Work(t) PROVE Control'
<1>0. todo[t] \in Todo
  BY DEF Control
<1>1. CASE Copy(t)
  <2>1. t # Main /\ <<"copy erase", todo[t]>> \in TaskPlan
    BY <1>1, Who DEF Copy, MainPlan, TaskPlan
  <2> QED  BY <1>0, <1>1, <2>1, Same, Onward DEF Copy, Go, Label, Paging
<1>2. CASE CopyErase(t)
  <2>1. t # Main /\ <<"copy write", todo[t]>> \in TaskPlan
    BY <1>2, Who DEF CopyErase, MainPlan, TaskPlan
  <2> QED  BY <1>0, <1>2, <2>1, Same, Onward DEF CopyErase, Go, Label, Paging
<1>3. CASE SetRead(t)
  <2>1. t # Main /\ <<"set erase", todo[t]>> \in TaskPlan
    BY <1>3, Who DEF SetRead, MainPlan, TaskPlan
  <2> QED  BY <1>0, <1>3, <2>1, Same, Onward DEF SetRead, Go, Label, Paging
<1>4. CASE SetErase(t)
  <2>1. t # Main /\ <<"set write", todo[t]>> \in TaskPlan
    BY <1>4, Who DEF SetErase, MainPlan, TaskPlan
  <2> QED  BY <1>0, <1>4, <2>1, Same, Onward DEF SetErase, Go, Label, Paging
<1>5. CASE SaveErase(t)
  <2>1. /\ t = Main => <<"save write", todo[t]>> \in MainPlan
        /\ t # Main => <<"save write", todo[t]>> \in TaskPlan
        /\ pc[t] = "save" /\ lock = NULL /\ lock' = t
        /\ pc' = [pc EXCEPT ![t] = "save write"]
    BY <1>5, Who DEF SaveErase, Go, MainPlan, TaskPlan
  <2>2. page' = [page EXCEPT ![t] = page[t]] /\ page[t] \in Page
    BY <1>5 DEF SaveErase, Control
  <2>3. "save write" \in Label /\ "save write" \in Paging /\ UNCHANGED todo
    BY <1>5 DEF Label, Paging, SaveErase
  <2> QED  BY <1>0, <2>1, <2>2, <2>3, Same, Moved
<1>6. CASE SaveWrite(t)
  <2>1. /\ NextPage(t) /\ pc[t] = "save write" /\ lock' = Unlocked(t)
    BY <1>6 DEF SaveWrite
  <2> QED  BY <2>1, Paged
<1>7. CASE CopyWrite(t)
  <2>1. /\ NextPage(t) /\ pc[t] = "copy write" /\ lock' = lock
    BY <1>7 DEF CopyWrite
  <2> QED  BY <2>1, Paged
<1>8. CASE EraseDevice(t)
  <2> DEFINE l == IF page[t] = 2 THEN "erase device1" ELSE "erase device"
             r == 3 - page[t]
  <2>1. /\ t = Main => <<l, todo[t]>> \in MainPlan
        /\ t # Main => <<l, todo[t]>> \in TaskPlan
    BY <1>8, Who DEF EraseDevice, MainPlan, TaskPlan
  <2>2. pc[t] = "erase device" /\ pc' = [pc EXCEPT ![t] = l]
    BY <1>8 DEF EraseDevice, Go, Control
  <2>3. /\ page' = [page EXCEPT ![t] = r] /\ r \in Page
        /\ l \notin Paging => r = 1
    BY <1>8, Pages DEF EraseDevice, Control, Paging
  <2>4. l \in Label /\ l # "idle" /\ l # "save write"
    BY DEF Label
  <2>5. UNCHANGED <<todo, lock>>
    BY <1>8 DEF EraseDevice
  <2> HIDE DEF l, r
  <2> QED  BY <1>0, <2>1, <2>2, <2>3, <2>4, <2>5, Same, Moved
<1>9. CASE EraseDevice1(t)
  <2> DEFINE l == IF page[t] = 2 THEN "clear" ELSE "erase device1"
             r == 3 - page[t]
  <2>1. /\ t = Main => <<l, todo[t]>> \in MainPlan
        /\ t # Main => <<l, todo[t]>> \in TaskPlan
    BY <1>9, Who DEF EraseDevice1, MainPlan, TaskPlan
  <2>2. pc[t] = "erase device1" /\ pc' = [pc EXCEPT ![t] = l]
    BY <1>9 DEF EraseDevice1, Go, Control
  <2>3. /\ page' = [page EXCEPT ![t] = r] /\ r \in Page
        /\ l \notin Paging => r = 1
    BY <1>9, Pages DEF EraseDevice1, Control, Paging
  <2>4. l \in Label /\ l # "idle" /\ l # "save write"
    BY DEF Label
  <2>5. UNCHANGED <<todo, lock>>
    BY <1>9 DEF EraseDevice1
  <2> HIDE DEF l, r
  <2> QED  BY <1>0, <2>1, <2>2, <2>3, <2>4, <2>5, Same, Moved
<1>10. CASE ClearSector(t)
  <2>1. /\ pc[t] = "clear" /\ UNCHANGED <<page, lock>>
        /\ Return(t) \/ (Go(t, "clear") /\ UNCHANGED todo)
    BY <1>10 DEF ClearSector, NextSector
  <2>2. CASE Return(t)
    <3>1. page' = [page EXCEPT ![t] = 1] /\ lock' = lock
      BY <2>1 DEF Control, Paging
    <3> QED  BY <2>1, <2>2, <3>1, Returned
  <2>3. CASE Go(t, "clear") /\ UNCHANGED todo
    <3>1. /\ t = Main => <<"clear", todo[t]>> \in MainPlan
          /\ t # Main => <<"clear", todo[t]>> \in TaskPlan
      BY <2>1, Who DEF MainPlan, TaskPlan
    <3> QED  BY <1>0, <2>1, <2>3, <3>1, Same, Onward DEF Go, Label, Paging
  <2> QED  BY <2>1, <2>2, <2>3
<1>11. CASE SetWrite(t)
  <2>1. /\ pc[t] = "set write" /\ UNCHANGED <<page, lock>>
        /\ Return(t) \/ (Go(t, "set") /\ UNCHANGED todo)
    BY <1>11 DEF SetWrite, NextSector
  <2>2. CASE Return(t)
    <3>1. page' = [page EXCEPT ![t] = 1] /\ lock' = lock
      BY <2>1 DEF Control, Paging
    <3> QED  BY <2>1, <2>2, <3>1, Returned
  <2>3. CASE Go(t, "set") /\ UNCHANGED todo
    <3>1. /\ t = Main => <<"set", todo[t]>> \in MainPlan
          /\ t # Main => <<"set", todo[t]>> \in TaskPlan
      BY <2>1, Who DEF MainPlan, TaskPlan
    <3> QED  BY <1>0, <2>1, <2>3, <3>1, Same, Onward DEF Go, Label, Paging
  <2> QED  BY <2>1, <2>2, <2>3
<1>12. CASE SetNvs(t)
  <2>1. pc[t] = "nvs" /\ UNCHANGED <<page, lock>> /\ Return(t)
    BY <1>12 DEF SetNvs
  <2>2. page' = [page EXCEPT ![t] = 1] /\ lock' = lock
    BY <2>1 DEF Control, Paging
  <2> QED  BY <2>1, <2>2, Returned
<1>13. CASE Restart(t)
  BY <1>13, Restarted DEF Restart, Reboot
<1> QED  BY <1>1, <1>2, <1>3, <1>4, <1>5, <1>6, <1>7, <1>8, <1>9, <1>10, <1>11, <1>12, <1>13 DEF Work

LEMMA RequestControl ==
  ASSUME Control, NEW t \in Runner, Request(t) PROVE Control'
<1> DEFINE Begins(first, rest) ==
             /\ pc[t] = "idle" /\ t # Main /\ Begin(t, first, rest)
             /\ UNCHANGED <<page, lock>>
<1>1. \E l, q : /\ Begins(l, q) /\ <<l, q>> \in TaskPlan
               /\ l # "save write" /\ l \in Label /\ q \in Todo
  <2>1. CASE Change(t)
    <3>1. \/ Begins("save", <<>>) \/ Begins("save", <<"copy", "restart">>)
          \/ Begins("save", <<"copy">>)
      BY <2>1 DEF Change, Ask
    <3>2. /\ <<"save", <<>>>> \in TaskPlan /\ <<"save", <<"copy">>>> \in TaskPlan
          /\ <<"save", <<"copy", "restart">>>> \in TaskPlan
      BY DEF TaskPlan
    <3>3. /\ "save" \in Label /\ <<>> \in Todo /\ <<"copy">> \in Todo
          /\ <<"copy", "restart">> \in Todo
      BY DEF Label, Todo
    <3> HIDE DEF Begins
    <3> QED  BY <3>1, <3>2, <3>3
  <2>2. CASE Edit(t)
    <3>1. Begins("set", <<>>) /\ <<"set", <<>>>> \in TaskPlan
      BY <2>2 DEF Edit, Ask, TaskPlan
    <3>2. "set" \in Label /\ <<>> \in Todo
      BY DEF Label, Todo
    <3> HIDE DEF Begins
    <3> QED  BY <3>1, <3>2
  <2>3. CASE Move(t)
    <3>1. Begins("set", <<"set">>) /\ <<"set", <<"set">>>> \in TaskPlan
      BY <2>3 DEF Move, Ask, TaskPlan
    <3>2. "set" \in Label /\ <<"set">> \in Todo
      BY DEF Label, Todo
    <3> HIDE DEF Begins
    <3> QED  BY <3>1, <3>2
  <2>4. CASE Erase(t)
    <3>1. Begins("erase device", <<>>) \/ Begins("clear", <<>>)
      BY <2>4 DEF Erase, Ask
    <3>2. <<"erase device", <<>>>> \in TaskPlan /\ <<"clear", <<>>>> \in TaskPlan
      BY DEF TaskPlan
    <3>3. "erase device" \in Label /\ "clear" \in Label /\ <<>> \in Todo
      BY DEF Label, Todo
    <3> HIDE DEF Begins
    <3> QED  BY <3>1, <3>2, <3>3
  <2>5. CASE SetVolume(t)
    <3>1. Begins("nvs", <<>>) /\ <<"nvs", <<>>>> \in TaskPlan
      BY <2>5 DEF SetVolume, Ask, TaskPlan
    <3>2. "nvs" \in Label /\ <<>> \in Todo
      BY DEF Label, Todo
    <3> HIDE DEF Begins
    <3> QED  BY <3>1, <3>2
  <2> QED  BY <2>1, <2>2, <2>3, <2>4, <2>5 DEF Request
<1>2. PICK l, q : /\ Begins(l, q) /\ <<l, q>> \in TaskPlan
                  /\ l # "save write" /\ l \in Label /\ q \in Todo
  BY <1>1
<1> QED  BY <1>2, Onward DEF Begin, Paging

LEMMA NextControl == ASSUME Control, [Next]_vars PROVE Control'
<1>1. CASE Boot
  BY <1>1, BootControl
<1>2. CASE Adjust \/ Commit \/ Flush \/ UNCHANGED vars
  <2>1. UNCHANGED <<pc, todo, page, lock>>
    BY <1>2 DEF Adjust, Commit, Flush, vars
  <2> QED  BY <2>1 DEF Control, Alone
<1>3. CASE Crash
  BY <1>3, Restarted DEF Crash, Reboot
<1>4. CASE \E t \in Runner : Work(t) \/ Request(t)
  BY <1>4, WorkControl, RequestControl
<1> QED  BY <1>1, <1>2, <1>3, <1>4 DEF Next

-----------------------------------------------------------------------------
(* The copies of the settings *)

Blocks == /\ device \in Block /\ device1 \in Block /\ g \in Block
          /\ buf \in [Runner -> Block]
          /\ changes \in Nat

\* What flash may have for what is in use: the same but for fields that are the
\* code's own, or zeros.
Alike(d, v) == d \in {v, Zeros} \/ v = Adjusted(d)

\* While a save is under way the pages that wait to be written are erased;
\* those that are written are the settings in use, or zeros.
Ahead(p) == \E u \in Runner : pc[u] = "save write" /\ page[u] <= p
Saved(p) == IF Ahead(p) THEN device[p] \in {Ones, Zeros}
                        ELSE Alike(device[p], g[p])
Unread   == {"read", "restore", "restore write", "reread"}
Kept     == \/ pc[Main] \in Unread
            \/ \E t \in Runner : pc[t] = "save"
            \/ \A p \in Page : Saved(p)

\* A start that goes on to erase all has found no valid backup.
Restoring ==
  /\ pc[Main] = "restore write" =>
       /\ buf[Main] = device1
       /\ page[Main] = 1 => device[1] = Ones
       /\ page[Main] = 2 => device[1] = device1[1]
  /\ pc[Main] = "reread" => device[1] = device1[1]
  /\ pc[Main] \in {"erase device", "erase device1", "clear"} => ~Valid(device1)

LEMMA AndCell == ASSUME NEW x \in Cell, NEW y \in Cell PROVE And(x, y) \in Cell
BY DEF And, Cell

LEMMA AdjustedCell == ASSUME NEW v \in Cell PROVE Adjusted(v) \in Cell
BY DEF Adjusted, Cell

\* Settings that are alike stay so when the code changes a field of its own.
LEMMA AdjustedAlike ==
  ASSUME NEW d \in Cell, NEW v \in Cell, Alike(d, v)
  PROVE  Alike(d, Adjusted(v))
<1>1. CASE d \in {v, Zeros}
  BY <1>1 DEF Alike
<1>2. CASE v = Adjusted(d) /\ d \in Nat
  <2>1. Adjusted(v) = d
    BY <1>2 DEF Adjusted
  <2> QED  BY <2>1 DEF Alike
<1>3. CASE v = Adjusted(d) /\ d \notin Nat
  <2>1. v = Mix /\ Mix \notin Nat
    BY <1>3, SettingsAssumption DEF Adjusted
  <2>2. Adjusted(v) = Adjusted(d)
    BY <1>3, <2>1 DEF Adjusted
  <2> QED  BY <2>2 DEF Alike
<1> QED  BY <1>1, <1>2, <1>3 DEF Alike

LEMMA AndOf ==
  ASSUME NEW x
  PROVE  /\ And(Ones, x) = x /\ And(x, Zeros) = Zeros
         /\ And(Zeros, x) = Zeros
BY SettingsAssumption DEF And

\* A page is programmed, the other is left.
LEMMA Programmed ==
  ASSUME Control, NEW t \in Runner, NEW b \in Block, NEW data \in Block
  PROVE  /\ Program(t, b, data) \in Block
         /\ \A p \in Page : Program(t, b, data)[p] =
              IF p = page[t] THEN And(b[p], data[p]) ELSE b[p]
<1>1. page[t] \in Page
  BY DEF Control
<1>2. And(b[page[t]], data[page[t]]) \in Cell
  BY <1>1, AndCell DEF Block
<1> QED  BY <1>1, <1>2 DEF Program, Block

LEMMA Whites == Erased \in Block /\ AllZeros \in Block /\ [p \in Page |-> 0] \in Block
BY DEF Erased, AllZeros, Block, Cell

\* Zeros over a page.
LEMMA Zeroed ==
  ASSUME Control, NEW t \in Runner, NEW b \in Block
  PROVE  \A p \in Page : Program(t, b, AllZeros)[p] =
           IF p = page[t] THEN Zeros ELSE b[p]
<1> DEFINE z == AllZeros
<1>1. z \in Block /\ \A p \in Page : z[p] = Zeros
  BY Whites DEF AllZeros
<1> HIDE DEF z
<1>2. \A p \in Page : Program(t, b, z)[p] =
        IF p = page[t] THEN And(b[p], z[p]) ELSE b[p]
  BY <1>1, Programmed
<1>3. \A p \in Page : Program(t, b, z)[p] = IF p = page[t] THEN Zeros ELSE b[p]
  BY <1>1, <1>2, AndOf
<1> QED  BY <1>3 DEF z

LEMMA InitBlocks == Init => Blocks
BY Whites DEF Init, Blocks

LEMMA NextBlocks == ASSUME Control, Blocks, [Next]_vars PROVE Blocks'
<1>0. \A t \in Runner : /\ Program(t, device, g) \in Block
                        /\ Program(t, device, buf[t]) \in Block
                        /\ Program(t, device1, buf[t]) \in Block
                        /\ Program(t, device, AllZeros) \in Block
                        /\ Program(t, device1, AllZeros) \in Block
  <2> TAKE t \in Runner
  <2>1. buf[t] \in Block /\ device \in Block /\ device1 \in Block /\ g \in Block
    BY DEF Blocks
  <2> QED  BY <2>1, Programmed, Whites
<1>a. \A t \in Runner : NextPage(t) => buf' \in [Runner -> Block]
  <2> SUFFICES ASSUME NEW t \in Runner, NextPage(t)
               PROVE  buf' \in [Runner -> Block]
    OBVIOUS
  <2>1. buf' = [buf EXCEPT ![t] = IF page[t] = 2 THEN Erased ELSE buf[t]]
    BY DEF NextPage
  <2>2. (IF page[t] = 2 THEN Erased ELSE buf[t]) \in Block
    BY Whites DEF Blocks
  <2>3. buf \in [Runner -> Block]
    BY DEF Blocks
  <2> QED  BY <2>1, <2>2, <2>3
<1>b. \A p \in Page : [g EXCEPT ![p] = Adjusted(g[p])] \in Block
  BY AdjustedCell DEF Blocks, Block
<1>1. CASE Boot
  <2>1. Main \in Runner
    BY DEF Runner
  <2>2. CASE RestoreWrite
    BY <1>0, <1>a, <2>1, <2>2 DEF RestoreWrite, Blocks
  <2>3. CASE Default
    BY <2>3, Whites DEF Default, Blocks
  <2>4. CASE BootRead \/ Restore \/ Reread
    BY <2>1, <2>4, Whites DEF BootRead, Restore, Reread, Blocks
  <2>5. CASE Start
    BY <1>b, <2>5, Pages DEF Start, Blocks
  <2> QED  BY <1>1, <2>2, <2>3, <2>4, <2>5 DEF Boot
<1>2. CASE Commit \/ Flush \/ UNCHANGED vars
  BY <1>2 DEF Commit, Flush, vars, Blocks
<1>6. CASE Adjust
  <2>1. PICK p \in Page : g' = [g EXCEPT ![p] = Adjusted(g[p])]
    BY <1>6 DEF Adjust
  <2>2. UNCHANGED <<device, device1, buf>> /\ changes' \in Nat
    BY <1>6 DEF Adjust, Blocks
  <2> QED  BY <1>b, <2>1, <2>2 DEF Blocks
<1>3. CASE Crash
  BY <1>3, Whites DEF Crash, Reboot, Blocks
<1>4. ASSUME NEW t \in Runner, Work(t) PROVE Blocks'
  <2>1. CASE SaveErase(t)
    BY <2>1, Whites DEF SaveErase, ForSave, Blocks
  <2>2. CASE SaveWrite(t)
    BY <1>0, <1>a, <2>2 DEF SaveWrite, Blocks
  <2>3. CASE Copy(t)
    BY <2>3 DEF Copy, Blocks
  <2>4. CASE CopyErase(t)
    BY <2>4, Whites DEF CopyErase, Blocks
  <2>5. CASE CopyWrite(t)
    BY <1>0, <1>a, <2>5 DEF CopyWrite, Blocks
  <2>6. CASE EraseDevice(t)
    BY <1>0, <2>6 DEF EraseDevice, Blocks
  <2>7. CASE EraseDevice1(t)
    BY <1>0, <2>7 DEF EraseDevice1, Blocks
  <2>8. CASE ClearSector(t) \/ SetRead(t) \/ SetErase(t) \/ SetWrite(t) \/ SetNvs(t)
    BY <2>8 DEF ClearSector, SetRead, SetErase, SetWrite, SetNvs, Blocks
  <2>9. CASE Restart(t)
    BY <2>9, Whites DEF Restart, Reboot, Blocks
  <2> QED  BY <1>4, <2>1, <2>2, <2>3, <2>4, <2>5, <2>6, <2>7, <2>8, <2>9 DEF Work
<1>5. ASSUME NEW t \in Runner, Request(t) PROVE Blocks'
  <2>1. changes + 1 \in Nat /\ 2 * Fresh \in Cell /\ [p \in Page |-> 2 * Fresh] \in Block
    BY DEF Blocks, Fresh, Block, Cell
  <2>2. CASE Change(t)
    BY <2>1, <2>2 DEF Change, Ask, Blocks
  <2>3. CASE Edit(t) \/ Move(t) \/ Erase(t) \/ SetVolume(t)
    BY <2>1, <2>3 DEF Edit, Move, Erase, SetVolume, Ask, Blocks
  <2> QED  BY <1>5, <2>2, <2>3 DEF Request
<1> QED  BY <1>1, <1>2, <1>3, <1>4, <1>5, <1>6 DEF Next

\* A step that is no part of a save, and leaves DEVICE or puts zeros in it.
LEMMA Apart ==
  ASSUME Control, Kept, NEW t \in Runner, NEW l,
         pc' = [pc EXCEPT ![t] = l], l # "save write",
         pc[t] \notin {"save", "save write"} \cup Unread,
         g' = g, \A p \in Page : device'[p] \in {device[p], Zeros},
         \A u \in Runner : u # t => page'[u] = page[u]
  PROVE  Kept'
<1>1. \A u \in Runner : pc'[u] = IF u = t THEN l ELSE pc[u]
  BY DEF Control
<1>2. Main \in Runner
  BY DEF Runner
<1>3. CASE pc[Main] \in Unread \/ \E u \in Runner : pc[u] = "save"
  BY <1>1, <1>2, <1>3 DEF Kept
<1>4. CASE \A p \in Page : Saved(p)
  <2>1. \A u \in Runner : /\ pc'[u] = "save write" <=> pc[u] = "save write"
                          /\ pc[u] = "save write" => page'[u] = page[u]
    BY <1>1
  <2>2. \A p \in Page : Ahead(p)' <=> Ahead(p)
    BY <2>1 DEF Ahead
  <2>3. \A p \in Page : Saved(p)'
    BY <1>4, <2>2 DEF Saved, Alike
  <2> QED  BY <2>3 DEF Kept
<1> QED  BY <1>3, <1>4 DEF Kept

\* With app_main at one of these labels nobody saves.
LEMMA NobodySaves ==
  ASSUME Control, pc[Main] \notin {"idle", "save", "save write"}
  PROVE  \A t \in Runner : pc[t] \notin {"save", "save write"}
BY Who

LEMMA QuietKept ==
  ASSUME Control, pc[Main] \notin {"idle", "save", "save write"} \cup Unread, Kept
  PROVE  \A p \in Page : Alike(device[p], g[p])
BY NobodySaves DEF Kept, Saved, Ahead

\* With nobody saving, the settings in flash are those in use.
LEMMA AllKept ==
  ASSUME \A t \in Runner : pc'[t] # "save write",
         \A p \in Page : Alike(device'[p], g'[p])
  PROVE  Kept'
BY DEF Kept, Saved, Ahead

LEMMA BootKept == ASSUME Control, Blocks, Kept, Boot PROVE Kept'
<1>0. Main \in Runner
  BY DEF Runner
<1>1. CASE BootRead
  <2>1. CASE Valid(device)
    <3>1. g' = device /\ device' = device /\ pc[Main] = "read"
      BY <1>1 DEF BootRead
    <3>2. \A t \in Runner : pc'[t] # "save write"
      BY <1>1, <2>1, <3>1, NobodySaves DEF BootRead, Go, Control
    <3> QED  BY <3>1, <3>2, AllKept DEF Alike
  <2>2. CASE ~Valid(device)
    <3>1. pc'[Main] = "restore"
      BY <1>0, <1>1, <2>2 DEF BootRead, Go, Control
    <3> QED  BY <3>1 DEF Kept, Unread
  <2> QED  BY <2>1, <2>2
<1>2. CASE Restore
  <2>1. pc'[Main] = "restore write"
    BY <1>0, <1>2 DEF Restore, Go, Control
  <2> QED  BY <2>1 DEF Kept, Unread
<1>3. CASE RestoreWrite
  <2>1. todo[Main] = <<"reread">> /\ pc[Main] = "restore write"
    BY <1>3 DEF RestoreWrite, Control, Alone, MainPlan
  <2>2. Head(<<"reread">>) = "reread" /\ <<"reread">> # <<>>
    BY OneLeft
  <2>3. pc'[Main] \in {"restore write", "reread"}
    BY <1>0, <1>3, <2>1, <2>2 DEF RestoreWrite, NextPage, Return, Control
  <2> QED  BY <2>3 DEF Kept, Unread
<1>4. CASE Reread
  <2>1. g' = device /\ device' = device /\ pc[Main] = "reread"
    BY <1>4 DEF Reread
  <2>2. \A t \in Runner : pc'[t] # "save write"
    BY <1>4, <2>1, NobodySaves DEF Reread, Go, Control
  <2> QED  BY <2>1, <2>2, AllKept DEF Alike
<1>5. CASE Default
  <2>1. pc'[Main] = "save"
    BY <1>0, <1>5 DEF Default, Go, Control
  <2> QED  BY <1>0, <2>1 DEF Kept
<1>6. CASE Start
  <2>1. pc[Main] = "start" /\ pc' = Started /\ device' = device
    BY <1>6 DEF Start
  <2>2. \A p \in Page : g'[p] \in {g[p], Adjusted(g[p])}
    BY <1>6 DEF Start, Blocks, Block
  <2>3. \A p \in Page : Alike(device[p], g[p]) /\ device[p] \in Cell /\ g[p] \in Cell
    BY <2>1, QuietKept DEF Unread, Blocks, Block
  <2>4. \A p \in Page : Alike(device'[p], g'[p])
    BY <2>1, <2>2, <2>3, AdjustedAlike
  <2> QED  BY <2>1, <2>4, AllKept DEF Started
<1> QED  BY <1>1, <1>2, <1>3, <1>4, <1>5, <1>6 DEF Boot

LEMMA SaveEraseKept ==
  ASSUME Control, Blocks, NEW t \in Runner, SaveErase(t) PROVE Kept'
<1>1. pc'[t] = "save write" /\ page'[t] = 1
  BY DEF SaveErase, Go, Control, Paging
<1>2. ASSUME NEW p \in Page PROVE Saved(p)'
  <2>1. page'[t] <= p
    BY <1>1, Pages
  <2>2. Ahead(p)'
    BY <1>1, <2>1 DEF Ahead
  <2>3. device'[p] = Ones
    BY DEF SaveErase, ForSave, Erased
  <2> QED  BY <2>2, <2>3 DEF Saved
<1> QED  BY <1>2 DEF Kept

LEMMA SaveWriteKept ==
  ASSUME Control, Blocks, Kept, NEW t \in Runner, SaveWrite(t) PROVE Kept'
<1>1. pc[t] = "save write" /\ g' = g /\ device' = Program(t, device, g)
  BY DEF SaveWrite
<1>2. pc[Main] \notin Unread
  BY <1>1, Who DEF Unread
<1>3. NextPage(t) /\ lock' = IF pc[t] = "save write" THEN Unlocked(t) ELSE lock
  BY <1>1 DEF SaveWrite
<1>4. /\ page[t] = 1 => pc' = pc /\ page' = [page EXCEPT ![t] = 2]
      /\ page[t] = 2 => pc'[t] \notin Paging \cup {"save"}
  BY <1>1, <1>3, Paged
<1>5. page[t] \in Page
  BY DEF Control
<1>6. \A u \in Runner : u # t => pc'[u] = pc[u]
  BY <1>3 DEF NextPage, Return, Control
<1>7. \A u \in Runner : pc[u] = "save write" => u = t
  BY <1>1 DEF Control
<1>8. CASE \E u \in Runner : pc[u] = "save"
  BY <1>1, <1>6, <1>8 DEF Kept
<1>9. CASE \A p \in Page : Saved(p)
  <2>1. ASSUME NEW p \in Page PROVE Ahead(p) <=> page[t] <= p
    BY <1>1, <1>7 DEF Ahead
  <2>2. \A p \in Page : device'[p] = IF p = page[t] THEN And(device[p], g[p])
                                                    ELSE device[p]
    <3>1. device \in Block /\ g \in Block
      BY DEF Blocks
    <3>2. \A p \in Page : Program(t, device, g)[p] =
                            IF p = page[t] THEN And(device[p], g[p]) ELSE device[p]
      BY <3>1, Programmed
    <3> QED  BY <1>1, <3>2
  <2>3. CASE page[t] = 1
    <3>1. pc' = pc /\ page'[t] = 2
      BY <1>4, <2>3 DEF Control
    <3>2. \A p \in Page : Ahead(p)' <=> 2 <= p
      BY <1>1, <1>7, <3>1 DEF Ahead
    <3>3. Ahead(1) /\ Ahead(2) /\ ~Ahead(1)' /\ Ahead(2)'
      BY <2>1, <2>3, <3>2, Pages
    <3>4. device[1] \in {Ones, Zeros} /\ device[2] \in {Ones, Zeros}
      BY <1>9, <3>3, Pages DEF Saved
    <3>5. Alike(device'[1], g[1]) /\ device'[2] \in {Ones, Zeros}
      BY <2>2, <2>3, <3>4, Pages, AndOf DEF Alike
    <3>6. Saved(1)' /\ Saved(2)'
      BY <1>1, <3>3, <3>5 DEF Saved
    <3> QED  BY <3>6, Pages DEF Kept
  <2>4. CASE page[t] = 2
    <3>1. pc'[t] # "save write"
      BY <1>4, <2>4 DEF Paging
    <3>2. \A u \in Runner : pc'[u] # "save write"
      BY <1>6, <1>7, <3>1
    <3>3. Ahead(2) /\ ~Ahead(1)
      BY <2>1, <2>4, Pages
    <3>4. Alike(device[1], g[1]) /\ device[2] \in {Ones, Zeros}
      BY <1>9, <3>3, Pages DEF Saved
    <3>5. Alike(device'[1], g[1]) /\ Alike(device'[2], g[2])
      BY <2>2, <2>4, <3>4, Pages, AndOf DEF Alike
    <3> QED  BY <1>1, <3>2, <3>5, Pages, AllKept
  <2> QED  BY <1>5, <2>3, <2>4, Pages
<1> QED  BY <1>2, <1>8, <1>9 DEF Kept

LEMMA NextKept == ASSUME Control, Blocks, Kept, [Next]_vars PROVE Kept'
<1>0. Main \in Runner
  BY DEF Runner
<1>1. CASE Boot
  BY <1>1, BootKept
<1>2. CASE Commit \/ Flush \/ UNCHANGED vars
  <2>1. UNCHANGED <<pc, page, device, g>>
    BY <1>2 DEF Commit, Flush, vars
  <2> QED  BY <2>1 DEF Kept, Saved, Ahead
<1>6. CASE Adjust
  <2>1. UNCHANGED <<pc, page, device>> /\ pc[Main] = "idle"
    BY <1>6 DEF Adjust
  <2>2. \A p \in Page : g'[p] \in {g[p], Adjusted(g[p])}
    BY <1>6 DEF Adjust, Blocks, Block
  <2>3. \A p \in Page : device[p] \in Cell /\ g[p] \in Cell
    BY DEF Blocks, Block
  <2>4. \A p \in Page : Alike(device[p], g[p]) => Alike(device'[p], g'[p])
    BY <2>1, <2>2, <2>3, AdjustedAlike
  <2>5. \A p \in Page : Ahead(p)' <=> Ahead(p)
    BY <2>1 DEF Ahead
  <2>6. \A p \in Page : Saved(p) => Saved(p)'
    BY <2>1, <2>4, <2>5 DEF Saved
  <2> QED  BY <2>1, <2>6 DEF Kept
<1>3. CASE Reboot
  <2>1. pc'[Main] = "read"
    BY <1>0, <1>3 DEF Reboot
  <2> QED  BY <2>1 DEF Kept, Unread
<1>4. ASSUME NEW t \in Runner, Work(t), ~Reboot PROVE Kept'
  <2>1. CASE SaveErase(t)
    BY <2>1, SaveEraseKept
  <2>2. CASE SaveWrite(t)
    BY <2>2, SaveWriteKept
  <2>3. CASE CopyWrite(t)
    <3>1. pc[t] = "copy write" /\ NextPage(t) /\ UNCHANGED <<device, g, lock>>
      BY <2>3 DEF CopyWrite
    <3>2. Control' /\ (page[t] = 1 => pc' = pc)
      BY <3>1, Paged
    <3>3. PICK l : pc' = [pc EXCEPT ![t] = l]
      BY <3>1 DEF NextPage, Return, Control
    <3>4. pc'[t] = l
      BY <3>3 DEF Control
    <3>5. l # "save write"
      <4>1. lock # t
        BY <3>1 DEF Control
      <4> QED  BY <3>1, <3>2, <3>4, <4>1 DEF Control
    <3>6. \A u \in Runner : u # t => page'[u] = page[u]
      BY <3>1 DEF NextPage, Control
    <3> QED  BY <3>1, <3>3, <3>5, <3>6, Apart DEF Unread
  <2>4. CASE EraseDevice(t) \/ EraseDevice1(t)
    <3>1. pc[t] \in {"erase device", "erase device1"} /\ g' = g
      BY <2>4 DEF EraseDevice, EraseDevice1
    <3>2. PICK l \in {"erase device", "erase device1", "clear"} :
             pc' = [pc EXCEPT ![t] = l]
      BY <2>4 DEF EraseDevice, EraseDevice1, Go, Control
    <3>3. \A u \in Runner : u # t => page'[u] = page[u]
      BY <2>4 DEF EraseDevice, EraseDevice1, Control
    <3>4. ASSUME NEW p \in Page PROVE device'[p] \in {device[p], Zeros}
      <4>1. CASE EraseDevice1(t)
        BY <4>1 DEF EraseDevice1
      <4>2. CASE EraseDevice(t)
        <5>1. device' = Program(t, device, AllZeros) /\ device \in Block
          BY <4>2 DEF EraseDevice, Blocks
        <5> QED  BY <1>4, <3>4, <5>1, Zeroed
      <4> QED  BY <2>4, <4>1, <4>2
    <3> QED  BY <3>1, <3>2, <3>3, <3>4, Apart DEF Unread
  <2>5. CASE Copy(t) \/ CopyErase(t) \/ SetRead(t) \/ SetErase(t)
    <3>1. /\ pc[t] \in {"copy", "copy erase", "set", "set erase"}
          /\ UNCHANGED <<device, g, page>>
      BY <2>5 DEF Copy, CopyErase, SetRead, SetErase
    <3>2. PICK l \in {"copy erase", "copy write", "set erase", "set write"} :
             pc' = [pc EXCEPT ![t] = l]
      BY <2>5 DEF Copy, CopyErase, SetRead, SetErase, Go
    <3> QED  BY <3>1, <3>2, Apart DEF Unread
  <2>6. CASE ClearSector(t) \/ SetWrite(t) \/ SetNvs(t)
    <3>1. /\ pc[t] \in {"clear", "set write", "nvs"}
          /\ UNCHANGED <<device, g, page, lock>>
      BY <2>6 DEF ClearSector, SetWrite, SetNvs
    <3>2. PICK l : pc' = [pc EXCEPT ![t] = l]
      BY <2>6 DEF ClearSector, SetWrite, SetNvs, NextSector, Return, Go
    <3>3. l # "save write"
      <4>1. Control'
        BY WorkControl, <1>4
      <4>2. pc'[t] = l /\ lock' # t
        BY <3>1, <3>2 DEF Control
      <4> QED  BY <4>1, <4>2 DEF Control
    <3> QED  BY <3>1, <3>2, <3>3, Apart DEF Unread
  <2> QED  BY <1>4, <2>1, <2>2, <2>3, <2>4, <2>5, <2>6 DEF Work, Restart
<1>5. ASSUME NEW t \in Runner, Request(t) PROVE Kept'
  <2>1. CASE Change(t)
    <3>1. pc'[t] = "save"
      BY <2>1 DEF Change, Begin, Control
    <3> QED  BY <3>1 DEF Kept
  <2>2. CASE Edit(t) \/ Move(t) \/ Erase(t) \/ SetVolume(t)
    <3>1. pc[t] = "idle" /\ UNCHANGED <<device, g, page>>
      BY <2>2 DEF Edit, Move, Erase, SetVolume, Ask
    <3>2. PICK l \in {"set", "erase device", "clear", "nvs"} :
             pc' = [pc EXCEPT ![t] = l]
      BY <2>2 DEF Edit, Move, Erase, SetVolume, Begin
    <3> QED  BY <3>1, <3>2, Apart DEF Unread
  <2> QED  BY <1>5, <2>1, <2>2 DEF Request
<1> QED  BY <1>1, <1>2, <1>3, <1>4, <1>5, <1>6 DEF Next, Crash

-----------------------------------------------------------------------------
(* The start *)

\* A step of a task leaves the others where they are.
LEMMA OneMoves ==
  ASSUME Control, NEW t \in Runner, Work(t) \/ Request(t), ~Reboot
  PROVE  pc[t] # "off" /\ \E l : pc' = [pc EXCEPT ![t] = l]
<1>1. CASE Request(t)
  BY <1>1 DEF Request, Change, Edit, Move, Erase, SetVolume, Ask, Begin
<1>2. CASE SaveErase(t) \/ SaveWrite(t)
  BY <1>2 DEF SaveErase, SaveWrite, NextPage, Return, Go, Control
<1>a. pc = [pc EXCEPT ![t] = pc[t]]
  BY DEF Control
<1>b. CASE Copy(t) \/ CopyErase(t)
  BY <1>b DEF Copy, CopyErase, Go
<1>3. CASE CopyWrite(t)
  <2>1. pc[t] # "off" /\ (Return(t) \/ pc' = pc)
    BY <1>3 DEF CopyWrite, NextPage
  <2> QED  BY <1>a, <2>1 DEF Return
<1>4. CASE EraseDevice(t) \/ EraseDevice1(t)
  <2>1. pc[t] # "off"
    BY <1>4 DEF EraseDevice, EraseDevice1
  <2>2. Go(t, "erase device1") \/ Go(t, "clear") \/ pc' = pc
    BY <1>4 DEF EraseDevice, EraseDevice1
  <2> QED  BY <1>a, <2>1, <2>2 DEF Go
<1>5. CASE ClearSector(t) \/ SetWrite(t) \/ SetNvs(t)
  BY <1>5 DEF ClearSector, SetWrite, SetNvs, NextSector, Return, Go
<1>6. CASE SetRead(t) \/ SetErase(t)
  BY <1>6 DEF SetRead, SetErase, Go
<1> QED  BY <1>b, <1>1, <1>2, <1>3, <1>4, <1>5, <1>6 DEF Work, Restart

\* app_main writes only what a start writes.
LEMMA MainWorks ==
  ASSUME Control, Work(Main)
  PROVE  \/ SaveErase(Main) \/ SaveWrite(Main) \/ EraseDevice(Main)
         \/ EraseDevice1(Main) \/ ClearSector(Main)
<1>1. pc[Main] \in {"idle", "read", "restore", "reread", "default", "start",
                   "restore write", "erase device", "erase device1", "clear",
                   "save", "save write"}
  BY DEF Control, Alone, MainPlan
<1> QED  BY <1>1 DEF Work, Copy, CopyErase, CopyWrite, SetRead, SetErase,
                     SetWrite, SetNvs, Restart

LEMMA InitRestoring == Init => Restoring
BY DEF Init, Restoring, Runner

LEMMA RestoreWriteRestoring ==
  ASSUME Control, Blocks, Restoring, RestoreWrite PROVE Restoring'
<1>0. Main \in Runner
  BY DEF Runner
<1>1. /\ pc[Main] = "restore write" /\ NextPage(Main) /\ device1' = device1
      /\ device' = Program(Main, device, buf[Main]) /\ lock' = lock
  BY DEF RestoreWrite
<1>2. buf[Main] = device1 /\ buf[Main] \in Block /\ device \in Block
  BY <1>0, <1>1 DEF Restoring, Blocks
<1>3. \A p \in Page : device'[p] = IF p = page[Main] THEN And(device[p], device1[p])
                                                     ELSE device[p]
  <2>1. \A p \in Page : Program(Main, device, buf[Main])[p] =
          IF p = page[Main] THEN And(device[p], buf[Main][p]) ELSE device[p]
    BY <1>0, <1>2, Programmed
  <2> QED  BY <1>1, <1>2, <2>1
<1>4. page[Main] \in Page
  BY <1>0 DEF Control
<1>5. CASE page[Main] = 1
  <2>1. pc' = pc /\ page'[Main] = 2
    BY <1>0, <1>1, <1>5, Paged DEF Control
  <2>2. buf'[Main] = buf[Main]
    BY <1>0, <1>1, <1>5, Pages DEF NextPage, Blocks
  <2>3. device[1] = Ones
    BY <1>1, <1>5 DEF Restoring
  <2>4. device'[1] = device1[1]
    BY <1>3, <1>5, <2>3, Pages, AndOf
  <2> QED  BY <1>1, <1>2, <2>1, <2>2, <2>4, Pages DEF Restoring
<1>6. CASE page[Main] = 2
  <2>1. todo[Main] = <<"reread">>
    BY <1>1 DEF Control, Alone, MainPlan
  <2>2. pc'[Main] = "reread"
    BY <1>0, <1>1, <1>6, <2>1, OneLeft DEF NextPage, Return, Control
  <2>3. device'[1] = device1[1]
    BY <1>1, <1>3, <1>6, Pages DEF Restoring
  <2> QED  BY <1>1, <2>2, <2>3 DEF Restoring
<1> QED  BY <1>4, <1>5, <1>6, Pages

LEMMA NextRestoring ==
  ASSUME Control, Blocks, Restoring, [Next]_vars PROVE Restoring'
<1>0. Main \in Runner
  BY DEF Runner
<1>a. ASSUME pc'[Main] \notin {"restore write", "reread", "erase device",
                             "erase device1", "clear"}
      PROVE  Restoring'
  BY <1>a DEF Restoring
<1>1. CASE Boot
  <2>1. CASE BootRead \/ Default \/ Start
    <3>1. pc'[Main] \in {"idle", "start", "restore", "save"}
      BY <1>0, <2>1 DEF BootRead, Default, Start, Started, Go, Control
    <3> QED  BY <1>a, <3>1
  <2>2. CASE Restore
    <3>1. /\ pc'[Main] = "restore write" /\ page'[Main] = 1 /\ device'[1] = Ones
          /\ buf'[Main] = device1' /\ page'[Main] # 2
      BY <1>0, <2>2, Pages DEF Restore, Go, Control, Paging, Erased, Blocks
    <3> QED  BY <3>1 DEF Restoring
  <2>3. CASE RestoreWrite
    BY <2>3, RestoreWriteRestoring
  <2>4. CASE Reread
    <3>1. pc[Main] = "reread" /\ device1' = device1 /\ device[1] = device1[1]
      BY <2>4 DEF Reread, Restoring
    <3>2. CASE ~Lost
      <4>1. pc'[Main] = "start"
        BY <1>0, <2>4, <3>2 DEF Reread, Go, Control
      <4> QED  BY <1>a, <4>1
    <3>3. CASE Lost
      <4>1. pc'[Main] = "erase device"
        BY <1>0, <2>4, <3>3 DEF Reread, Go, Control
      <4>2. ~Valid(device1)
        BY <3>1, <3>3 DEF Lost, Valid
      <4> QED  BY <3>1, <4>1, <4>2 DEF Restoring, Valid
    <3> QED  BY <3>2, <3>3
  <2> QED  BY <1>1, <2>1, <2>2, <2>3, <2>4 DEF Boot
<1>2. CASE Adjust \/ Commit \/ Flush \/ UNCHANGED vars
  <2>1. UNCHANGED <<pc, page, device, device1, buf>>
    BY <1>2 DEF Adjust, Commit, Flush, vars
  <2> QED  BY <2>1 DEF Restoring, Valid
<1>3. CASE Reboot
  <2>1. pc'[Main] = "read"
    BY <1>0, <1>3 DEF Reboot
  <2> QED  BY <1>a, <2>1
<1>4. ASSUME NEW t \in Runner, Work(t) \/ Request(t), ~Reboot, t # Main
      PROVE  Restoring'
  <2>1. pc[Main] = "idle"
    BY <1>4, OneMoves, Who
  <2>2. pc'[Main] = "idle"
    BY <1>0, <1>4, <2>1, OneMoves DEF Control
  <2> QED  BY <1>a, <2>2
<1>5. CASE Work(Main)
  <2>1. CASE SaveErase(Main)
    <3>1. pc'[Main] = "save write"
      BY <1>0, <2>1 DEF SaveErase, Go, Control
    <3> QED  BY <1>a, <3>1
  <2>2. CASE SaveWrite(Main)
    <3>1. pc[Main] = "save write" /\ todo[Main] = <<"start">> /\ NextPage(Main)
      BY <2>2 DEF SaveWrite, Control, Alone, MainPlan
    <3>2. pc'[Main] \in {"save write", "start"}
      BY <1>0, <3>1, OneLeft DEF NextPage, Return, Control
    <3> QED  BY <1>a, <3>2
  <2>3. CASE EraseDevice(Main)
    <3>1. pc'[Main] \in {"erase device", "erase device1"} /\ device1' = device1
      BY <1>0, <2>3 DEF EraseDevice, Go, Control
    <3>2. ~Valid(device1)
      BY <2>3 DEF EraseDevice, Restoring
    <3> QED  BY <3>1, <3>2 DEF Restoring, Valid
  <2>4. CASE EraseDevice1(Main)
    <3>1. pc'[Main] \in {"erase device1", "clear"}
      BY <1>0, <2>4 DEF EraseDevice1, Go, Control
    <3>2. ~Valid(device1)
      BY <2>4 DEF EraseDevice1, Restoring
    <3>3. device1' = Program(Main, device1, AllZeros) /\ device1 \in Block
      BY <2>4 DEF EraseDevice1, Blocks
    <3>4. device1'[1] \in {device1[1], Zeros}
      BY <1>0, <3>3, Zeroed, Pages
    <3>5. Zeros \notin Nat \cup {Mix}
      BY SettingsAssumption
    <3>6. ~Valid(device1)'
      BY <3>2, <3>4, <3>5 DEF Valid
    <3> QED  BY <3>1, <3>6 DEF Restoring
  <2>5. CASE ClearSector(Main)
    <3>1. pc[Main] = "clear" /\ todo[Main] = <<"default">> /\ device1' = device1
      BY <2>5 DEF ClearSector, Control, Alone, MainPlan
    <3>2. Return(Main) \/ Go(Main, "clear")
      BY <2>5 DEF ClearSector, NextSector
    <3>3. pc'[Main] \in {"clear", "default"}
      BY <1>0, <3>1, <3>2, OneLeft DEF Return, Go, Control
    <3>4. ~Valid(device1)'
      BY <3>1 DEF Restoring, Valid
    <3> QED  BY <3>3, <3>4 DEF Restoring
  <2> QED  BY <1>5, <2>1, <2>2, <2>3, <2>4, <2>5, MainWorks
<1>6. ~Request(Main)
  BY DEF Request, Change, Edit, Move, Erase, SetVolume, Ask
<1> QED  BY <1>1, <1>2, <1>3, <1>4, <1>5, <1>6 DEF Next, Crash

LEMMA NextSpares ==
  ASSUME Control, Restoring, [Next]_vars, Starting, Valid(device1)
  PROVE  UNCHANGED <<device1, stations>>
<1>1. CASE Boot
  BY <1>1 DEF Boot, BootRead, Restore, RestoreWrite, Reread, Default, Start
<1>2. CASE Adjust \/ Commit \/ Flush \/ UNCHANGED vars
  BY <1>2 DEF Adjust, Commit, Flush, vars
<1>3. CASE Reboot
  BY <1>3 DEF Reboot
<1>4. ASSUME NEW t \in Runner, Work(t) \/ Request(t), ~Reboot
      PROVE  UNCHANGED <<device1, stations>>
  <2>1. t = Main
    BY <1>4, OneMoves, Who DEF Starting
  <2>2. Work(Main)
    BY <1>4, <2>1 DEF Request, Change, Edit, Move, Erase, SetVolume, Ask
  <2>3. pc[Main] \notin {"erase device1", "clear"}
    BY DEF Restoring
  <2>4. ~EraseDevice1(Main) /\ ~ClearSector(Main)
    BY <2>3 DEF EraseDevice1, ClearSector
  <2> QED  BY <2>2, <2>4, MainWorks DEF SaveErase, SaveWrite, EraseDevice
<1> QED  BY <1>1, <1>2, <1>3, <1>4 DEF Next, Crash

-----------------------------------------------------------------------------
(* The stations *)

\* The sector a list of jobs begins with.
AtOf(list) == LET left == DOMAIN Head(list)
              IN SectorOf(CHOOSE s \in left : \A u \in left : s <= u)

\* One task at most rewrites a sector that is not in doubt, with what was
\* saved of the other stations, and the sector is erased when it has done so.
Station1(s) ==
  LET k == SectorOf(s)
  IN \/ k \in damaged
     \/ /\ \A t, u \in Rewriting(k) : t = u
        /\ \A t \in Rewriting(k) : sector[t][s] = book[s]
        /\ IF \E t \in Rewriting(k) : pc[t] = "set write"
           THEN stations[s] = Ones ELSE stations[s] = book[s]
Held == \A s \in Station : Station1(s)

\* What the tasks that work on the stations have before them.
Job  == UNION {[D -> Cell] : D \in (SUBSET Station) \ {{}}}
Jobs ==
  /\ stations \in [Station -> Cell] /\ book \in [Station -> Cell]
  /\ sector \in [Runner -> [Station -> Cell]]
  /\ jobs \in [Runner -> Seq(Job)]
  /\ \A t \in Runner : pc[t] \in InSet => jobs[t] # <<>>
  /\ \A t \in Runner : todo[t] = <<"set">> => Tail(jobs[t]) # <<>>

LEMMA AtIs == /\ \A t : At(t) = AtOf(jobs[t])
              /\ \A t : At(t)' = AtOf(jobs'[t])
BY DEF At, AtOf

InRewrite == {"set erase", "set write"}

LEMMA RewritingIs ==
  /\ \A t \in Runner : \A k :
       t \in Rewriting(k) <=> pc[t] \in InRewrite /\ AtOf(jobs[t]) = k
  /\ \A t \in Runner : \A k :
       t \in Rewriting(k)' <=> pc'[t] \in InRewrite /\ AtOf(jobs'[t]) = k
  /\ \A k : Rewriting(k) \subseteq Runner /\ Rewriting(k)' \subseteq Runner
BY AtIs DEF Rewriting, InRewrite

\* A step that has nothing to do with the stations.
LEMMA Elsewhere ==
  ASSUME Control, Held, NEW t \in Runner,
         pc[t] \notin InRewrite, pc'[t] \notin InRewrite,
         \A u \in Runner : u # t => pc'[u] = pc[u] /\ jobs'[u] = jobs[u],
         UNCHANGED <<stations, book, damaged, sector>>
  PROVE  Held'
<1>1. ASSUME NEW k PROVE Rewriting(k)' = Rewriting(k)
  BY RewritingIs
<1>2. ASSUME NEW k, NEW u \in Rewriting(k) PROVE pc'[u] = pc[u]
  BY <1>2, RewritingIs
<1> SUFFICES ASSUME NEW s \in Station PROVE Station1(s)'
  BY DEF Held
<1> DEFINE k == SectorOf(s)
<1>3. Rewriting(k)' = Rewriting(k) /\ \A u \in Rewriting(k) : pc'[u] = pc[u]
  BY <1>1, <1>2
<1>4. Station1(s)
  BY DEF Held
<1> QED  BY <1>3, <1>4 DEF Station1

\* Nobody rewrites a sector, neither before nor after.
LEMMA NoneRewrites ==
  ASSUME Held, \A t \in Runner : pc[t] \notin InRewrite /\ pc'[t] \notin InRewrite,
         UNCHANGED <<stations, book, damaged>>
  PROVE  Held'
<1> SUFFICES ASSUME NEW s \in Station PROVE Station1(s)'
  BY DEF Held
<1> DEFINE k == SectorOf(s)
<1>1. Rewriting(k) = {} /\ Rewriting(k)' = {}
  BY RewritingIs
<1>2. Station1(s)
  BY DEF Held
<1> QED  BY <1>1, <1>2 DEF Station1

LEMMA SetReadHeld ==
  ASSUME Control, Jobs, Held, NEW t \in Runner, SetRead(t) PROVE Held'
<1> DEFINE a == At(t)
<1>1. /\ pc[t] = "set" /\ pc' = [pc EXCEPT ![t] = "set erase"]
      /\ UNCHANGED <<stations, book, jobs>>
      /\ damaged' = damaged \cup IF Rewriting(a) = {} THEN {} ELSE {a}
  BY DEF SetRead, Go
<1>2. sector' = [sector EXCEPT ![t] =
                   [s \in Station |-> IF SectorOf(s) = a THEN stations[s] ELSE Ones]]
  BY DEF SetRead
<1>3. a = AtOf(jobs[t]) /\ a = AtOf(jobs'[t])
  BY <1>1, AtIs
<1>4. \A u \in Runner : u # t => pc'[u] = pc[u] /\ sector'[u] = sector[u]
  BY <1>1, <1>2 DEF Control, Jobs
<1>5. pc'[t] = "set erase"
  BY <1>1 DEF Control
<1> HIDE DEF a
<1> SUFFICES ASSUME NEW s \in Station PROVE Station1(s)'
  BY DEF Held
<1> DEFINE k == SectorOf(s)
<1>6. Station1(s)
  BY DEF Held
<1>7. CASE k \in damaged
  BY <1>1, <1>7 DEF Station1
<1>8. CASE k # a /\ k \notin damaged
  <2>0. \A u \in Runner : u \in Rewriting(k)' <=> u \in Rewriting(k)
    BY <1>1, <1>3, <1>4, <1>8, RewritingIs
  <2>1. Rewriting(k)' = Rewriting(k)
    BY <2>0, RewritingIs
  <2>2. \A u \in Rewriting(k) : pc'[u] = pc[u] /\ sector'[u] = sector[u]
    BY <1>3, <1>4, <1>8, RewritingIs
  <2> QED  BY <1>1, <1>6, <1>8, <2>1, <2>2 DEF Station1
<1>9. CASE k = a /\ Rewriting(k) # {}
  <2>1. k \in damaged'
    BY <1>1, <1>9
  <2> QED  BY <2>1 DEF Station1
<1>10. CASE k = a /\ Rewriting(k) = {} /\ k \notin damaged
  <2>1. Rewriting(k)' = {t}
    BY <1>1, <1>3, <1>4, <1>5, <1>10, RewritingIs DEF InRewrite
  <2>2. stations[s] = book[s]
    BY <1>6, <1>10 DEF Station1
  <2>3. sector'[t][s] = stations[s]
    BY <1>2, <1>10 DEF Jobs
  <2> QED  BY <1>1, <1>5, <2>1, <2>2, <2>3 DEF Station1
<1> QED  BY <1>7, <1>8, <1>9, <1>10

LEMMA SetEraseHeld ==
  ASSUME Control, Jobs, Held, NEW t \in Runner, SetErase(t) PROVE Held'
<1> DEFINE a == At(t)
<1>1. /\ pc[t] = "set erase" /\ pc' = [pc EXCEPT ![t] = "set write"]
      /\ UNCHANGED <<book, jobs, damaged, sector>>
      /\ stations' = [s \in Station |-> IF SectorOf(s) = a THEN Ones ELSE stations[s]]
  BY DEF SetErase, Go, hist
<1>2. a = AtOf(jobs[t]) /\ a = AtOf(jobs'[t])
  BY <1>1, AtIs
<1>3. \A u \in Runner : u # t => pc'[u] = pc[u]
  BY <1>1 DEF Control
<1>4. pc'[t] = "set write"
  BY <1>1 DEF Control
<1> HIDE DEF a
<1> SUFFICES ASSUME NEW s \in Station PROVE Station1(s)'
  BY DEF Held
<1> DEFINE k == SectorOf(s)
<1>5. Station1(s)
  BY DEF Held
<1>6. \A u \in Runner : u \in Rewriting(k)' <=> u \in Rewriting(k)
  BY <1>1, <1>3, <1>4, RewritingIs DEF InRewrite
<1>7. Rewriting(k)' = Rewriting(k)
  BY <1>6, RewritingIs
<1>8. CASE k \in damaged
  BY <1>1, <1>8 DEF Station1
<1>9. CASE k # a /\ k \notin damaged
  <2>1. \A u \in Rewriting(k) : pc'[u] = pc[u]
    BY <1>2, <1>3, <1>9, RewritingIs
  <2>2. stations'[s] = stations[s]
    BY <1>1, <1>9
  <2> QED  BY <1>1, <1>5, <1>7, <1>9, <2>1, <2>2 DEF Station1
<1>10. CASE k = a /\ k \notin damaged
  <2>1. t \in Rewriting(k)
    BY <1>1, <1>2, <1>10, RewritingIs DEF InRewrite
  <2>2. stations'[s] = Ones
    BY <1>1, <1>10
  <2> QED  BY <1>1, <1>4, <1>5, <1>7, <1>10, <2>1, <2>2 DEF Station1
<1> QED  BY <1>8, <1>9, <1>10

LEMMA SetWriteHeld ==
  ASSUME Control, Jobs, Held, NEW t \in Runner, SetWrite(t) PROVE Held'
<1> DEFINE a == At(t)
           job == Head(jobs[t])
<1>1. /\ pc[t] = "set write" /\ UNCHANGED <<damaged, page, lock>>
      /\ stations' = [s \in Station |-> IF SectorOf(s) = a
                                        THEN And(stations[s], Merged(t, s))
                                        ELSE stations[s]]
      /\ book' = [s \in Station |-> IF SectorOf(s) = a /\ s \in DOMAIN job
                                    THEN job[s] ELSE book[s]]
      /\ Return(t) \/ Go(t, "set")
  BY DEF SetWrite, NextSector
<1>2. a = AtOf(jobs[t])
  BY AtIs
<1>3. \A u \in Runner : u # t =>
        pc'[u] = pc[u] /\ jobs'[u] = jobs[u] /\ sector'[u] = sector[u]
  BY DEF SetWrite, NextSector, Return, Go, Control, Jobs
<1>4. pc'[t] \notin InRewrite
  <2>1. CASE Go(t, "set")
    BY <2>1 DEF Go, Control, InRewrite
  <2>2. CASE Return(t)
    <3>1. page' = [page EXCEPT ![t] = 1] /\ lock' = lock
      BY <1>1 DEF Control, Paging
    <3> QED  BY <1>1, <2>2, <3>1, Returned DEF InRewrite
  <2> QED  BY <1>1, <2>1, <2>2
<1>5. \A s \in Station : Merged(t, s) = IF s \in DOMAIN job THEN job[s] ELSE sector[t][s]
  BY DEF Merged
<1> HIDE DEF a, job
<1> SUFFICES ASSUME NEW s \in Station PROVE Station1(s)'
  BY DEF Held
<1> DEFINE k == SectorOf(s)
<1>6. Station1(s)
  BY DEF Held
<1>7. CASE k \in damaged
  BY <1>1, <1>7 DEF Station1
<1>8. CASE k # a /\ k \notin damaged
  <2>1. \A u \in Runner : u \in Rewriting(k)' <=> u \in Rewriting(k)
    BY <1>2, <1>3, <1>4, <1>8, RewritingIs
  <2>2. Rewriting(k)' = Rewriting(k)
    BY <2>1, RewritingIs
  <2>3. \A u \in Rewriting(k) : pc'[u] = pc[u] /\ sector'[u] = sector[u]
    BY <1>2, <1>3, <1>8, RewritingIs
  <2>4. stations'[s] = stations[s] /\ book'[s] = book[s]
    BY <1>1, <1>8
  <2> QED  BY <1>1, <1>6, <1>8, <2>2, <2>3, <2>4 DEF Station1
<1>9. CASE k = a /\ k \notin damaged
  <2>1. t \in Rewriting(k)
    BY <1>1, <1>2, <1>9, RewritingIs DEF InRewrite
  <2>2. /\ \A u \in Rewriting(k) : u = t
        /\ sector[t][s] = book[s] /\ stations[s] = Ones
    BY <1>1, <1>6, <1>9, <2>1 DEF Station1
  <2>3. stations'[s] = Merged(t, s)
    BY <1>1, <1>9, <2>2, AndOf
  <2>4. book'[s] = IF s \in DOMAIN job THEN job[s] ELSE book[s]
    BY <1>1, <1>9
  <2>5. stations'[s] = book'[s]
    BY <1>5, <2>2, <2>3, <2>4
  <2>6. \A u \in Runner : u \notin Rewriting(k)'
    BY <1>3, <1>4, <2>2, RewritingIs
  <2>7. Rewriting(k)' = {}
    BY <2>6, RewritingIs
  <2> QED  BY <2>5, <2>7 DEF Station1
<1> QED  BY <1>7, <1>8, <1>9

LEMMA ClearSectorHeld ==
  ASSUME Control, Jobs, Held, NEW t \in Runner, ClearSector(t) PROVE Held'
<1> DEFINE a == At(t)
<1>1. /\ pc[t] = "clear" /\ UNCHANGED <<page, lock, sector>>
      /\ Return(t) \/ Go(t, "clear")
      /\ damaged' = damaged \cup IF Rewriting(a) = {} THEN {} ELSE {a}
  BY DEF ClearSector, NextSector
<1>2. \A s \in Station :
        /\ stations'[s] = IF SectorOf(s) = a THEN Zeros ELSE stations[s]
        /\ book'[s] = IF SectorOf(s) = a THEN Zeros ELSE book[s]
  BY DEF ClearSector, InSector
<1>3. \A u \in Runner : u # t => pc'[u] = pc[u] /\ jobs'[u] = jobs[u]
  BY DEF ClearSector, NextSector, Return, Go, Control, Jobs
<1>4. pc'[t] \notin InRewrite
  <2>1. CASE Go(t, "clear")
    BY <2>1 DEF Go, Control, InRewrite
  <2>2. CASE Return(t)
    <3>1. page' = [page EXCEPT ![t] = 1] /\ lock' = lock
      BY <1>1 DEF Control, Paging
    <3> QED  BY <1>1, <2>2, <3>1, Returned DEF InRewrite
  <2> QED  BY <1>1, <2>1, <2>2
<1> HIDE DEF a
<1> SUFFICES ASSUME NEW s \in Station PROVE Station1(s)'
  BY DEF Held
<1> DEFINE k == SectorOf(s)
<1>5. Station1(s)
  BY DEF Held
<1>6. \A u \in Runner : u \in Rewriting(k)' <=> u \in Rewriting(k)
  BY <1>1, <1>3, <1>4, RewritingIs DEF InRewrite
<1>7. Rewriting(k)' = Rewriting(k)
  BY <1>6, RewritingIs
<1>8. \A u \in Rewriting(k) : pc'[u] = pc[u]
  BY <1>1, <1>3, RewritingIs DEF InRewrite
<1>9. CASE k \in damaged \/ (k = a /\ Rewriting(k) # {})
  <2>1. k \in damaged'
    BY <1>1, <1>9
  <2> QED  BY <2>1 DEF Station1
<1>10. CASE k # a /\ k \notin damaged
  <2>1. stations'[s] = stations[s] /\ book'[s] = book[s]
    BY <1>2, <1>10
  <2> QED  BY <1>1, <1>5, <1>7, <1>8, <1>10, <2>1 DEF Station1
<1>11. CASE k = a /\ Rewriting(k) = {}
  <2>1. stations'[s] = Zeros /\ book'[s] = Zeros
    BY <1>2, <1>11
  <2> QED  BY <1>7, <1>11, <2>1 DEF Station1
<1> QED  BY <1>9, <1>10, <1>11

LEMMA RebootHeld == ASSUME Control, Held, Reboot PROVE Held'
<1>1. \A t \in Runner : pc'[t] \notin InRewrite
  BY DEF Reboot, InRewrite
<1>2. /\ UNCHANGED <<stations, book>>
      /\ damaged' = damaged \cup {At(t) : t \in {u \in Runner : pc[u] = "set write"}}
  BY DEF Reboot
<1> SUFFICES ASSUME NEW s \in Station PROVE Station1(s)'
  BY DEF Held
<1> DEFINE k == SectorOf(s)
<1>3. Rewriting(k)' = {}
  BY <1>1, RewritingIs
<1>4. CASE k \in damaged
  BY <1>2, <1>4 DEF Station1
<1>5. CASE \E t \in Rewriting(k) : pc[t] = "set write"
  <2>1. PICK t \in Runner : pc[t] = "set write" /\ At(t) = k
    BY <1>5 DEF Rewriting
  <2>2. k \in damaged'
    BY <1>2, <2>1
  <2> QED  BY <2>2 DEF Station1
<1>6. CASE k \notin damaged /\ ~\E t \in Rewriting(k) : pc[t] = "set write"
  <2>1. stations[s] = book[s]
    BY <1>6 DEF Held, Station1
  <2> QED  BY <1>2, <1>3, <2>1 DEF Station1
<1> QED  BY <1>4, <1>5, <1>6

LEMMA NextHeld == ASSUME Control, Jobs, Held, [Next]_vars PROVE Held'
<1>1. CASE Boot
  <2>1. UNCHANGED <<stations, book, damaged>>
    BY <1>1 DEF Boot, BootRead, Restore, RestoreWrite, Reread, Default, Start, hist
  <2>2. pc[Main] # "idle"
    BY <1>1 DEF Boot, BootRead, Restore, RestoreWrite, Reread, Default, Start
  <2>3. \A t \in Runner : pc[t] \notin InRewrite
    BY <2>2, Who DEF InRewrite, MainPlan
  <2>4. Control'
    BY <1>1, BootControl
  <2>5. CASE pc' = Started
    BY <2>1, <2>3, <2>5, NoneRewrites DEF Started, InRewrite
  <2>6. CASE pc' # Started
    <3>1. \A t \in Task : pc[t] = "off"
      BY <2>2 DEF Control, Alone
    <3>2. \A t \in Runner : t # Main => pc'[t] = pc[t]
      BY <1>1, <2>6 DEF Boot, BootRead, Restore, RestoreWrite, Reread, Default,
                        Start, NextPage, Return, Go, Control
    <3>3. <<pc'[Main], todo'[Main]>> \in MainPlan
      BY <2>4 DEF Control, Alone
    <3>4. pc'[Main] \notin InRewrite
      BY <3>3 DEF MainPlan, InRewrite
    <3>5. \A t \in Runner : pc'[t] \notin InRewrite
      BY <2>3, <3>2, <3>4
    <3> QED  BY <2>1, <2>3, <3>5, NoneRewrites
  <2> QED  BY <2>5, <2>6
<1>2. CASE Adjust \/ Commit \/ Flush \/ UNCHANGED vars
  <2>1. UNCHANGED <<pc, jobs, sector, stations, book, damaged>>
    BY <1>2 DEF Adjust, Commit, Flush, vars, nvs, hist
  <2>2. \A k : Rewriting(k)' = Rewriting(k)
    BY <2>1, RewritingIs
  <2> QED  BY <2>1, <2>2 DEF Held, Station1
<1>3. CASE Reboot
  BY <1>3, RebootHeld
<1>4. ASSUME NEW t \in Runner, Work(t) \/ Request(t), ~Reboot PROVE Held'
  <2>0. pc[t] # "off" /\ \E l : pc' = [pc EXCEPT ![t] = l]
    BY <1>4, OneMoves
  <2>1. \A u \in Runner : u # t => pc'[u] = pc[u]
    BY <2>0 DEF Control
  <2>2. CASE SetRead(t)
    BY <1>4, <2>2, SetReadHeld
  <2>3. CASE SetErase(t)
    BY <1>4, <2>3, SetEraseHeld
  <2>4. CASE SetWrite(t)
    BY <1>4, <2>4, SetWriteHeld
  <2>5. CASE ClearSector(t)
    BY <1>4, <2>5, ClearSectorHeld
  <2>6. CASE SaveErase(t) \/ Copy(t) \/ CopyErase(t)
    <3>1. pc[t] \notin InRewrite /\ UNCHANGED <<jobs, stations, book, damaged, sector>>
      BY <2>6 DEF SaveErase, Copy, CopyErase, InRewrite, hist
    <3>2. pc'[t] \notin InRewrite
      BY <1>4, <2>6 DEF SaveErase, Copy, CopyErase, Go, Control, InRewrite
    <3> QED  BY <1>4, <2>1, <3>1, <3>2, Elsewhere
  <2>7. CASE SaveWrite(t) \/ CopyWrite(t)
    <3>1. /\ pc[t] \in {"save write", "copy write"} /\ NextPage(t)
          /\ lock' = IF pc[t] = "save write" THEN Unlocked(t) ELSE lock
          /\ UNCHANGED <<jobs, stations, book, damaged, sector>>
      BY <2>7 DEF SaveWrite, CopyWrite, hist
    <3>2. /\ page[t] = 1 => pc' = pc
          /\ page[t] = 2 => pc'[t] \notin InRewrite
      BY <1>4, <3>1, Paged DEF InRewrite
    <3>3. pc[t] \notin InRewrite /\ page[t] \in Page
      BY <1>4, <3>1 DEF InRewrite, Control
    <3> QED  BY <1>4, <2>1, <3>1, <3>2, <3>3, Pages, Elsewhere
  <2>8. CASE EraseDevice(t) \/ EraseDevice1(t)
    <3>1. /\ pc[t] \notin InRewrite /\ UNCHANGED <<stations, book, damaged, sector>>
          /\ \A u \in Runner : u # t => jobs'[u] = jobs[u]
      BY <2>8 DEF EraseDevice, EraseDevice1, InRewrite, hist, Jobs
    <3>2. pc'[t] \notin InRewrite
      BY <1>4, <2>8 DEF EraseDevice, EraseDevice1, Go, Control, InRewrite
    <3> QED  BY <1>4, <2>1, <3>1, <3>2, Elsewhere
  <2>9. CASE SetNvs(t)
    <3>1. /\ pc[t] = "nvs" /\ UNCHANGED <<page, lock>> /\ Return(t)
          /\ UNCHANGED <<jobs, stations, book, damaged, sector>>
      BY <2>9 DEF SetNvs, hist
    <3>2. page' = [page EXCEPT ![t] = 1] /\ lock' = lock
      BY <1>4, <3>1 DEF Control, Paging
    <3>3. pc[t] \notin InRewrite /\ pc'[t] \notin InRewrite
      BY <1>4, <3>1, <3>2, Returned DEF InRewrite
    <3> QED  BY <1>4, <2>1, <3>1, <3>3, Elsewhere
  <2>10. CASE Request(t)
    <3>1. /\ pc[t] = "idle" /\ UNCHANGED <<stations, book, damaged, sector>>
          /\ \A u \in Runner : u # t => jobs'[u] = jobs[u]
      BY <2>10 DEF Request, Change, Edit, Move, Erase, SetVolume, Ask, hist, Jobs
    <3>2. pc'[t] \in {"save", "set", "erase device", "clear", "nvs"}
      BY <1>4, <2>10 DEF Request, Change, Edit, Move, Erase, SetVolume, Begin, Control
    <3>3. pc[t] \notin InRewrite /\ pc'[t] \notin InRewrite
      BY <3>1, <3>2 DEF InRewrite
    <3> QED  BY <1>4, <2>1, <3>1, <3>3, Elsewhere
  <2> QED  BY <1>4, <2>2, <2>3, <2>4, <2>5, <2>6, <2>7, <2>8, <2>9, <2>10
           DEF Work, Restart
<1> QED  BY <1>1, <1>2, <1>3, <1>4 DEF Next, Crash

-----------------------------------------------------------------------------
(* The jobs *)

LEMMA JobIs ==
  ASSUME NEW j \in Job
  PROVE  DOMAIN j \in (SUBSET Station) \ {{}} /\ j \in [DOMAIN j -> Cell]
BY DEF Job

LEMMA JobOf ==
  ASSUME NEW D \in (SUBSET Station) \ {{}}, NEW j \in [D -> Cell] PROVE j \in Job
BY DEF Job

LEMMA HeadIs ==
  ASSUME NEW S, NEW list \in Seq(S), list # <<>>
  PROVE  Head(list) \in S /\ Tail(list) \in Seq(S)
OBVIOUS

LEMMA OneJob ==
  ASSUME NEW S, NEW j \in S, NEW list \in Seq(S)
  PROVE  /\ <<j>> \in Seq(S) /\ <<j>> # <<>>
         /\ <<j>> \o list \in Seq(S) /\ <<j>> \o list # <<>>
         /\ Tail(<<j>> \o list) = list
<1>1. <<j>> \in Seq(S) /\ <<j>> # <<>>
  OBVIOUS
<1>2. <<j>> \o list \in Seq(S) /\ <<j>> \o list # <<>>
  <2>1. Len(<<j>> \o list) = 1 + Len(list)
    BY <1>1
  <2> QED  BY <1>1, <2>1
<1>3. Tail(<<j>> \o list) = list
  BY <1>1
<1> QED  BY <1>1, <1>2, <1>3

LEMMA TwoJobs ==
  ASSUME NEW S, NEW i \in S, NEW j \in S
  PROVE  <<i, j>> \in Seq(S) /\ <<i, j>> # <<>> /\ Tail(<<i, j>>) # <<>>
<1>1. <<i, j>> \in Seq(S) /\ Len(<<i, j>>) = 2
  OBVIOUS
<1>2. Len(Tail(<<i, j>>)) = 1
  BY <1>1
<1> QED  BY <1>1, <1>2

\* What is left of a job when a sector is done.
LEMMA Leftover ==
  ASSUME NEW t \in Runner, jobs[t] \in Seq(Job), jobs[t] # <<>>, NEW k
  PROVE  /\ LeftAfter(t, k) \in Seq(Job)
         /\ DOMAIN Head(jobs[t]) \subseteq InSector(k) => LeftAfter(t, k) = Tail(jobs[t])
         /\ ~(DOMAIN Head(jobs[t]) \subseteq InSector(k)) =>
              LeftAfter(t, k) # <<>> /\ Tail(LeftAfter(t, k)) = Tail(jobs[t])
<1> DEFINE job == Head(jobs[t])
           D == DOMAIN job \ InSector(k)
           left == Restrict(job, D)
<1>1. job \in Job /\ Tail(jobs[t]) \in Seq(Job)
  BY HeadIs
<1>2. DOMAIN left = D
  BY DEF Restrict
<1>3. LeftAfter(t, k) = IF D = {} THEN Tail(jobs[t]) ELSE <<left>> \o Tail(jobs[t])
  BY <1>2 DEF LeftAfter
<1>4. D = {} <=> DOMAIN job \subseteq InSector(k)
  OBVIOUS
<1>5. CASE D = {}
  BY <1>1, <1>3, <1>4, <1>5
<1>6. CASE D # {}
  <2>1. DOMAIN job \in (SUBSET Station) \ {{}} /\ job \in [DOMAIN job -> Cell]
    BY <1>1, JobIs
  <2>2. left \in [D -> Cell] /\ D \in (SUBSET Station) \ {{}}
    BY <1>6, <2>1 DEF Restrict
  <2>3. left \in Job
    BY <2>2, JobOf
  <2> HIDE DEF left, D, job
  <2> QED  BY <1>1, <1>3, <1>4, <1>6, <2>3, OneJob DEF job
<1> QED  BY <1>5, <1>6

\* Only who is at the stations has a second job to do.
LEMMA SecondJob ==
  ASSUME NEW l, NEW q, <<l, q>> \in MainPlan \cup TaskPlan, q = <<"set">>
  PROVE  l \in {"set", "set erase", "set write"}
<1>1. q # <<>> /\ q # <<"copy", "restart">>
  BY OneLeft
<1>2. q # <<"reread">> /\ q # <<"default">> /\ q # <<"start">>
  BY OneLeft
<1>3. q # <<"copy">> /\ q # <<"restart">>
  BY OneLeft
<1> QED  BY <1>1, <1>2, <1>3 DEF MainPlan, TaskPlan

LEMMA NoSecond ==
  ASSUME Control, NEW t \in Runner, pc[t] \notin InSet PROVE todo[t] # <<"set">>
<1>1. CASE pc[t] = "off"
  <2>1. t # Main
    BY <1>1 DEF Control, Alone, MainPlan
  <2>2. t \in Task /\ pc[Main] # "idle"
    BY <1>1, <2>1, Who DEF TaskPlan
  <2>3. todo[t] = <<>>
    BY <2>2 DEF Control, Alone
  <2> QED  BY <2>3, OneLeft
<1>2. CASE <<pc[t], todo[t]>> \in MainPlan \cup TaskPlan
  BY <1>2, SecondJob DEF InSet
<1> QED  BY <1>1, <1>2, Who

LEMMA SaveNoSecond ==
  ASSUME Control, NEW t \in Runner,
         pc[t] \in {"save write", "restore write", "copy write", "nvs", "clear"}
  PROVE  todo[t] # <<"set">>
<1>1. <<pc[t], todo[t]>> \in MainPlan \cup TaskPlan
  BY Who
<1> QED  BY <1>1, SecondJob

\* The next station of a job is one of it, and its sector is a sector.
LEMMA LeastStation ==
  ASSUME NEW D \in (SUBSET Station) \ {{}} PROVE \E s \in D : \A u \in D : s <= u
<1> DEFINE R == OpToRel(<, Nat)
<1>1. IsWellFoundedOn(R, Nat)
  BY NatLessThanWellFounded
<1>2. \A x, y \in Nat : x < y => <<x, y>> \in R
  BY DEF OpToRel
<1>3. D \subseteq Nat
  BY SettingsAssumption DEF Station
<1> HIDE DEF R
<1>4. PICK s \in D : \A u \in D : ~(<<u, s>> \in R)
  BY <1>1, <1>3, WFMin
<1>5. \A u \in D : ~(u < s)
  BY <1>2, <1>3, <1>4
<1>6. \A u \in D : s <= u
  BY <1>3, <1>5
<1> QED  BY <1>4, <1>6

LEMMA AtSector ==
  ASSUME NEW t \in Runner, jobs[t] \in Seq(Job), jobs[t] # <<>> PROVE At(t) \in Sector
<1> DEFINE D == DOMAIN Head(jobs[t])
<1>1. D \in (SUBSET Station) \ {{}}
  BY HeadIs, JobIs
<1>2. \E s \in D : \A u \in D : s <= u
  BY <1>1, LeastStation
<1>3. PICK s \in D : At(t) = SectorOf(s)
  BY <1>2 DEF At
<1>4. s \in Station
  BY <1>1
<1> QED  BY <1>3, <1>4 DEF Sector

\* A step of one task that leaves it work enough.
LEMMA JobsStep ==
  ASSUME Control, Jobs, NEW t \in Runner,
         \A u \in Runner : u # t => /\ pc'[u] = pc[u] /\ jobs'[u] = jobs[u]
                                   /\ todo'[u] = todo[u],
         stations' \in [Station -> Cell], book' \in [Station -> Cell],
         sector' \in [Runner -> [Station -> Cell]],
         jobs' \in [Runner -> Seq(Job)],
         pc'[t] \in InSet => jobs'[t] # <<>>,
         todo'[t] = <<"set">> => Tail(jobs'[t]) # <<>>
  PROVE  Jobs'
BY DEF Jobs

\* A step of one task that has nothing to do with the stations.
LEMMA JobsElse ==
  ASSUME Control, Jobs, NEW t \in Runner,
         \A u \in Runner : u # t => pc'[u] = pc[u] /\ todo'[u] = todo[u],
         UNCHANGED <<stations, book, sector, jobs>>,
         pc'[t] \notin InSet, todo'[t] # <<"set">>
  PROVE  Jobs'
BY JobsStep DEF Jobs

LEMMA WhiteSector == [s \in Station |-> Ones] \in [Station -> Cell]
BY DEF Cell

LEMMA InitJobs == Init => Jobs
<1> SUFFICES ASSUME Init PROVE Jobs
  OBVIOUS
<1>1. [s \in Station |-> s] \in [Station -> Cell]
  BY SettingsAssumption DEF Station, Cell
<1>2. <<>> \in Seq(Job) /\ <<>> # <<"set">>
  BY OneLeft
<1>3. \A t \in Runner : pc[t] \notin InSet /\ todo[t] # <<"set">>
  BY <1>2 DEF Init, InSet
<1> QED  BY <1>1, <1>2, <1>3, WhiteSector DEF Init, Jobs

LEMMA RebootJobs == ASSUME Jobs, Reboot PROVE Jobs'
<1>1. <<>> \in Seq(Job) /\ <<>> # <<"set">>
  BY OneLeft
<1>2. \A t \in Runner : pc'[t] \notin InSet /\ todo'[t] # <<"set">>
  BY <1>1 DEF Reboot, InSet
<1>3. jobs' \in [Runner -> Seq(Job)] /\ sector' \in [Runner -> [Station -> Cell]]
  BY <1>1, WhiteSector DEF Reboot
<1> QED  BY <1>2, <1>3 DEF Reboot, Jobs

LEMMA BootJobs == ASSUME Control, Jobs, Boot PROVE Jobs'
<1>0. Main \in Runner /\ UNCHANGED <<stations, book, sector, jobs>>
  BY DEF Boot, BootRead, Restore, RestoreWrite, Reread, Default, Start, Runner, hist
<1>1. CASE RestoreWrite
  <2>1. /\ pc[Main] = "restore write" /\ NextPage(Main) /\ lock' = lock
        /\ todo[Main] # <<"set">> /\ page[Main] \in Page
    BY <1>0, <1>1, SaveNoSecond DEF RestoreWrite, Control
  <2>2. /\ page[Main] = 1 => pc' = pc
        /\ page[Main] = 2 => /\ pc'[Main] \notin {"set erase", "set write", "clear"}
                             /\ pc'[Main] = "set" => todo[Main] = <<"set">>
                             /\ todo'[Main] # <<"set">>
    BY <1>0, <2>1, Paged
  <2>3. page[Main] = 1 => todo' = todo
    BY <2>1, Pages DEF NextPage
  <2>4. pc'[Main] \notin InSet /\ todo'[Main] # <<"set">>
    BY <2>1, <2>2, <2>3, Pages DEF InSet
  <2>5. \A u \in Runner : u # Main => pc'[u] = pc[u] /\ todo'[u] = todo[u]
    BY <2>1 DEF NextPage, Return, Control
  <2> QED  BY <1>0, <2>4, <2>5, JobsElse
<1>2. CASE BootRead \/ Restore \/ Reread \/ Default \/ Start
  <2>1. \A u \in Runner : pc[u] \notin InSet
    <3>1. pc[Main] \in {"read", "restore", "reread", "default", "start"}
      BY <1>2 DEF BootRead, Restore, Reread, Default, Start
    <3> QED  BY <3>1, Who DEF InSet
  <2>2. \A u \in Runner : pc'[u] \notin InSet
    BY <1>2, <2>1 DEF BootRead, Restore, Reread, Default, Start, Started, Go,
                      Control, InSet
  <2>3. \A u \in Runner : todo[u] # <<"set">>
    BY <2>1, NoSecond
  <2>4. <<"reread">> # <<"set">> /\ <<"default">> # <<"set">> /\ <<"start">> # <<"set">>
    BY OneLeft
  <2>5. \A u \in Runner : todo'[u] # <<"set">>
    BY <1>2, <2>3, <2>4 DEF BootRead, Restore, Reread, Default, Start, Control
  <2> QED  BY <1>0, <2>2, <2>5 DEF Jobs
<1> QED  BY <1>1, <1>2 DEF Boot

\* On to the next sector.
LEMMA NextSectorJobs ==
  ASSUME Control, Jobs, NEW t \in Runner, NEW l \in {"set", "clear"}, NextSector(t, l),
         pc[t] \in {"set write", "clear"}, UNCHANGED <<page, lock>>,
         stations' \in [Station -> Cell], book' \in [Station -> Cell],
         sector' \in [Runner -> [Station -> Cell]]
  PROVE  Jobs'
<1> DEFINE k == At(t)
<1>1. jobs[t] \in Seq(Job) /\ jobs[t] # <<>> /\ jobs \in [Runner -> Seq(Job)]
  BY DEF Jobs, InSet
<1>2. jobs' = [jobs EXCEPT ![t] = LeftAfter(t, k)]
  BY DEF NextSector
<1>3. LeftAfter(t, k) \in Seq(Job)
  BY <1>1, Leftover
<1>4. jobs' \in [Runner -> Seq(Job)] /\ jobs'[t] = LeftAfter(t, k)
  BY <1>1, <1>2, <1>3
<1>5. \A u \in Runner : u # t => /\ pc'[u] = pc[u] /\ jobs'[u] = jobs[u]
                                 /\ todo'[u] = todo[u]
  BY <1>1, <1>2 DEF NextSector, Return, Go, Control
<1>6. CASE DOMAIN Head(jobs[t]) \subseteq InSector(k)
  <2>1. Return(t) /\ jobs'[t] = Tail(jobs[t])
    BY <1>1, <1>4, <1>6, Leftover DEF NextSector
  <2>2. page' = [page EXCEPT ![t] = 1] /\ lock' = IF pc[t] = "save write" THEN NULL ELSE lock
    BY DEF Control, Paging
  <2>3. /\ pc'[t] \notin {"set erase", "set write", "clear"}
        /\ pc'[t] = "set" => todo[t] = <<"set">>
        /\ todo'[t] # <<"set">>
    BY <2>1, <2>2, Returned
  <2>4. pc'[t] \in InSet => jobs'[t] # <<>>
    BY <2>1, <2>3 DEF Jobs, InSet
  <2> QED  BY <1>4, <1>5, <2>3, <2>4, JobsStep
<1>7. CASE ~(DOMAIN Head(jobs[t]) \subseteq InSector(k))
  <2>1. UNCHANGED todo /\ jobs'[t] # <<>> /\ Tail(jobs'[t]) = Tail(jobs[t])
    BY <1>1, <1>4, <1>7, Leftover DEF NextSector
  <2>2. todo'[t] = <<"set">> => Tail(jobs'[t]) # <<>>
    BY <2>1 DEF Jobs
  <2> QED  BY <1>4, <1>5, <2>1, <2>2, JobsStep
<1> QED  BY <1>6, <1>7

LEMMA WorkJobs ==
  ASSUME Control, Jobs, NEW t \in Runner, Work(t), ~Reboot PROVE Jobs'
<1>0. \A u \in Runner : u # t => pc'[u] = pc[u]
  <2>1. \E l : pc' = [pc EXCEPT ![t] = l]
    BY OneMoves
  <2> QED  BY <2>1 DEF Control
<1>1. CASE SaveErase(t) \/ Copy(t) \/ CopyErase(t)
  <2>1. /\ pc[t] \notin InSet /\ pc'[t] \notin InSet
        /\ UNCHANGED <<stations, book, sector, jobs, todo>>
    BY <1>1 DEF SaveErase, Copy, CopyErase, Go, Control, InSet, hist
  <2>2. todo[t] # <<"set">>
    BY <2>1, NoSecond
  <2> QED  BY <1>0, <2>1, <2>2, JobsElse
<1>2. CASE SaveWrite(t) \/ CopyWrite(t)
  <2>1. /\ pc[t] \in {"save write", "copy write"} /\ NextPage(t)
        /\ lock' = IF pc[t] = "save write" THEN Unlocked(t) ELSE lock
        /\ UNCHANGED <<stations, book, sector, jobs>>
    BY <1>2 DEF SaveWrite, CopyWrite, hist
  <2>2. todo[t] # <<"set">> /\ page[t] \in Page
    BY <2>1, SaveNoSecond DEF Control
  <2>3. /\ page[t] = 1 => pc' = pc
        /\ page[t] = 2 => /\ pc'[t] \notin {"set erase", "set write", "clear"}
                          /\ pc'[t] = "set" => todo[t] = <<"set">>
                          /\ todo'[t] # <<"set">>
    BY <2>1, Paged
  <2>4. page[t] = 1 => todo' = todo
    BY <2>1, Pages DEF NextPage
  <2>5. pc'[t] \notin InSet /\ todo'[t] # <<"set">>
    BY <2>1, <2>2, <2>3, <2>4, Pages DEF InSet
  <2>6. \A u \in Runner : u # t => todo'[u] = todo[u]
    BY <2>1 DEF NextPage, Return, Control
  <2> QED  BY <1>0, <2>1, <2>5, <2>6, JobsElse
<1>3. CASE EraseDevice(t)
  <2>1. /\ pc[t] \notin InSet /\ pc'[t] \notin InSet
        /\ UNCHANGED <<stations, book, sector, jobs, todo>>
    BY <1>3 DEF EraseDevice, Go, Control, InSet, hist
  <2>2. todo[t] # <<"set">>
    BY <2>1, NoSecond
  <2> QED  BY <1>0, <2>1, <2>2, JobsElse
<1>4. CASE EraseDevice1(t)
  <2>1. /\ pc[t] \notin InSet /\ UNCHANGED <<stations, book, sector, todo>>
    BY <1>4 DEF EraseDevice1, InSet, hist
  <2>2. todo[t] # <<"set">>
    BY <2>1, NoSecond
  <2>3. NoStations \in Seq(Job) /\ NoStations # <<>>
    <3>1. Station \in (SUBSET Station) \ {{}}
      BY SettingsAssumption DEF Station
    <3>2. [s \in Station |-> Zeros] \in [Station -> Cell]
      BY DEF Cell
    <3> QED  BY <3>1, <3>2, JobOf, OneJob DEF NoStations
  <2>4. /\ jobs' \in [Runner -> Seq(Job)]
        /\ \A u \in Runner : u # t => jobs'[u] = jobs[u]
    BY <1>4, <2>3 DEF EraseDevice1, Jobs
  <2>5. pc'[t] \in InSet => jobs'[t] # <<>>
    BY <1>4, <2>3 DEF EraseDevice1, Go, Control, Jobs, InSet
  <2> QED  BY <1>0, <2>1, <2>2, <2>4, <2>5, JobsStep DEF Jobs
<1>5. CASE ClearSector(t)
  <2>1. /\ NextSector(t, "clear") /\ pc[t] = "clear" /\ UNCHANGED <<page, lock, sector>>
    BY <1>5 DEF ClearSector
  <2>2. stations' \in [Station -> Cell] /\ book' \in [Station -> Cell]
    BY <1>5 DEF ClearSector, Jobs, Cell
  <2> QED  BY <2>1, <2>2, NextSectorJobs DEF Jobs
<1>6. CASE SetRead(t)
  <2>1. /\ pc[t] = "set" /\ pc'[t] = "set erase"
        /\ UNCHANGED <<stations, book, jobs, todo>>
    BY <1>6 DEF SetRead, Go, Control
  <2>2. [s \in Station |-> IF SectorOf(s) = At(t) THEN stations[s] ELSE Ones]
          \in [Station -> Cell]
    BY DEF Jobs, Cell
  <2>3. sector' \in [Runner -> [Station -> Cell]]
    BY <1>6, <2>2 DEF SetRead, Jobs
  <2>4. jobs[t] # <<>> /\ (todo[t] = <<"set">> => Tail(jobs[t]) # <<>>)
    BY <2>1 DEF Jobs, InSet
  <2> QED  BY <1>0, <2>1, <2>3, <2>4, JobsStep DEF Jobs
<1>7. CASE SetErase(t)
  <2>1. /\ pc[t] = "set erase" /\ UNCHANGED <<book, sector, jobs, todo>>
    BY <1>7 DEF SetErase, hist
  <2>2. stations' \in [Station -> Cell]
    BY <1>7 DEF SetErase, Jobs, Cell
  <2>3. jobs[t] # <<>> /\ (todo[t] = <<"set">> => Tail(jobs[t]) # <<>>)
    BY <2>1 DEF Jobs, InSet
  <2> QED  BY <1>0, <2>1, <2>2, <2>3, JobsStep DEF Jobs
<1>8. CASE SetWrite(t)
  <2> DEFINE job == Head(jobs[t])
  <2>1. /\ NextSector(t, "set") /\ pc[t] = "set write" /\ UNCHANGED <<page, lock>>
    BY <1>8 DEF SetWrite
  <2>2. jobs[t] \in Seq(Job) /\ jobs[t] # <<>>
    BY <2>1 DEF Jobs, InSet
  <2>3. job \in [DOMAIN job -> Cell]
    BY <2>2, HeadIs, JobIs
  <2>4. \A s \in Station : Merged(t, s) \in Cell
    BY <2>3 DEF Merged, Jobs
  <2>5. \A s \in Station : And(stations[s], Merged(t, s)) \in Cell
    BY <2>4, AndCell DEF Jobs
  <2>6. stations' \in [Station -> Cell]
    BY <1>8, <2>5 DEF SetWrite, Jobs
  <2>7. book' \in [Station -> Cell]
    BY <1>8, <2>3 DEF SetWrite, Jobs
  <2>8. sector' \in [Runner -> [Station -> Cell]]
    BY <1>8, WhiteSector DEF SetWrite, Jobs
  <2> QED  BY <2>1, <2>6, <2>7, <2>8, NextSectorJobs
<1>9. CASE SetNvs(t)
  <2>1. /\ pc[t] = "nvs" /\ UNCHANGED <<page, lock>> /\ Return(t)
        /\ UNCHANGED <<stations, book, sector, jobs>>
    BY <1>9 DEF SetNvs, hist
  <2>2. page' = [page EXCEPT ![t] = 1] /\ lock' = lock
    BY <2>1 DEF Control, Paging
  <2>3. todo[t] # <<"set">>
    BY <2>1, SaveNoSecond
  <2>4. pc'[t] \notin InSet /\ todo'[t] # <<"set">>
    BY <2>1, <2>2, <2>3, Returned DEF InSet
  <2>5. \A u \in Runner : u # t => todo'[u] = todo[u]
    BY <2>1 DEF Return, Control
  <2> QED  BY <1>0, <2>1, <2>4, <2>5, JobsElse
<1> QED  BY <1>1, <1>2, <1>3, <1>4, <1>5, <1>6, <1>7, <1>8, <1>9 DEF Work, Restart

LEMMA RequestJobs ==
  ASSUME Control, Blocks, Jobs, NEW t \in Runner, Request(t) PROVE Jobs'
<1>0. \A u \in Runner : u # t => pc'[u] = pc[u] /\ todo'[u] = todo[u]
  BY DEF Request, Change, Edit, Move, Erase, SetVolume, Begin, Control
<1>1. /\ UNCHANGED <<stations, book, sector>>
      /\ stations' \in [Station -> Cell] /\ book' \in [Station -> Cell]
      /\ sector' \in [Runner -> [Station -> Cell]]
  BY DEF Request, Change, Edit, Move, Erase, SetVolume, hist, Jobs
<1>2. <<>> # <<"set">> /\ <<"copy">> # <<"set">> /\ <<"copy", "restart">> # <<"set">>
  <2>1. Len(<<"copy", "restart">>) = 2 /\ Len(<<"set">>) = 1
    OBVIOUS
  <2> QED  BY <2>1, OneLeft
<1>3. CASE Change(t) \/ SetVolume(t)
  <2>1. pc'[t] \notin InSet /\ UNCHANGED jobs
    BY <1>3 DEF Change, SetVolume, Begin, Control, InSet
  <2>2. todo'[t] # <<"set">>
    BY <1>2, <1>3 DEF Change, SetVolume, Begin, Control
  <2> QED  BY <1>0, <1>1, <2>1, <2>2, JobsElse
<1>4. CASE Edit(t)
  <2>1. PICK a, b \in Station :
          /\ a <= b
          /\ jobs' = [jobs EXCEPT ![t] = <<[s \in a .. b |-> NStations + Fresh]>>]
    BY <1>4 DEF Edit
  <2>2. a .. b \in (SUBSET Station) \ {{}}
    BY <2>1, SettingsAssumption DEF Station
  <2>3. NStations + Fresh \in Cell
    BY SettingsAssumption DEF Blocks, Fresh, Cell
  <2>4. [s \in a .. b |-> NStations + Fresh] \in Job
    BY <2>2, <2>3, JobOf
  <2>5. /\ jobs' \in [Runner -> Seq(Job)] /\ jobs'[t] # <<>>
        /\ \A u \in Runner : u # t => jobs'[u] = jobs[u]
    BY <2>1, <2>4, OneJob DEF Jobs
  <2>6. todo'[t] # <<"set">>
    BY <1>2, <1>4 DEF Edit, Begin, Control
  <2> QED  BY <1>0, <1>1, <2>5, <2>6, JobsStep
<1>5. CASE Move(t)
  <2>1. PICK prev, curr \in Station :
          jobs' = [jobs EXCEPT ![t] = <<[s \in {curr} |-> stations[prev]],
                                       [s \in {prev} |-> stations[curr]]>>]
    BY <1>5 DEF Move
  <2> DEFINE i == [s \in {curr} |-> stations[prev]]
             j == [s \in {prev} |-> stations[curr]]
  <2>2. i \in [{curr} -> Cell] /\ j \in [{prev} -> Cell]
    BY DEF Jobs
  <2>3. i \in Job /\ j \in Job
    BY <2>2, JobOf
  <2> HIDE DEF i, j
  <2>4. jobs' = [jobs EXCEPT ![t] = <<i, j>>]
    BY <2>1 DEF i, j
  <2>5. /\ jobs' \in [Runner -> Seq(Job)] /\ jobs'[t] # <<>> /\ Tail(jobs'[t]) # <<>>
        /\ \A u \in Runner : u # t => jobs'[u] = jobs[u]
    BY <2>3, <2>4, TwoJobs DEF Jobs
  <2> QED  BY <1>0, <1>1, <2>5, JobsStep
<1>6. CASE Erase(t)
  <2>1. todo'[t] # <<"set">> /\ pc[t] = "idle"
    BY <1>2, <1>6 DEF Erase, Ask, Begin, Control
  <2>2. CASE UNCHANGED jobs /\ Begin(t, "erase device", <<>>)
    <3>1. pc'[t] \notin InSet
      BY <2>2 DEF Begin, Control, InSet
    <3> QED  BY <1>0, <1>1, <2>1, <2>2, <3>1, JobsElse
  <2>3. CASE jobs' = [jobs EXCEPT ![t] = NoStations]
    <3>1. Station \in (SUBSET Station) \ {{}}
      BY SettingsAssumption DEF Station
    <3>2. [s \in Station |-> Zeros] \in [Station -> Cell]
      BY DEF Cell
    <3>3. NoStations \in Seq(Job) /\ NoStations # <<>>
      BY <3>1, <3>2, JobOf, OneJob DEF NoStations
    <3>4. /\ jobs' \in [Runner -> Seq(Job)] /\ jobs'[t] # <<>>
          /\ \A u \in Runner : u # t => jobs'[u] = jobs[u]
      BY <2>3, <3>3 DEF Jobs
    <3> QED  BY <1>0, <1>1, <2>1, <3>4, JobsStep
  <2> QED  BY <1>6, <2>2, <2>3 DEF Erase
<1> QED  BY <1>3, <1>4, <1>5, <1>6 DEF Request

LEMMA NextJobs == ASSUME Control, Blocks, Jobs, [Next]_vars PROVE Jobs'
<1>1. CASE Adjust \/ Commit \/ Flush \/ UNCHANGED vars
  <2>1. UNCHANGED <<pc, todo, jobs, sector, stations, book>>
    BY <1>1 DEF Adjust, Commit, Flush, vars, nvs, hist
  <2> QED  BY <2>1 DEF Jobs
<1> QED  BY <1>1, BootJobs, RebootJobs, WorkJobs, RequestJobs DEF Next, Crash

-----------------------------------------------------------------------------
(* The rest of the types *)

Others == /\ arg \in [Runner -> Nat] /\ timer \in BOOLEAN /\ raced \in BOOLEAN
          /\ {volume, written, stored, crashes} \subseteq Nat
          /\ lock \in Runner \cup {NULL}
          /\ damaged \subseteq Sector

LEMMA InitOthers == Init => Others
<1> SUFFICES ASSUME Init PROVE Others
  OBVIOUS
<1>1. arg \in [Runner -> Nat] /\ timer \in BOOLEAN /\ raced \in BOOLEAN
  BY DEF Init
<1>2. volume \in Nat /\ written \in Nat /\ stored \in Nat /\ crashes \in Nat
  BY DEF Init
<1>3. lock \in Runner \cup {NULL} /\ damaged \subseteq Sector
  BY DEF Init
<1> QED  BY <1>1, <1>2, <1>3 DEF Others

LEMMA RebootOthers ==
  ASSUME Control, Jobs, Others, Reboot, crashes' \in Nat PROVE Others'
<1>1. ASSUME NEW t \in Runner, pc[t] = "set write" PROVE At(t) \in Sector
  BY <1>1, AtSector DEF Jobs, InSet
<1>2. damaged' \subseteq Sector
  <2> DEFINE D == {At(t) : t \in {u \in Runner : pc[u] = "set write"}}
  <2>1. D \subseteq Sector
    BY <1>1
  <2>2. damaged' = damaged \cup D
    BY DEF Reboot
  <2> QED  BY <2>1, <2>2 DEF Others
<1>3. arg' \in [Runner -> Nat] /\ timer' \in BOOLEAN /\ raced' \in BOOLEAN
  BY DEF Reboot
<1>4. volume' \in Nat /\ written' \in Nat /\ stored' \in Nat
  BY DEF Reboot, Others
<1>5. lock' \in Runner \cup {NULL}
  BY DEF Reboot
<1> QED  BY <1>2, <1>3, <1>4, <1>5 DEF Others

LEMMA BootOthers == ASSUME Others, Boot PROVE Others'
BY DEF Boot, BootRead, Restore, RestoreWrite, Reread, Default, Start, Others, nvs, hist

LEMMA WorkOthers ==
  ASSUME Control, Jobs, Others, NEW t \in Runner, Work(t) PROVE Others'
<1>1. CASE SaveErase(t)
  BY <1>1 DEF SaveErase, Others, nvs, hist
<1>2. CASE SaveWrite(t)
  BY <1>2 DEF SaveWrite, Unlocked, Others, nvs, hist
<1>3. CASE Copy(t) \/ CopyErase(t) \/ CopyWrite(t) \/ EraseDevice(t) \/ EraseDevice1(t)
  BY <1>3 DEF Copy, CopyErase, CopyWrite, EraseDevice, EraseDevice1, Others, nvs, hist
<1>4. CASE ClearSector(t) \/ SetRead(t)
  <2>1. At(t) \in Sector
    BY <1>4, AtSector DEF ClearSector, SetRead, Jobs, InSet
  <2> QED  BY <1>4, <2>1 DEF ClearSector, SetRead, Others, nvs
<1>5. CASE SetErase(t) \/ SetWrite(t)
  BY <1>5 DEF SetErase, SetWrite, Others, nvs, hist
<1>6. CASE SetNvs(t)
  BY <1>6 DEF SetNvs, TimerStarted, Others, hist
<1>7. CASE Restart(t)
  BY <1>7, RebootOthers DEF Restart, Others
<1> QED  BY <1>1, <1>2, <1>3, <1>4, <1>5, <1>6, <1>7 DEF Work

LEMMA NextOthers ==
  ASSUME Control, Blocks, Jobs, Others, [Next]_vars PROVE Others'
<1>1. CASE Adjust \/ Commit \/ Flush \/ UNCHANGED vars
  BY <1>1 DEF Adjust, Commit, Flush, vars, nvs, hist, Others
<1>2. CASE Crash
  <2>1. crashes' \in Nat
    BY <1>2 DEF Crash, Others
  <2> QED  BY <1>2, <2>1, RebootOthers DEF Crash
<1>3. ASSUME NEW t \in Runner, Request(t) PROVE Others'
  <2>1. Fresh \in Nat
    BY DEF Blocks, Fresh
  <2> QED  BY <1>3, <2>1 DEF Request, Change, Edit, Move, Erase, SetVolume, nvs, hist,
                            Others
<1> QED  BY <1>1, <1>2, <1>3, BootOthers, WorkOthers DEF Next

-----------------------------------------------------------------------------
(* The theorems *)

LEMMA InitKept == Init => Kept
BY DEF Init, Kept, Unread, Runner

LEMMA InitHeld == Init => Held
<1> SUFFICES ASSUME Init, NEW s \in Station PROVE Station1(s)
  BY DEF Held
<1>1. \A t \in Runner : pc[t] \notin InRewrite
  BY DEF Init, InRewrite
<1>2. Rewriting(SectorOf(s)) = {} /\ stations = book
  BY <1>1, RewritingIs DEF Init
<1> QED  BY <1>2 DEF Station1

IInv == Control /\ Blocks /\ Kept /\ Restoring /\ Jobs /\ Held /\ Others

LEMMA Inductive == Spec => []IInv
<1>1. Init => IInv
  BY InitControl, InitBlocks, InitKept, InitRestoring, InitJobs, InitHeld, InitOthers
     DEF IInv
<1>2. IInv /\ [Next]_vars => IInv'
  BY NextControl, NextBlocks, NextKept, NextRestoring, NextJobs, NextHeld, NextOthers
     DEF IInv
<1> QED  BY <1>1, <1>2, PTL DEF Spec

\* Every variable keeps to its type, and who works on the stations partition has a
\* job for it (eeprom_set_data, eeprom_erase_webstations).
THEOREM Typing == Spec => []TypeOK
<1>1. IInv => TypeOK
  <2> SUFFICES ASSUME IInv PROVE TypeOK
    OBVIOUS
  <2>1. ASSUME NEW t \in Runner, NEW i \in DOMAIN jobs[t]
        PROVE  /\ jobs[t][i] \in [DOMAIN jobs[t][i] -> Cell]
               /\ DOMAIN jobs[t][i] \in (SUBSET Station) \ {{}}
    <3>1. jobs[t][i] \in Job
      BY <2>1 DEF IInv, Jobs
    <3> QED  BY <3>1, JobIs
  <2>2. {volume, written, stored, changes, crashes} \subseteq Nat
    BY DEF IInv, Others, Blocks
  <2> QED  BY <2>1, <2>2 DEF IInv, Control, Blocks, Jobs, Others, TypeOK
<1> QED  BY <1>1, Inductive, PTL

\* A station that was saved is there, unless two requests rewrote its sector at the
\* same time or the power failed in between (eeprom_set_data).
THEOREM StationsSafe == Spec => []StationsKept
<1>1. IInv => StationsKept
  <2> SUFFICES ASSUME IInv, NEW s \in Station, SectorOf(s) \notin damaged,
                      ~\E t \in Runner : pc[t] = "set write" /\ At(t) = SectorOf(s)
               PROVE  stations[s] = book[s]
    BY DEF StationsKept
  <2>1. ~\E t \in Rewriting(SectorOf(s)) : pc[t] = "set write"
    BY DEF Rewriting
  <2> QED  BY <2>1 DEF IInv, Held, Station1
<1> QED  BY <1>1, Inductive, PTL

\* Whenever nobody is at work, DEVICE holds the settings that are in use, but for
\* fields the code changes by itself and does not save, or the zeros of a factory
\* reset, whatever requests ran at the same time and wherever the power failed
\* (eeprom_save_device_settings, app_state_init).
THEOREM SettingsSaved == Spec => []IdleMeansSaved
<1>1. IInv => IdleMeansSaved
  <2> SUFFICES ASSUME Kept, \A t \in Runner : pc[t] = "idle"
               PROVE  \A p \in Page : Alike(device[p], g[p])
    BY DEF IInv, IdleMeansSaved, Alike
  <2>1. pc[Main] \notin Unread
    BY DEF Unread, Runner
  <2> QED  BY <2>1 DEF Kept, Saved, Ahead
<1> QED  BY <1>1, Inductive, PTL

\* A start that finds a valid backup touches neither it nor the stations
\* (app_state_init, eeprom_restore_device_settings).
THEOREM BackupSpared == Spec => BackupSparesStations
<1>1. IInv /\ [Next]_vars =>
        [Starting /\ Valid(device1) => UNCHANGED <<device1, stations>>]_vars
  BY NextSpares DEF IInv
<1> QED  BY <1>1, Inductive, PTL DEF Spec, BackupSparesStations

=============================================================================
