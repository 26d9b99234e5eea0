-------------------------- MODULE AudioPathProofs --------------------------
(***************************************************************************)
(* Proofs about AudioPath, for every set of calls and every number of them.   *)
(*                                                                          *)
(* A call is a sequence of steps, so the argument is one about programs: what *)
(* is known before a sequence of steps and what is known after it.  Triples    *)
(* ({known} steps {known}) are proved for every function of ext_gpio.c,       *)
(* merus.c, i2s_redirector.c and action_manager.c; the invariant says that     *)
(* what a solo call has left to do leads from the present state to its goal.   *)
(* Radio says what the goal is, given the radio that the call found.  Nothing  *)
(* is said of the pin of the display, so that the display's task disturbs no   *)
(* fact as long as the port_b it has read is the port_b it writes.            *)
(***************************************************************************)
EXTENDS AudioPath, SequenceTheorems, TLAPS

USE DEF Paused, ext_gpio_set_lcd

-----------------------------------------------------------------------------
\* The Booleans of the redirector.
Running == {"is_running", "task", "channel"}

(***************************************************************************)
(* What may be known to hold or not to hold: a pin other than the display's   *)
(* is high as far as port_b says, a flag is set, the chip lacks a change of   *)
(* port_b ("unsent", of which only that it does not hold is ever known), the  *)
(* task's copy is up to date ("ready"), i2s_redirector_stop found the         *)
(* redirector running ("prev").                                             *)
(*                                                                          *)
(* Of these, what a step makes true, makes false, and may change at all.      *)
(***************************************************************************)
Raised(a, h, l) ==
  CASE a.do = "store"  -> (a.set \ {LCD}) \cup {"ready"}
    [] a.do = "assign" -> IF a.to THEN {a.flag} ELSE {}
    [] a.do = "load"   -> {"ready"}
    [] a.do = "redirector_stop" -> IF "is_running" \in h THEN {"prev"} ELSE {}
    [] a.do = "toggle" -> l \cap {"sleeping"}
    [] OTHER           -> {}
Lowered(a, h, l) ==
  CASE a.do = "store"  -> a.clear \ (a.set \cup {LCD})
    [] a.do = "assign" -> IF a.to THEN {} ELSE {a.flag}
    [] a.do = "write"  -> {"unsent"}
    [] a.do = "redirector_stop" ->
         {"is_running"} \cup (IF "is_running" \in l THEN {"prev"} ELSE {})
    [] a.do = "toggle" -> h \cap {"sleeping"}
    [] OTHER           -> {}
Touched(a) ==
  CASE a.do = "store"  -> a.set \cup a.clear \cup {"unsent", "ready"}
    [] a.do = "assign" -> {a.flag}
    [] a.do = "load"   -> {"ready"}
    [] a.do = "write"  -> {"unsent", "ready"}
    [] a.do = "redirector_stop" -> Running \cup {"prev"}
    [] a.do = "redirector_restore" -> Running
    [] a.do = "toggle" -> {"sleeping"}
    [] OTHER           -> {}

\* With h known to hold and l known not to, the step may be taken, and h2 and l2
\* are known after it.
Flow(a, h, l, h2, l2) ==
  /\ a.do \in {"store", "write"} => "ready" \in h
  /\ a.do = "merus" => MERUS_CS \in h /\ {"unsent", "is_running"} \subseteq l
  /\ h2 \subseteq (h \ Touched(a)) \cup Raised(a, h, l)
  /\ l2 \subseteq (l \ Touched(a)) \cup Lowered(a, h, l)

\* H and L annotate the program P from before its first step to after its last.
Outline(P, H, L) ==
  \A i \in 1 .. Len(P) : Flow(P[i], H[i], L[i], H[i + 1], L[i + 1])

\* The triple {h, l} P {h2, l2}.
Leads(h, l, P, h2, l2) ==
  /\ P \in Seq(Small)
  /\ \E H, L :
       /\ Outline(P, H, L)
       /\ H[1] \subseteq h /\ h2 \subseteq H[Len(P) + 1]
       /\ L[1] \subseteq l /\ l2 \subseteq L[Len(P) + 1]

-----------------------------------------------------------------------------
(* The rules of the triples *)

LEMMA Skip ==
  ASSUME NEW h, NEW l, NEW h2, NEW l2, h2 \subseteq h, l2 \subseteq l
  PROVE  Leads(h, l, <<>>, h2, l2)
<1> DEFINE H == [i \in 1..1 |-> h]
           L == [i \in 1..1 |-> l]
<1>1. Outline(<<>>, H, L) /\ <<>> \in Seq(Small) /\ Len(<<>>) = 0
  BY DEF Outline
<1>2. H[1] = h /\ L[1] = l
  OBVIOUS
<1> QED  BY <1>1, <1>2 DEF Leads

LEMMA Single ==
  ASSUME NEW a \in Small, NEW h, NEW l, NEW h2, NEW l2, Flow(a, h, l, h2, l2)
  PROVE  Leads(h, l, <<a>>, h2, l2)
<1> DEFINE H == [i \in 1..2 |-> IF i = 1 THEN h ELSE h2]
           L == [i \in 1..2 |-> IF i = 1 THEN l ELSE l2]
<1>1. <<a>> \in Seq(Small) /\ Len(<<a>>) = 1 /\ <<a>>[1] = a
  OBVIOUS
<1>2. H[1] = h /\ L[1] = l /\ H[2] = h2 /\ L[2] = l2
  OBVIOUS
<1> HIDE DEF H, L
<1>3. Outline(<<a>>, H, L)
  BY <1>1, <1>2 DEF Outline
<1> QED  BY <1>1, <1>2, <1>3 DEF Leads

LEMMA Weaken ==
  ASSUME NEW P, NEW h, NEW l, NEW h2, NEW l2, Leads(h, l, P, h2, l2),
         NEW g, NEW m, NEW g2, NEW m2,
         h \subseteq g, l \subseteq m, g2 \subseteq h2, m2 \subseteq l2
  PROVE  Leads(g, m, P, g2, m2)
<1>1. PICK H, L : /\ Outline(P, H, L)
                  /\ H[1] \subseteq h /\ h2 \subseteq H[Len(P) + 1]
                  /\ L[1] \subseteq l /\ l2 \subseteq L[Len(P) + 1]
  BY DEF Leads
<1>2. P \in Seq(Small)
  BY DEF Leads
<1>3. /\ H[1] \subseteq g /\ g2 \subseteq H[Len(P) + 1]
      /\ L[1] \subseteq m /\ m2 \subseteq L[Len(P) + 1]
  BY <1>1
<1> QED  BY <1>1, <1>2, <1>3 DEF Leads

LEMMA FlowMonotone ==
  ASSUME NEW a, NEW h, NEW l, NEW h2, NEW l2, Flow(a, h, l, h2, l2),
         NEW g, NEW m, NEW g2, NEW m2,
         h \subseteq g, l \subseteq m, g2 \subseteq h2, m2 \subseteq l2
  PROVE  Flow(a, g, m, g2, m2)
<1> DEFINE T == Touched(a)
           U == Raised(a, h, l)
           D == Lowered(a, h, l)
           V == Raised(a, g, m)
           E == Lowered(a, g, m)
<1>1. /\ a.do \in {"store", "write"} => "ready" \in g
      /\ a.do = "merus" => MERUS_CS \in g /\ {"unsent", "is_running"} \subseteq m
  BY DEF Flow
<1>2. h2 \subseteq (h \ T) \cup U /\ l2 \subseteq (l \ T) \cup D
  BY DEF Flow
<1>3. U \subseteq V /\ D \subseteq E
  BY DEF Raised, Lowered
<1> HIDE DEF T, U, D, V, E
<1>4. g2 \subseteq (g \ T) \cup V /\ m2 \subseteq (m \ T) \cup E
  BY <1>2, <1>3
<1> QED  BY <1>1, <1>4 DEF Flow, T, V, E

LEMMA Then ==
  ASSUME NEW P, NEW Q, NEW h, NEW l, NEW h2, NEW l2, NEW h3, NEW l3,
         Leads(h, l, P, h2, l2), Leads(h2, l2, Q, h3, l3)
  PROVE  Leads(h, l, P \o Q, h3, l3)
<1>1. PICK H, L : /\ Outline(P, H, L)
                  /\ H[1] \subseteq h /\ h2 \subseteq H[Len(P) + 1]
                  /\ L[1] \subseteq l /\ l2 \subseteq L[Len(P) + 1]
  BY DEF Leads
<1>2. PICK HQ, LQ : /\ Outline(Q, HQ, LQ)
                    /\ HQ[1] \subseteq h2 /\ h3 \subseteq HQ[Len(Q) + 1]
                    /\ LQ[1] \subseteq l2 /\ l3 \subseteq LQ[Len(Q) + 1]
  BY DEF Leads
<1>3. /\ P \in Seq(Small) /\ Q \in Seq(Small) /\ Len(P) \in Nat /\ Len(Q) \in Nat
      /\ P \o Q \in Seq(Small) /\ Len(P \o Q) = Len(P) + Len(Q)
      /\ \A i \in 1 .. Len(P) + Len(Q) :
           (P \o Q)[i] = IF i <= Len(P) THEN P[i] ELSE Q[i - Len(P)]
  BY ConcatProperties DEF Leads
<1> DEFINE p == Len(P)
           q == Len(Q)
           G == [i \in 1 .. p + q + 1 |-> IF i <= p THEN H[i] ELSE HQ[i - p]]
           M == [i \in 1 .. p + q + 1 |-> IF i <= p THEN L[i] ELSE LQ[i - p]]
<1>4. ASSUME NEW i \in 1 .. p + q
      PROVE  Flow((P \o Q)[i], G[i], M[i], G[i + 1], M[i + 1])
  <2>1. CASE i < p
    <3>1. /\ (P \o Q)[i] = P[i] /\ G[i] = H[i] /\ M[i] = L[i]
          /\ G[i + 1] = H[i + 1] /\ M[i + 1] = L[i + 1] /\ i \in 1 .. p
      BY <1>3, <2>1
    <3> QED  BY <1>1, <3>1 DEF Outline
  <2>2. CASE i = p
    <3>1. /\ (P \o Q)[i] = P[i] /\ G[i] = H[i] /\ M[i] = L[i]
          /\ G[i + 1] = HQ[1] /\ M[i + 1] = LQ[1] /\ i \in 1 .. p
      BY <1>3, <2>2
    <3>2. Flow(P[i], H[i], L[i], H[i + 1], L[i + 1])
      BY <1>1, <3>1 DEF Outline
    <3>3. HQ[1] \subseteq H[i + 1] /\ LQ[1] \subseteq L[i + 1]
      BY <1>1, <1>2, <2>2
    <3>4. Flow(P[i], H[i], L[i], HQ[1], LQ[1])
      BY <3>2, <3>3, FlowMonotone
    <3> QED  BY <3>1, <3>4
  <2>3. CASE i > p
    <3>1. /\ (P \o Q)[i] = Q[i - p] /\ G[i] = HQ[i - p] /\ M[i] = LQ[i - p]
          /\ G[i + 1] = HQ[(i - p) + 1] /\ M[i + 1] = LQ[(i - p) + 1]
          /\ i - p \in 1 .. q
      BY <1>3, <2>3
    <3> QED  BY <1>2, <3>1 DEF Outline
  <2> QED  BY <1>3, <2>1, <2>2, <2>3
<1>5. G[1] \subseteq h /\ M[1] \subseteq l
  <2>1. CASE p = 0
    <3>1. G[1] = HQ[1] /\ M[1] = LQ[1]
      BY <1>3, <2>1
    <3> QED  BY <1>1, <1>2, <2>1, <3>1
  <2>2. CASE p # 0
    <3>1. G[1] = H[1] /\ M[1] = L[1]
      BY <1>3, <2>2
    <3> QED  BY <1>1, <3>1
  <2> QED  BY <2>1, <2>2
<1>6. h3 \subseteq G[p + q + 1] /\ l3 \subseteq M[p + q + 1]
  <2>1. G[p + q + 1] = HQ[q + 1] /\ M[p + q + 1] = LQ[q + 1]
    BY <1>3
  <2> QED  BY <1>2, <2>1
<1> HIDE DEF G, M
<1>7. Outline(P \o Q, G, M)
  BY <1>3, <1>4 DEF Outline
<1> QED  BY <1>3, <1>5, <1>6, <1>7 DEF Leads

\* The first step of a program and the rest of it.
LEMMA First ==
  ASSUME NEW P, NEW h, NEW l, NEW h2, NEW l2, Leads(h, l, P, h2, l2), P # <<>>
  PROVE  /\ Head(P) \in Small /\ Tail(P) \in Seq(Small)
         /\ \E h1, l1 : Flow(Head(P), h, l, h1, l1) /\ Leads(h1, l1, Tail(P), h2, l2)
<1>1. PICK H, L : /\ Outline(P, H, L)
                  /\ H[1] \subseteq h /\ h2 \subseteq H[Len(P) + 1]
                  /\ L[1] \subseteq l /\ l2 \subseteq L[Len(P) + 1]
  BY DEF Leads
<1>2. /\ P \in Seq(Small) /\ Len(P) \in Nat /\ Len(P) >= 1 /\ Head(P) = P[1]
      /\ Head(P) \in Small /\ Tail(P) \in Seq(Small) /\ Len(Tail(P)) = Len(P) - 1
      /\ \A i \in 1 .. Len(Tail(P)) : Tail(P)[i] = P[i + 1]
  BY HeadTailProperties DEF Leads
<1>3. Flow(Head(P), h, l, H[2], L[2])
  <2>1. Flow(P[1], H[1], L[1], H[1 + 1], L[1 + 1])
    BY <1>1, <1>2 DEF Outline
  <2> QED  BY <1>1, <1>2, <2>1, FlowMonotone
<1> DEFINE G == [i \in 1 .. Len(P) |-> H[i + 1]]
           M == [i \in 1 .. Len(P) |-> L[i + 1]]
<1>4. G[1] = H[2] /\ M[1] = L[2] /\ G[Len(P)] = H[Len(P) + 1] /\ M[Len(P)] = L[Len(P) + 1]
  BY <1>2
<1>5. ASSUME NEW i \in 1 .. Len(Tail(P))
      PROVE  Flow(Tail(P)[i], G[i], M[i], G[i + 1], M[i + 1])
  <2>1. /\ Tail(P)[i] = P[i + 1] /\ G[i] = H[i + 1] /\ G[i + 1] = H[(i + 1) + 1]
        /\ M[i] = L[i + 1] /\ M[i + 1] = L[(i + 1) + 1] /\ i + 1 \in 1 .. Len(P)
    BY <1>2
  <2> QED  BY <1>1, <2>1 DEF Outline
<1> HIDE DEF G, M
<1>6. Outline(Tail(P), G, M)
  BY <1>5 DEF Outline
<1>7. Leads(H[2], L[2], Tail(P), h2, l2)
  <2>1. Len(Tail(P)) + 1 = Len(P)
    BY <1>2
  <2> QED  BY <1>1, <1>2, <1>4, <1>6, <2>1 DEF Leads
<1> QED  BY <1>2, <1>3, <1>7

LEMMA LeadsNowhere ==
  ASSUME NEW h, NEW l, NEW h2, NEW l2, Leads(h, l, <<>>, h2, l2)
  PROVE  h2 \subseteq h /\ l2 \subseteq l
<1>1. PICK H, L : /\ H[1] \subseteq h /\ h2 \subseteq H[Len(<<>>) + 1]
                  /\ L[1] \subseteq l /\ l2 \subseteq L[Len(<<>>) + 1]
  BY DEF Leads
<1>2. Len(<<>>) + 1 = 1
  OBVIOUS
<1> QED  BY <1>1, <1>2

-----------------------------------------------------------------------------
(* ext_gpio.c and the steps of one line *)

LEMMA PlainStep ==
  ASSUME NEW w \in Plain, NEW h, NEW l, NEW h2, NEW l2,
         Flow([do |-> w], h, l, h2, l2)
  PROVE  Leads(h, l, Do(w), h2, l2)
<1>1. [do |-> w] \in Small
  BY DEF Small
<1> QED  BY <1>1, Single DEF Do

LEMMA AssignStep ==
  ASSUME NEW v \in Flag, NEW b \in BOOLEAN, NEW h, NEW l, NEW h2, NEW l2,
         h2 \subseteq (h \ {v}) \cup (IF b THEN {v} ELSE {}),
         l2 \subseteq (l \ {v}) \cup (IF b THEN {} ELSE {v})
  PROVE  Leads(h, l, Assign(v, b), h2, l2)
<1> DEFINE a == [do |-> "assign", flag |-> v, to |-> b]
<1>1. a \in Small /\ a.do = "assign" /\ a.flag = v /\ a.to = b
  BY DEF Small, Assigns
<1> HIDE DEF a
<1>2. Flow(a, h, l, h2, l2)
  BY <1>1 DEF Flow, Raised, Lowered, Touched
<1>3. Assign(v, b) = <<a>>
  BY DEF Assign, a
<1> QED  BY <1>1, <1>2, <1>3, Single

LEMMA UpdateLeads ==
  ASSUME NEW set \in SUBSET Pin, NEW clear \in SUBSET Pin,
         NEW h, NEW l, NEW h2, NEW l2,
         h2 \subseteq (h \ (set \cup clear \cup {"unsent"})) \cup (set \ {LCD}) \cup {"ready"},
         l2 \subseteq (l \ (set \cup clear \cup {"unsent", "ready"}))
                  \cup (clear \ (set \cup {LCD}))
  PROVE  Leads(h, l, Update(set, clear), h2, l2)
<1> DEFINE a == [do |-> "store", set |-> set, clear |-> clear]
           load == [do |-> "load"]
<1>1. a \in Small /\ a.do = "store" /\ a.set = set /\ a.clear = clear
  BY DEF Small, Stores
<1>2. "load" \in Plain /\ load.do = "load"
  BY DEF Plain
<1>3. Update(set, clear) = Do("load") \o <<a>>
  BY DEF Update
<1> HIDE DEF a, load
<1>4. Flow(load, h, l, h \cup {"ready"}, l \ {"ready"})
  BY <1>2 DEF Flow, Raised, Lowered, Touched
<1>5. Leads(h, l, Do("load"), h \cup {"ready"}, l \ {"ready"})
  BY <1>2, <1>4, PlainStep DEF load
<1>6. Flow(a, h \cup {"ready"}, l \ {"ready"}, h2, l2)
  BY <1>1 DEF Flow, Raised, Lowered, Touched
<1>7. Leads(h \cup {"ready"}, l \ {"ready"}, <<a>>, h2, l2)
  BY <1>1, <1>6, Single
<1> QED  BY <1>3, <1>5, <1>7, Then

LEMMA WriteLeads ==
  ASSUME NEW h, NEW l, NEW h2, NEW l2, "ready" \in h,
         h2 \subseteq h \ {"unsent", "ready"},
         l2 \subseteq (l \ {"ready"}) \cup {"unsent"}
  PROVE  Leads(h, l, Do("write"), h2, l2)
<1>1. "write" \in Plain
  BY DEF Plain
<1>2. Flow([do |-> "write"], h, l, h2, l2)
  BY DEF Flow, Raised, Lowered, Touched
<1> QED  BY <1>1, <1>2, PlainStep

LEMMA RaiseLeads ==
  ASSUME NEW pin \in Pin \ {LCD}, NEW h, NEW l, NEW h2, NEW l2,
         h2 \subseteq (h \ {"unsent", "ready"}) \cup {pin},
         l2 \subseteq (l \ {pin, "ready"}) \cup {"unsent"}
  PROVE  Leads(h, l, Drive(pin, TRUE), h2, l2)
<1> DEFINE g == (h \ {"unsent"}) \cup {pin, "ready"}
           m == l \ {pin, "unsent", "ready"}
<1>1. Drive(pin, TRUE) = Update({pin}, {}) \o Do("write")
  BY DEF Drive
<1>2. Leads(h, l, Update({pin}, {}), g, m)
  BY UpdateLeads
<1>3. "ready" # pin /\ "unsent" # pin
  BY DEF Pin, EN, MUTE, MERUS_CS, FM_CS, I2S_0, I2S_1, LCD
<1>4. Leads(g, m, Do("write"), h2, l2)
  BY <1>3, WriteLeads
<1> HIDE DEF g, m
<1>5. Leads(h, l, Update({pin}, {}) \o Do("write"), h2, l2)
  BY <1>2, <1>4, Then
<1> QED  BY <1>1, <1>5

LEMMA LowerLeads ==
  ASSUME NEW pin \in Pin \ {LCD}, NEW h, NEW l, NEW h2, NEW l2,
         h2 \subseteq h \ {pin, "unsent", "ready"},
         l2 \subseteq (l \ {"ready"}) \cup {pin, "unsent"}
  PROVE  Leads(h, l, Drive(pin, FALSE), h2, l2)
<1> DEFINE g == (h \ {pin, "unsent"}) \cup {"ready"}
           m == (l \ {"unsent", "ready"}) \cup {pin}
<1>1. Drive(pin, FALSE) = Update({}, {pin}) \o Do("write")
  BY DEF Drive
<1>2. Leads(h, l, Update({}, {pin}), g, m)
  BY UpdateLeads
<1>3. "ready" # pin /\ "unsent" # pin
  BY DEF Pin, EN, MUTE, MERUS_CS, FM_CS, I2S_0, I2S_1, LCD
<1>4. Leads(g, m, Do("write"), h2, l2)
  BY <1>3, WriteLeads
<1> HIDE DEF g, m
<1>5. Leads(h, l, Update({}, {pin}) \o Do("write"), h2, l2)
  BY <1>2, <1>4, Then
<1> QED  BY <1>1, <1>5

\* What the functions of ext_gpio.c drive.
LEMMA Drives ==
  /\ ext_gpio_set_merus_chip_select(TRUE) = Drive(MERUS_CS, TRUE)
  /\ ext_gpio_set_merus_chip_select(FALSE) = Drive(MERUS_CS, FALSE)
  /\ ext_gpio_set_fm_chip_select(TRUE) = Drive(FM_CS, TRUE)
  /\ ext_gpio_set_fm_chip_select(FALSE) = Drive(FM_CS, FALSE)
  /\ ext_gpio_set_merus_en(TRUE) = Drive(EN, FALSE)
  /\ ext_gpio_set_merus_en(FALSE) = Drive(EN, TRUE)
  /\ ext_gpio_set_merus_mute(TRUE) = Drive(MUTE, FALSE)
  /\ ext_gpio_set_merus_mute(FALSE) = Drive(MUTE, TRUE)
  /\ ext_gpio_set_lcd(TRUE) = Drive(LCD, TRUE)
  /\ ext_gpio_set_lcd(FALSE) = Drive(LCD, FALSE)
  /\ {EN, MUTE, MERUS_CS, FM_CS, I2S_0, I2S_1} \subseteq Pin \ {LCD} /\ LCD \in Pin
BY DEF ext_gpio_set_merus_chip_select, ext_gpio_set_fm_chip_select,
       ext_gpio_set_merus_en, ext_gpio_set_merus_mute, Drive, Pin,
       EN, MUTE, MERUS_CS, FM_CS, I2S_0, I2S_1, LCD

\* The display's pin is driven without a trace in what is known.
LEMMA LcdLeads ==
  ASSUME NEW high \in BOOLEAN, NEW h, NEW l, NEW h2, NEW l2,
         h2 \subseteq h \ {LCD, "unsent", "ready"},
         l2 \subseteq (l \ {LCD, "ready"}) \cup {"unsent"}
  PROVE  Leads(h, l, Drive(LCD, high), h2, l2)
<1> DEFINE set   == IF high THEN {LCD} ELSE {}
           clear == IF high THEN {} ELSE {LCD}
           g == (h \ {LCD, "unsent"}) \cup {"ready"}
           m == l \ {LCD, "unsent", "ready"}
<1>1. Drive(LCD, high) = Update(set, clear) \o Do("write")
  BY DEF Drive
<1>2. /\ set \in SUBSET Pin /\ clear \in SUBSET Pin
      /\ set \cup clear = {LCD} /\ set \ {LCD} = {} /\ clear \ (set \cup {LCD}) = {}
  BY Drives
<1> HIDE DEF set, clear
<1>3. Leads(h, l, Update(set, clear), g, m)
  BY <1>2, UpdateLeads
<1>4. Leads(g, m, Do("write"), h2, l2)
  <2>1. /\ "ready" \in g /\ h2 \subseteq g \ {"unsent", "ready"}
        /\ l2 \subseteq (m \ {"ready"}) \cup {"unsent"}
    OBVIOUS
  <2> HIDE DEF g, m
  <2> QED  BY <2>1, WriteLeads
<1> HIDE DEF g, m
<1>5. Leads(h, l, Update(set, clear) \o Do("write"), h2, l2)
  BY <1>3, <1>4, Then
<1> QED  BY <1>1, <1>5

LEMMA I2sLeads ==
  ASSUME NEW pin \in {I2S_0, I2S_1}, NEW h, NEW l, NEW h2, NEW l2,
         h2 \subseteq (h \ {I2S_0, I2S_1, "unsent", "ready"}) \cup {pin},
         l2 \subseteq (l \ {pin, "ready"}) \cup ({I2S_0, I2S_1} \ {pin}) \cup {"unsent"}
  PROVE  Leads(h, l, ext_gpio_set_i2s(pin), h2, l2)
<1> DEFINE b == {I2S_0, I2S_1}
           g == (h \ (b \cup {"unsent"})) \cup {"ready"}
           m == (l \ {"unsent", "ready"}) \cup b
           g2 == (h \ (b \cup {"unsent"})) \cup {pin, "ready"}
           m2 == ((l \cup b) \ {pin, "unsent", "ready"})
<1> USE DEF I2S_0, I2S_1
<1>1. ext_gpio_set_i2s(pin) = (Update({}, b) \o Update({pin}, {})) \o Do("write")
  BY DEF ext_gpio_set_i2s
<1>2. Leads(h, l, Update({}, b), g, m)
  BY UpdateLeads, Drives
<1>3. Leads(g, m, Update({pin}, {}), g2, m2)
  BY UpdateLeads, Drives
<1>4. Leads(g2, m2, Do("write"), h2, l2)
  BY WriteLeads
<1> HIDE DEF b, g, m, g2, m2
<1>5. Leads(h, l, Update({}, b) \o Update({pin}, {}), g2, m2)
  BY <1>2, <1>3, Then
<1>6. Leads(h, l, (Update({}, b) \o Update({pin}, {})) \o Do("write"), h2, l2)
  BY <1>4, <1>5, Then
<1> QED  BY <1>1, <1>6

-----------------------------------------------------------------------------
(* i2s_redirector.c, merus.c and rda5807.c *)

LEMMA StopRedirector ==
  ASSUME NEW h, NEW l, NEW h2, NEW l2,
         h2 \subseteq (h \ (Running \cup {"prev"}))
                  \cup (IF "is_running" \in h THEN {"prev"} ELSE {}),
         l2 \subseteq (l \ (Running \cup {"prev"})) \cup {"is_running"}
                  \cup (IF "is_running" \in l THEN {"prev"} ELSE {})
  PROVE  Leads(h, l, Do("redirector_stop"), h2, l2)
<1>1. "redirector_stop" \in Plain
  BY DEF Plain
<1>2. Flow([do |-> "redirector_stop"], h, l, h2, l2)
  BY DEF Flow, Raised, Lowered, Touched
<1> QED  BY <1>1, <1>2, PlainStep

LEMMA TalkLeads ==
  ASSUME NEW h, NEW l, NEW h2, NEW l2, MERUS_CS \in h, "unsent" \in l,
         h2 \subseteq h \ (Running \cup {"prev"}),
         l2 \subseteq l \ (Running \cup {"prev"})
  PROVE  Leads(h, l, Do("redirector_stop") \o Do("merus") \o Do("redirector_restore"),
               h2, l2)
<1> DEFINE g == h \ (Running \cup {"prev"})
           m == (l \ (Running \cup {"prev"})) \cup {"is_running"}
<1>1. Leads(h, l, Do("redirector_stop"), g, m)
  BY StopRedirector
<1>2. Leads(g, m, Do("merus"), g, m)
  <2>1. "merus" \in Plain
    BY DEF Plain
  <2>2. Flow([do |-> "merus"], g, m, g, m)
    BY DEF Flow, Raised, Lowered, Touched, Running, MERUS_CS
  <2> QED  BY <2>1, <2>2, PlainStep
<1>3. Leads(g, m, Do("redirector_restore"), h2, l2)
  <2>1. "redirector_restore" \in Plain
    BY DEF Plain
  <2>2. Flow([do |-> "redirector_restore"], g, m, h2, l2)
    BY DEF Flow, Raised, Lowered, Touched, Running
  <2> QED  BY <2>1, <2>2, PlainStep
<1> HIDE DEF g, m
<1>4. Leads(h, l, Do("redirector_stop") \o Do("merus"), g, m)
  BY <1>1, <1>2, Then
<1> QED  BY <1>3, <1>4, Then

LEMMA StartLeads ==
  ASSUME NEW h, NEW l, NEW h2, NEW l2,
         h2 \subseteq h \cup Running, l2 \subseteq l \ Running
  PROVE  Leads(h, l, i2s_redirector_start, h2, l2)
<1> USE DEF Running, Flag
<1> DEFINE g == h \cup {"channel"}
           m == l \ {"channel"}
           g2 == h \cup {"channel", "task"}
           m2 == l \ {"channel", "task"}
<1>1. Leads(h, l, Assign("channel", TRUE), g, m)
  BY AssignStep
<1>2. Leads(g, m, Assign("task", TRUE), g2, m2)
  BY AssignStep
<1>3. Leads(g2, m2, Assign("is_running", TRUE), h2, l2)
  BY AssignStep
<1> HIDE DEF g, m, g2, m2
<1>4. Leads(h, l, Assign("channel", TRUE) \o Assign("task", TRUE), g2, m2)
  BY <1>1, <1>2, Then
<1> QED  BY <1>3, <1>4, Then DEF i2s_redirector_start

LEMMA StopLeads ==
  ASSUME NEW h, NEW l, NEW h2, NEW l2,
         h2 \subseteq h \ Running, l2 \subseteq l \cup Running
  PROVE  Leads(h, l, StopRunning, h2, l2)
<1> USE DEF Running, Flag
<1> DEFINE g == h \ {"task"}
           m == l \cup {"task"}
           g2 == h \ {"channel", "task"}
           m2 == l \cup {"channel", "task"}
<1>1. Leads(h, l, Assign("task", FALSE), g, m)
  BY AssignStep
<1>2. Leads(g, m, Assign("channel", FALSE), g2, m2)
  BY AssignStep
<1>3. Leads(g2, m2, Assign("is_running", FALSE), h2, l2)
  BY AssignStep
<1> HIDE DEF g, m, g2, m2
<1>4. Leads(h, l, Assign("task", FALSE) \o Assign("channel", FALSE), g2, m2)
  BY <1>1, <1>2, Then
<1> QED  BY <1>3, <1>4, Then DEF StopRunning

Amp == {EN, MUTE, MERUS_CS, "unsent", "ready", "prev"} \cup Running

LEMMA MerusInit ==
  ASSUME NEW h, NEW l, NEW h2, NEW l2,
         h2 \subseteq (h \ Amp) \cup {MUTE},
         l2 \subseteq (l \ Amp) \cup {MERUS_CS, EN, "unsent"}
  PROVE  Leads(h, l, merus_init, h2, l2)
<1> USE DEF Amp, Running, EN, MUTE, MERUS_CS
<1> DEFINE g  == (h \ Amp) \cup {MERUS_CS}
           m1 == (l \ Amp) \cup {"unsent"}
           m2 == (l \ Amp) \cup {"unsent", MUTE}
           m3 == (l \ Amp) \cup {"unsent", MUTE, EN}
           g5 == (h \ Amp) \cup {MERUS_CS, MUTE}
           m5 == (l \ Amp) \cup {"unsent", EN}
           talk == Do("redirector_stop") \o Do("merus") \o Do("redirector_restore")
<1>1. Leads(h, l, Drive(MERUS_CS, TRUE), g, m1)
  BY Drives, RaiseLeads
<1>2. Leads(g, m1, Drive(MUTE, FALSE), g, m2)
  BY Drives, LowerLeads
<1>3. Leads(g, m2, Drive(EN, FALSE), g, m3)
  BY Drives, LowerLeads
<1>4. Leads(g, m3, talk, g, m3)
  BY TalkLeads
<1>5. Leads(g, m3, Drive(MUTE, TRUE), g5, m5)
  BY Drives, RaiseLeads
<1>6. Leads(g5, m5, Drive(MERUS_CS, FALSE), h2, l2)
  BY Drives, LowerLeads
<1>7. merus_init = Drive(MERUS_CS, TRUE) \o Drive(MUTE, FALSE) \o Drive(EN, FALSE)
                     \o talk \o Drive(MUTE, TRUE) \o Drive(MERUS_CS, FALSE)
  BY Drives DEF merus_init
<1> HIDE DEF g, m1, m2, m3, g5, m5, talk
<1>8. Leads(h, l, Drive(MERUS_CS, TRUE) \o Drive(MUTE, FALSE), g, m2)
  BY <1>1, <1>2, Then
<1>9. Leads(h, l, Drive(MERUS_CS, TRUE) \o Drive(MUTE, FALSE) \o Drive(EN, FALSE), g, m3)
  BY <1>3, <1>8, Then
<1>10. Leads(h, l, Drive(MERUS_CS, TRUE) \o Drive(MUTE, FALSE) \o Drive(EN, FALSE)
                     \o talk, g, m3)
  BY <1>4, <1>9, Then
<1>11. Leads(h, l, Drive(MERUS_CS, TRUE) \o Drive(MUTE, FALSE) \o Drive(EN, FALSE)
                     \o talk \o Drive(MUTE, TRUE), g5, m5)
  BY <1>5, <1>10, Then
<1> QED  BY <1>6, <1>7, <1>11, Then

LEMMA MerusDeinit ==
  ASSUME NEW h, NEW l, NEW h2, NEW l2,
         h2 \subseteq (h \ {MUTE, MERUS_CS, "unsent", "ready"}) \cup {EN},
         l2 \subseteq (l \ {EN, "ready"}) \cup {MERUS_CS, MUTE, "unsent"}
  PROVE  Leads(h, l, merus_deinit, h2, l2)
<1> USE DEF EN, MUTE, MERUS_CS
<1> DEFINE g  == h \ {MERUS_CS, "unsent", "ready"}
           m  == (l \ {"ready"}) \cup {MERUS_CS, "unsent"}
           g2 == h \ {MUTE, MERUS_CS, "unsent", "ready"}
           m2 == (l \ {"ready"}) \cup {MERUS_CS, MUTE, "unsent"}
<1>1. Leads(h, l, Drive(MERUS_CS, FALSE), g, m)
  BY Drives, LowerLeads
<1>2. Leads(g, m, Drive(MUTE, FALSE), g2, m2)
  BY Drives, LowerLeads
<1>3. Leads(g2, m2, Drive(EN, TRUE), h2, l2)
  BY Drives, RaiseLeads
<1>4. merus_deinit = Drive(MERUS_CS, FALSE) \o Drive(MUTE, FALSE) \o Drive(EN, TRUE)
  BY Drives DEF merus_deinit
<1> HIDE DEF g, m, g2, m2
<1>5. Leads(h, l, Drive(MERUS_CS, FALSE) \o Drive(MUTE, FALSE), g2, m2)
  BY <1>1, <1>2, Then
<1> QED  BY <1>3, <1>4, <1>5, Then

LEMMA FmRegistersLeads ==
  ASSUME NEW h, NEW l, NEW h2, NEW l2,
         h2 \subseteq h \ {FM_CS, "unsent", "ready"},
         l2 \subseteq (l \ {FM_CS, "ready"}) \cup {"unsent"}
  PROVE  Leads(h, l, FmRegisters, h2, l2)
<1> USE DEF FM_CS
<1> DEFINE g == (h \ {"unsent", "ready"}) \cup {FM_CS}
           m == (l \ {FM_CS, "ready"}) \cup {"unsent"}
<1>1. Leads(h, l, Drive(FM_CS, TRUE), g, m)
  BY Drives, RaiseLeads
<1>2. Leads(g, m, Do("rda5807"), g, m)
  <2>1. "rda5807" \in Plain
    BY DEF Plain
  <2>2. Flow([do |-> "rda5807"], g, m, g, m)
    BY DEF Flow, Raised, Lowered, Touched
  <2> QED  BY <2>1, <2>2, PlainStep
<1>3. Leads(g, m, Drive(FM_CS, FALSE), h2, l2)
  BY Drives, LowerLeads
<1>4. FmRegisters = Drive(FM_CS, TRUE) \o Do("rda5807") \o Drive(FM_CS, FALSE)
  BY Drives DEF FmRegisters
<1> HIDE DEF g, m
<1>5. Leads(h, l, Drive(FM_CS, TRUE) \o Do("rda5807"), g, m)
  BY <1>1, <1>2, Then
<1> QED  BY <1>3, <1>4, <1>5, Then

AmpAndSource == Amp \cup {I2S_0, I2S_1}

LEMMA PlayThroughLeads ==
  ASSUME NEW pin \in {I2S_0, I2S_1}, NEW h, NEW l, NEW h2, NEW l2,
         h2 \subseteq (h \ AmpAndSource) \cup {MUTE, pin} \cup Running,
         l2 \subseteq (l \ AmpAndSource) \cup {MERUS_CS, EN, "unsent"} \cup ({I2S_0, I2S_1} \ {pin})
  PROVE  Leads(h, l, PlayThrough(pin), h2, l2)
<1> USE DEF AmpAndSource, Amp, Running, EN, MUTE, MERUS_CS, I2S_0, I2S_1
<1> DEFINE g  == (h \ AmpAndSource) \cup {MUTE}
           m  == (l \ AmpAndSource) \cup {MERUS_CS, EN, "unsent"}
           g2 == (h \ AmpAndSource) \cup {MUTE} \cup Running
<1>1. Leads(h, l, merus_init, g, m)
  BY MerusInit
<1>2. Leads(g, m, i2s_redirector_start, g2, m)
  BY StartLeads
<1>3. Leads(g2, m, ext_gpio_set_i2s(pin), h2, l2)
  BY I2sLeads
<1> HIDE DEF g, m, g2
<1>4. Leads(h, l, merus_init \o i2s_redirector_start, g2, m)
  BY <1>1, <1>2, Then
<1> QED  BY <1>3, <1>4, Then DEF PlayThrough

-----------------------------------------------------------------------------
(* action_manager.c *)

LEMMA SetVolumeLeads ==
  ASSUME NEW h, NEW l, NEW h2, NEW l2,
         h2 \subseteq h \ Amp, l2 \subseteq (l \ Amp) \cup {MERUS_CS, "unsent"}
  PROVE  Leads(h, l, merus_set_volume, h2, l2)
<1> USE DEF Amp, Running, EN, MUTE, MERUS_CS
<1> DEFINE g == (h \ Amp) \cup {MERUS_CS}
           m == (l \ Amp) \cup {"unsent"}
           talk == Do("redirector_stop") \o Do("merus") \o Do("redirector_restore")
<1>1. Leads(h, l, Drive(MERUS_CS, TRUE), g, m)
  BY Drives, RaiseLeads
<1>2. Leads(g, m, talk, g, m)
  BY TalkLeads
<1>3. Leads(g, m, Drive(MERUS_CS, FALSE), h2, l2)
  BY Drives, LowerLeads
<1>4. merus_set_volume = Drive(MERUS_CS, TRUE) \o talk \o Drive(MERUS_CS, FALSE)
  BY Drives DEF merus_set_volume
<1> HIDE DEF g, m, talk
<1>5. Leads(h, l, Drive(MERUS_CS, TRUE) \o talk, g, m)
  BY <1>1, <1>2, Then
<1> QED  BY <1>3, <1>4, <1>5, Then

\* What is known when a source is heard, and when the amplifier is off.
WebHi == {MUTE, I2S_1} \cup Running
WebLo == {EN, MERUS_CS, I2S_0, "unsent"}
FmHi  == {MUTE, I2S_0} \cup Running
FmLo  == {EN, MERUS_CS, I2S_1, "unsent"}
SilentLo == {MUTE, MERUS_CS, "is_running", "unsent"}

LEMMA WebstationStopLeads ==
  ASSUME NEW h, NEW l, NEW h2, NEW l2,
         h2 \subseteq {EN} \cup (h \cap {"is_fm", "fm", "sleeping"}),
         l2 \subseteq SilentLo \cup {"web"} \cup (l \cap {"is_fm", "fm", "sleeping"})
  PROVE  Leads(h, l, action_webstation_stop, h2, l2)
<1> USE DEF Flag, Running, EN, MUTE, MERUS_CS, SilentLo
<1> DEFINE g  == h \cap {"is_fm", "fm", "sleeping"}
           m1 == (l \cap {"is_fm", "fm", "sleeping"}) \cup {"web"}
           m2 == (l \cap {"is_fm", "fm", "sleeping"}) \cup {"web", "is_running"}
<1>1. Leads(h, l, Assign("web", FALSE), g, m1)
  BY AssignStep
<1>2. Leads(g, m1, Do("redirector_stop"), g, m2)
  BY StopRedirector
<1>3. Leads(g, m2, merus_deinit, h2, l2)
  BY MerusDeinit
<1> HIDE DEF g, m1, m2
<1>4. Leads(h, l, Assign("web", FALSE) \o Do("redirector_stop"), g, m2)
  BY <1>1, <1>2, Then
<1> QED  BY <1>3, <1>4, Then DEF action_webstation_stop

LEMMA WebstationSetLeads ==
  ASSUME NEW resolved \in BOOLEAN, NEW h, NEW l, NEW h2, NEW l2,
         h2 \subseteq WebHi \cup (IF resolved THEN {"web"} ELSE {}) \cup (h \cap {"sleeping"}),
         l2 \subseteq WebLo \cup {"is_fm"} \cup (IF resolved THEN {} ELSE {"web"})
                  \cup (l \cap {"sleeping"})
  PROVE  Leads(h, l, action_webstation_set(resolved), h2, l2)
<1> USE DEF Flag, AmpAndSource, Amp, Running, EN, MUTE, MERUS_CS, I2S_0, I2S_1, WebHi, WebLo,
            SilentLo
<1> DEFINE g1 == (h \cap {"sleeping"}) \cup {"web"}
           m1 == l \cap {"sleeping"}
           m  == (l \cap {"sleeping"}) \cup {"is_fm"}
           g2 == (h \cap {"sleeping"}) \cup (IF resolved THEN {"web"} ELSE {})
           m2 == (l \cap {"sleeping"}) \cup {"is_fm"} \cup (IF resolved THEN {} ELSE {"web"})
<1>1. Leads(h, l, Assign("web", TRUE), g1, m1)
  BY AssignStep
<1>2. Leads(g1, m1, Assign("fm", FALSE), g1, m1)
  BY AssignStep
<1>3. Leads(g1, m1, Assign("is_fm", FALSE), g1, m)
  BY AssignStep
<1>4. Leads(g1, m, merus_set_volume, g1, m)
  BY SetVolumeLeads
<1>5. Leads(g1, m, Connect(resolved), g2, m2)
  <2>1. CASE resolved
    BY <2>1, Skip DEF Connect
  <2>2. CASE ~resolved
    <3>1. /\ g2 \subseteq {EN} \cup (g1 \cap {"is_fm", "fm", "sleeping"})
          /\ m2 \subseteq SilentLo \cup {"web"} \cup (m \cap {"is_fm", "fm", "sleeping"})
      BY <2>2
    <3> HIDE DEF g1, m, g2, m2
    <3> QED  BY <2>2, <3>1, WebstationStopLeads DEF Connect
  <2> QED  BY <2>1, <2>2
<1>6. Leads(g2, m2, PlayThrough(I2S_1), h2, l2)
  <2>1. /\ h2 \subseteq (g2 \ AmpAndSource) \cup {MUTE, I2S_1} \cup Running
        /\ l2 \subseteq (m2 \ AmpAndSource) \cup {MERUS_CS, EN, "unsent"}
                     \cup ({I2S_0, I2S_1} \ {I2S_1})
    OBVIOUS
  <2> HIDE DEF g2, m2
  <2> QED  BY <2>1, PlayThroughLeads
<1> HIDE DEF g1, m1, m, g2, m2
<1>7. Leads(h, l, Assign("web", TRUE) \o Assign("fm", FALSE), g1, m1)
  BY <1>1, <1>2, Then
<1>8. Leads(h, l, Assign("web", TRUE) \o Assign("fm", FALSE) \o Assign("is_fm", FALSE), g1, m)
  BY <1>3, <1>7, Then
<1>9. Leads(h, l, Assign("web", TRUE) \o Assign("fm", FALSE) \o Assign("is_fm", FALSE)
                    \o merus_set_volume, g1, m)
  BY <1>4, <1>8, Then
<1>10. Leads(h, l, Assign("web", TRUE) \o Assign("fm", FALSE) \o Assign("is_fm", FALSE)
                    \o merus_set_volume \o Connect(resolved), g2, m2)
  BY <1>5, <1>9, Then
<1> QED  BY <1>6, <1>10, Then DEF action_webstation_set

LEMMA FmstationSetLeads ==
  ASSUME NEW h, NEW l, NEW h2, NEW l2,
         h2 \subseteq FmHi \cup {"fm", "is_fm"} \cup (h \cap {"sleeping"}),
         l2 \subseteq FmLo \cup (l \cap {"sleeping"})
  PROVE  Leads(h, l, action_fmstation_set, h2, l2)
<1> USE DEF Flag, AmpAndSource, Amp, Running, EN, MUTE, MERUS_CS, FM_CS, I2S_0, I2S_1,
            FmHi, FmLo
<1> DEFINE g1 == (h \cap {"sleeping"}) \cup {"fm"}
           g2 == (h \cap {"sleeping"}) \cup {"fm", "is_fm"}
           m  == l \cap {"sleeping"}
<1>1. Leads(h, l, Assign("fm", TRUE), g1, m)
  BY AssignStep
<1>2. Leads(g1, m, Assign("web", FALSE), g1, m)
  BY AssignStep
<1>3. Leads(g1, m, FmRegisters, g1, m)
  BY FmRegistersLeads
<1>4. Leads(g1, m, Assign("is_fm", TRUE), g2, m)
  BY AssignStep
<1>5. Leads(g2, m, PlayThrough(I2S_0), h2, l2)
  BY PlayThroughLeads
<1> HIDE DEF g1, g2, m
<1>6. Leads(h, l, Assign("fm", TRUE) \o Assign("web", FALSE), g1, m)
  BY <1>1, <1>2, Then
<1>7. Leads(h, l, Assign("fm", TRUE) \o Assign("web", FALSE) \o FmRegisters, g1, m)
  BY <1>3, <1>6, Then
<1>8. Leads(h, l, Assign("fm", TRUE) \o Assign("web", FALSE) \o FmRegisters
                    \o Assign("is_fm", TRUE), g2, m)
  BY <1>4, <1>7, Then
<1> QED  BY <1>5, <1>8, Then DEF action_fmstation_set

LEMMA FmstationStopLeads ==
  ASSUME NEW h, NEW l, NEW h2, NEW l2,
         h2 \subseteq {EN} \cup (h \cap {"is_fm", "sleeping"}),
         l2 \subseteq SilentLo \cup {"fm"} \cup (l \cap {"is_fm", "sleeping"})
  PROVE  Leads(h, l, action_fmstation_stop, h2, l2)
<1> USE DEF Flag, Running, EN, MUTE, MERUS_CS, FM_CS, SilentLo
<1> DEFINE g  == h \cap {"is_fm", "sleeping"}
           m1 == (l \cap {"is_fm", "sleeping"}) \cup {"fm"}
           m2 == (l \cap {"is_fm", "sleeping"}) \cup {"fm", "is_running"}
<1>1. Leads(h, l, Assign("fm", FALSE), g, m1)
  BY AssignStep
<1>2. Leads(g, m1, FmRegisters, g, m1)
  BY FmRegistersLeads
<1>3. Leads(g, m1, Do("redirector_stop"), g, m2)
  BY StopRedirector
<1>4. Leads(g, m2, merus_deinit, h2, l2)
  BY MerusDeinit
<1> HIDE DEF g, m1, m2
<1>5. Leads(h, l, Assign("fm", FALSE) \o FmRegisters, g, m1)
  BY <1>1, <1>2, Then
<1>6. Leads(h, l, Assign("fm", FALSE) \o FmRegisters \o Do("redirector_stop"), g, m2)
  BY <1>3, <1>5, Then
<1> QED  BY <1>4, <1>6, Then DEF action_fmstation_stop

\* The toggle of is_sleeping, in which action_toggle_power ends.
LEMMA ToggleLeads ==
  ASSUME NEW h, NEW l, NEW h2, NEW l2,
         h2 \subseteq (h \ {"sleeping"}) \cup (l \cap {"sleeping"}),
         l2 \subseteq (l \ {"sleeping"}) \cup (h \cap {"sleeping"})
  PROVE  Leads(h, l, Do("toggle"), h2, l2)
<1>1. "toggle" \in Plain
  BY DEF Plain
<1>2. Flow([do |-> "toggle"], h, l, h2, l2)
  BY DEF Flow, Raised, Lowered, Touched
<1> QED  BY <1>1, <1>2, PlainStep

\* action_power_on up to the call that plays.
PowerOnStart == FmRegisters \o ext_gpio_set_lcd(TRUE)

LEMMA PowerOnLeads ==
  ASSUME NEW h, NEW l, NEW h2, NEW l2,
         h2 \subseteq h \cap {"is_fm", "sleeping"}, l2 \subseteq l \cap {"is_fm", "sleeping"}
  PROVE  Leads(h, l, PowerOnStart, h2, l2)
<1> USE DEF FM_CS, LCD
<1> DEFINE g == h \cap {"is_fm", "sleeping"}
           m == l \cap {"is_fm", "sleeping"}
<1>1. Leads(h, l, FmRegisters, g, m)
  BY FmRegistersLeads
<1>2. Leads(g, m, Drive(LCD, TRUE), h2, l2)
  BY LcdLeads
<1> HIDE DEF g, m
<1> QED  BY <1>1, <1>2, Then DEF PowerOnStart

\* The end of action_power_off, after its call of action_stop.
PowerOffEnd == ext_gpio_set_lcd(FALSE) \o Do("rda5807") \o Do("toggle")

LEMMA PowerOffLeads ==
  ASSUME NEW h, NEW l, NEW h2, NEW l2,
         h2 \subseteq (h \ {LCD, "unsent", "ready", "sleeping"}) \cup (l \cap {"sleeping"}),
         l2 \subseteq (l \ {LCD, "ready", "sleeping"}) \cup {"unsent"} \cup (h \cap {"sleeping"})
  PROVE  Leads(h, l, PowerOffEnd, h2, l2)
<1> USE DEF LCD
<1> DEFINE g == h \ {LCD, "unsent", "ready"}
           m == (l \ {LCD, "ready"}) \cup {"unsent"}
<1>1. Leads(h, l, Drive(LCD, FALSE), g, m)
  BY LcdLeads
<1>2. Leads(g, m, Do("rda5807"), g, m)
  <2>1. "rda5807" \in Plain
    BY DEF Plain
  <2>2. Flow([do |-> "rda5807"], g, m, g, m)
    BY DEF Flow, Raised, Lowered, Touched
  <2> QED  BY <2>1, <2>2, PlainStep
<1>3. Leads(g, m, Do("toggle"), h2, l2)
  BY ToggleLeads
<1> HIDE DEF g, m
<1>4. Leads(h, l, Drive(LCD, FALSE) \o Do("rda5807"), g, m)
  BY <1>1, <1>2, Then
<1> QED  BY <1>3, <1>4, Then DEF PowerOffEnd

\* merus_set_volume up to the call of i2s_redirector_restore, and from there on.
VolumeStart == ext_gpio_set_merus_chip_select(TRUE) \o Do("redirector_stop") \o Do("merus")
VolumeEnd   == ext_gpio_set_merus_chip_select(FALSE)

LEMMA VolumeStartLeads ==
  ASSUME NEW h, NEW l, NEW h2, NEW l2,
         h2 \subseteq (h \ ({MERUS_CS, "unsent", "ready", "prev"} \cup Running))
                  \cup (IF "is_running" \in h THEN {"prev"} ELSE {}),
         l2 \subseteq (l \ ({MERUS_CS, "unsent", "ready", "prev"} \cup Running))
                  \cup (IF "is_running" \in l THEN {"prev"} ELSE {})
  PROVE  Leads(h, l, VolumeStart, h2, l2)
<1> USE DEF MERUS_CS, Running
<1> DEFINE g1 == (h \ {"unsent", "ready"}) \cup {MERUS_CS}
           m1 == (l \ {MERUS_CS, "ready"}) \cup {"unsent"}
           g  == (h \ ({"unsent", "ready", "prev"} \cup Running)) \cup {MERUS_CS}
                    \cup (IF "is_running" \in h THEN {"prev"} ELSE {})
           m  == (l \ ({MERUS_CS, "ready", "prev"} \cup Running)) \cup {"unsent", "is_running"}
                    \cup (IF "is_running" \in l THEN {"prev"} ELSE {})
<1>1. Leads(h, l, Drive(MERUS_CS, TRUE), g1, m1)
  BY Drives, RaiseLeads
<1>2. Leads(g1, m1, Do("redirector_stop"), g, m)
  BY StopRedirector
<1>3. Leads(g, m, Do("merus"), h2, l2)
  <2>1. "merus" \in Plain
    BY DEF Plain
  <2>2. Flow([do |-> "merus"], g, m, h2, l2)
    BY DEF Flow, Raised, Lowered, Touched
  <2> QED  BY <2>1, <2>2, PlainStep
<1> HIDE DEF g, m, g1, m1
<1>4. Leads(h, l, Drive(MERUS_CS, TRUE) \o Do("redirector_stop"), g, m)
  BY <1>1, <1>2, Then
<1> QED  BY <1>3, <1>4, Then, Drives DEF VolumeStart

LEMMA VolumeEndLeads ==
  ASSUME NEW h, NEW l, NEW h2, NEW l2,
         h2 \subseteq h \ {MERUS_CS, "unsent", "ready"},
         l2 \subseteq (l \ {"ready"}) \cup {MERUS_CS, "unsent"}
  PROVE  Leads(h, l, VolumeEnd, h2, l2)
<1>1. VolumeEnd = Drive(MERUS_CS, FALSE) /\ MERUS_CS \in Pin \ {LCD}
  BY Drives DEF VolumeEnd
<1>2. Leads(h, l, Drive(MERUS_CS, FALSE), h2, l2)
  BY <1>1, LowerLeads
<1> QED  BY <1>1, <1>2

-----------------------------------------------------------------------------
(* The invariant *)

\* The facts that hold for the task, and those that do not.
Ready(t) == reg[t] \ {LCD} = port_b \ {LCD}
Hi(t) == {x \in Pin \ {LCD} : x \in port_b} \cup {x \in Flag : flag[x]}
           \cup {x \in {"ready"} : Ready(t)} \cup {x \in {"prev"} : prev[t]}
Lo(t) == {x \in Pin \ {LCD} : x \notin port_b} \cup {x \in Flag : ~flag[x]}
           \cup {x \in {"unsent"} : Sent}
           \cup {x \in {"ready"} : ~Ready(t)} \cup {x \in {"prev"} : ~prev[t]}

\* The pin or flag v is known to be high or set, or known not to be.
Knows(v, b, h, l) == IF b THEN v \in h ELSE v \in l

\* What is known when s is heard, and while the redirector is stopped for a change
\* of the volume.
HeardHi(s) ==
  CASE s = "web" -> WebHi [] s = "fm" -> FmHi [] s = "silence" -> {EN} [] OTHER -> {}
HeardLo(s) ==
  CASE s = "web" -> WebLo [] s = "fm" -> FmLo [] s = "silence" -> SilentLo
    [] OTHER -> {"unsent"}
PausedHi(s) ==
  (HeardHi(s) \ Running) \cup (IF "is_running" \in HeardHi(s) THEN {"prev"} ELSE {})
PausedLo(s) ==
  (HeardLo(s) \ {"is_running", MERUS_CS, "unsent"})
    \cup (IF "is_running" \in HeardLo(s) THEN {"prev"} ELSE {})

\* The radio is known to be r, as far as the flags say, and as it is heard.
SourceKnown(r, h, l) == Knows("is_fm", r.source = "fm", h, l)
AsleepKnown(r, h, l) == Knows("sleeping", r.asleep, h, l)
OnKnown(r, h, l)     == Knows(r.source, r.on, h, l)
Is(r, h, l) ==
  /\ SourceKnown(r, h, l) /\ AsleepKnown(r, h, l) /\ OnKnown(r, h, l)
  /\ HeardHi(r.sound) \subseteq h /\ HeardLo(r.sound) \subseteq l

\* The goal of the call c that found the radio w, in terms of what is known when it
\* returns.
Reached(c, w, h, l) ==
  /\ \E r \in Promise!After(c, w) : Is(r, h, l)
  /\ c = "volume" => {"is_running", "prev"} \subseteq h \/ {"is_running", "prev"} \subseteq l

\* The steps that stand for others and that the call c comes to with nothing but
\* its return to follow.
Becomes(c, w) ==
  CASE c = "pause"  -> {"pause"} \cup (IF w.on THEN {"stop"} ELSE {"switch", w.source})
    [] c = "source" -> {"source", "other_source", Promise!Other(w.source)}
    [] OTHER        -> {c}

\* The step b that stands for others, with R to follow, completes the call c.
Completes(c, w, b, R, h, l) ==
  /\ SourceKnown(w, h, l) /\ AsleepKnown(w, h, l)
  /\ b \in {c, "redirector_restore"} => OnKnown(w, h, l)
  /\ b = "volume" /\ w.sound # "unknown" =>
       HeardHi(w.sound) \subseteq h /\ HeardLo(w.sound) \subseteq l
  /\ \/ b \in Becomes(c, w) /\ R = Do("return")
     \/ /\ c = "power" /\ w.asleep /\ b \in {"switch", w.source}
        /\ R = Do("toggle") \o Do("return")
     \/ c = "power" /\ ~w.asleep /\ b = "stop" /\ R = PowerOffEnd \o Do("return")
     \/ c = "source" /\ b = "stop" /\ R = Do("other_source") \o Do("return")
     \/ /\ c = "volume" /\ b = "redirector_restore" /\ R = VolumeEnd \o Do("return")
        /\ PausedHi(w.sound) \subseteq h /\ PausedLo(w.sound) \subseteq l

\* With h and l known, the steps K complete the call c.
Rest(c, w, K, h, l) ==
  \/ K = Do("return") /\ Reached(c, w, h, l)
  \/ \E b \in Expanding \cup {"web", "redirector_restore"} : \E R \in Seq(Step) :
       K = Do(b) \o R /\ Completes(c, w, b, R, h, l)

\* The program P of task t: steps F that lead from the present state to where the
\* steps K complete the call c.
OnCourse(t, c, w, P) ==
  \E F, K, h, l :
    /\ P = F \o K /\ K \in Seq(Step)
    /\ Leads(Hi(t), Lo(t), F, h, l) /\ Rest(c, w, K, h, l)

SoloCalls ==
  \A t \in Task : solo[t] =>
    /\ call[t] \in Calls /\ OnCourse(t, call[t], was, prog[t])
    /\ \A u \in Task \ {t} : Idle(u)

\* What the call c leaves behind.
Effect(c) ==
  /\ Sent
  /\ c \notin {"volume", "webstation_stop"} =>
       IF action_is_running THEN Plays(IF IsFm THEN I2S_0 ELSE I2S_1)
       ELSE Silent \/ (~IsFm /\ Plays(I2S_1))
  /\ c \in {"web", "fm", "source"} => Plays(IF IsFm THEN I2S_0 ELSE I2S_1)
  /\ c = "fm" => action_is_running
  /\ c \in {"stop", "webstation_stop"} => Silent

SoloDone == done # "none" => Effect(done) /\ \A t \in Task : Idle(t)

\* What the display's task has left to do, and that it is harmless to a solo call.
LcdStore == {Tail(ext_gpio_set_lcd(on)) : on \in BOOLEAN}
LcdProg  == prog["lcd"] \in {<<>>, Do("write")} \cup LcdStore
LcdFresh == (done # "none" \/ \E t \in Task : solo[t]) => Fresh

IInv == TypeOK /\ SoloCalls /\ SoloDone /\ LcdProg /\ LcdFresh

-----------------------------------------------------------------------------
(* Sequences of steps *)

LEMMA SmallSteps == \A P \in Seq(Small) : P \in Seq(Step)
BY SeqMonotonic DEF Step

\* Programs are put together from a first step, or from steps F, and the rest.
LEMMA FirstOfAll ==
  ASSUME NEW a \in Step, NEW R \in Seq(Step)
  PROVE  /\ <<a>> \o R \in Seq(Step) /\ <<a>> \o R # <<>>
         /\ Head(<<a>> \o R) = a /\ Tail(<<a>> \o R) = R
OBVIOUS

LEMMA FirstOf ==
  ASSUME NEW b \in Plain \cup Expanding \cup {"web", "return"}, NEW R \in Seq(Step)
  PROVE  /\ Do(b) \o R \in Seq(Step) /\ Do(b) \o R # <<>>
         /\ Head(Do(b) \o R).do = b /\ Tail(Do(b) \o R) = R
<1> DEFINE a == [do |-> b]
<1>1. a \in Step /\ a.do = b
  BY DEF Step, Small
<1>2. Do(b) = <<a>>
  BY DEF Do
<1> HIDE DEF a
<1>3. /\ <<a>> \o R \in Seq(Step) /\ <<a>> \o R # <<>>
      /\ Head(<<a>> \o R) = a /\ Tail(<<a>> \o R) = R
  BY <1>1, FirstOfAll
<1> QED  BY <1>1, <1>2, <1>3

LEMMA FirstOfSmall ==
  ASSUME NEW F \in Seq(Small), F # <<>>, NEW K \in Seq(Step)
  PROVE  /\ F \o K \in Seq(Step) /\ F \o K # <<>>
         /\ Head(F \o K) = Head(F) /\ Tail(F \o K) = Tail(F) \o K
<1>1. F \in Seq(Step) /\ Tail(F) \in Seq(Step)
  BY SmallSteps
<1>2. /\ F \o K \in Seq(Step) /\ F \o K # <<>> /\ Head(F \o K) = Head(F)
  BY <1>1
<1>3. Tail(F \o K) = Tail(F) \o K
  BY <1>1
<1> QED  BY <1>2, <1>3

LEMMA Reassociate ==
  ASSUME NEW P \in Seq(Step), NEW Q \in Seq(Step), NEW R \in Seq(Step)
  PROVE  (P \o Q) \o R = P \o (Q \o R)
BY ConcatAssociative

LEMMA Join ==
  ASSUME NEW P \in Seq(Step), NEW Q \in Seq(Step)
  PROVE  P \o Q \in Seq(Step)
BY ConcatProperties

\* The same for provers that must not look into what a program is.
Program == Seq(Step)
Cat(P, Q) == P \o Q

LEMMA CatAssociative ==
  ASSUME NEW P \in Program, NEW Q \in Program, NEW R \in Program
  PROVE  Cat(Cat(P, Q), R) = Cat(P, Cat(Q, R)) /\ Cat(P, Q) \in Program
<1>1. (P \o Q) \o R = P \o (Q \o R)
  BY Reassociate DEF Program
<1>2. P \o Q \in Program
  BY Join DEF Program
<1> QED  BY <1>1, <1>2 DEF Cat

LEMMA ReassociateFour ==
  ASSUME NEW P \in Program, NEW Q \in Program, NEW R \in Program, NEW S \in Program
  PROVE  Cat(Cat(Cat(P, Q), R), S) = Cat(P, Cat(Cat(Q, R), S))
<1>1. Cat(Q, R) \in Program /\ Cat(Cat(P, Q), R) = Cat(P, Cat(Q, R))
  BY CatAssociative
<1>2. Cat(Cat(P, Cat(Q, R)), S) = Cat(P, Cat(Cat(Q, R), S))
  BY <1>1, CatAssociative
<1> QED  BY <1>1, <1>2

-----------------------------------------------------------------------------
(* A step keeps what the triples say it keeps, and makes what they say it makes. *)

LEMMA Kinds ==
  ASSUME NEW a \in Small
  PROVE  /\ a.do = "store" => a.set \subseteq Pin /\ a.clear \subseteq Pin
         /\ a.do = "assign" => a.flag \in Flag /\ a.to \in BOOLEAN
         /\ a.do \in Plain \cup {"store", "assign"}
<1>1. CASE a \in [do : Plain]
  BY <1>1 DEF Plain
<1>2. CASE a \in Stores
  BY <1>2 DEF Stores
<1>3. CASE a \in Assigns
  BY <1>3 DEF Assigns
<1> QED  BY <1>1, <1>2, <1>3 DEF Small

\* What Goes leaves of a program.
LEMMA GoesTo ==
  ASSUME TypeOK, NEW t \in Task, NEW E \in Seq(Step), ~Idle(t), Goes(t, E)
  PROVE  /\ prog' \in [Writer -> Seq(Step)] /\ prog'[t] = E \o Tail(prog[t])
         /\ \A u \in Writer \ {t} : prog'[u] = prog[u]
<1>1. /\ prog \in [Writer -> Seq(Step)] /\ prog[t] \in Seq(Step) /\ prog[t] # <<>>
      /\ prog' = [prog EXCEPT ![t] = E \o Tail(prog[t])]
  BY DEF TypeOK, Idle, Goes, Writer
<1>2. E \o Tail(prog[t]) \in Seq(Step)
  BY <1>1, HeadTailProperties, ConcatProperties
<1> QED  BY <1>1, <1>2 DEF Writer

LEMMA GoesOn ==
  ASSUME TypeOK, NEW t \in Task, ~Idle(t), Goes(t, <<>>)
  PROVE  /\ prog' \in [Writer -> Seq(Step)] /\ prog'[t] = Tail(prog[t])
         /\ \A u \in Writer \ {t} : prog'[u] = prog[u]
<1>1. <<>> \in Seq(Step)
  OBVIOUS
<1>2. Tail(prog[t]) \in Seq(Step)
  BY HeadTailProperties DEF TypeOK, Idle, Writer
<1> QED  BY <1>1, <1>2, GoesTo, ConcatEmptySeq

Simple(t) == Load(t) \/ Store(t) \/ WriteIo(t) \/ Talk(t) \/ SetFlag(t) \/ Toggle(t)

LEMMA SimpleStep ==
  ASSUME TypeOK, NEW t \in Task, Simple(t), NEW a \in Small, a = Head(prog[t]),
         NEW h, NEW l, Flow(a, Hi(t), Lo(t), h, l)
  PROVE  h \subseteq Hi(t)' /\ l \subseteq Lo(t)'
<1> DEFINE T == Touched(a)
           U == Raised(a, Hi(t), Lo(t))
           D == Lowered(a, Hi(t), Lo(t))
<1>0. /\ h \subseteq (Hi(t) \ T) \cup U /\ l \subseteq (Lo(t) \ T) \cup D
      /\ a.do \in {"store", "write"} => Ready(t)
  BY DEF Flow, Hi, Pin, Flag, EN, MUTE, MERUS_CS, FM_CS, I2S_0, I2S_1, LCD
<1>1. /\ port_b \subseteq Pin /\ chip \subseteq Pin /\ flag \in [Flag -> BOOLEAN]
      /\ reg[t] \in SUBSET Pin /\ reg \in [Writer -> SUBSET Pin] /\ t \in Writer /\ prev \in [Task -> BOOLEAN]
  BY DEF TypeOK, Writer
<1> HIDE DEF T, U, D
<1> SUFFICES (Hi(t) \ T) \cup U \subseteq Hi(t)' /\ (Lo(t) \ T) \cup D \subseteq Lo(t)'
  BY <1>0
<1>2. CASE Load(t)
  <2>1. a.do = "load" /\ T = {"ready"} /\ U = {"ready"} /\ D = {}
    BY <1>2 DEF Load, At, T, U, D, Touched, Raised, Lowered
  <2> QED  BY <1>1, <1>2, <2>1 DEF Load, Hi, Lo, Ready, Sent
<1>3. CASE Store(t)
  <2>1. /\ a.do = "store" /\ T = a.set \cup a.clear \cup {"unsent", "ready"}
        /\ U = (a.set \ {LCD}) \cup {"ready"} /\ D = a.clear \ (a.set \cup {LCD})
        /\ a.set \subseteq Pin /\ a.clear \subseteq Pin
    BY <1>3, Kinds DEF Store, At, T, U, D, Touched, Raised, Lowered
  <2>2. /\ port_b' = (reg[t] \ a.clear) \cup a.set /\ reg'[t] = port_b'
        /\ flag' = flag /\ prev' = prev
    BY <1>1, <1>3, <2>1 DEF Store, Stored
  <2>3. /\ \A x \in Pin \ {LCD} : x \in port_b' <=> (x \in port_b /\ x \notin a.clear) \/ x \in a.set
        /\ Ready(t)'
    BY <1>0, <1>1, <2>1, <2>2 DEF Ready
  <2> QED  BY <1>1, <2>1, <2>2, <2>3 DEF Hi, Lo
<1>4. CASE WriteIo(t)
  <2>1. a.do = "write" /\ T = {"unsent", "ready"} /\ U = {} /\ D = {"unsent"}
    BY <1>4 DEF WriteIo, At, T, U, D, Touched, Raised, Lowered
  <2>2. Sent' /\ port_b' = port_b /\ flag' = flag /\ prev' = prev
    BY <1>0, <1>4, <2>1 DEF WriteIo, Ready, Sent
  <2> QED  BY <1>1, <2>1, <2>2 DEF Hi, Lo
<1>5. CASE Talk(t)
  <2>1. T = {} /\ U = {} /\ D = {}
    BY <1>5 DEF Talk, At, T, U, D, Touched, Raised, Lowered
  <2> QED  BY <1>1, <1>5, <2>1 DEF Talk, ports, Hi, Lo, Ready, Sent
<1>6. CASE SetFlag(t)
  <2>1. /\ a.do = "assign" /\ T = {a.flag} /\ a.flag \in Flag /\ a.to \in BOOLEAN
        /\ U = IF a.to THEN {a.flag} ELSE {}
        /\ D = IF a.to THEN {} ELSE {a.flag}
    BY <1>6, Kinds DEF SetFlag, At, T, U, D, Touched, Raised, Lowered
  <2>2. /\ flag' = [flag EXCEPT ![a.flag] = a.to] /\ port_b' = port_b /\ chip' = chip
        /\ reg' = reg /\ prev' = prev
        /\ Ready(t)' = Ready(t) /\ Sent' = Sent
    BY <1>6 DEF SetFlag, ports, Ready, Sent
  <2>3. \A x \in Flag : flag'[x] = IF x = a.flag THEN a.to ELSE flag[x]
    BY <1>1, <2>1, <2>2
  <2> QED  BY <1>1, <2>1, <2>2, <2>3 DEF Hi, Lo
<1>7. CASE Toggle(t)
  <2>1. T = {"sleeping"} /\ U = Lo(t) \cap T /\ D = Hi(t) \cap T
    BY <1>7 DEF Toggle, At, T, U, D, Touched, Raised, Lowered
  <2>2. /\ flag' = [flag EXCEPT !["sleeping"] = ~flag["sleeping"]]
        /\ port_b' = port_b /\ chip' = chip /\ reg' = reg /\ prev' = prev
        /\ Ready(t)' = Ready(t) /\ Sent' = Sent
    BY <1>7 DEF Toggle, ports, Ready, Sent
  <2>3. /\ \A x \in Flag \ {"sleeping"} : flag'[x] = flag[x]
        /\ "sleeping" \in Flag /\ flag'["sleeping"] = ~flag["sleeping"]
    BY <1>1, <2>2 DEF Flag
  <2>4. /\ U \subseteq {x \in T : ~flag[x]} /\ D \subseteq {x \in T : flag[x]}
    BY <2>1 DEF Hi, Lo, Pin, Flag, EN, MUTE, MERUS_CS, FM_CS, I2S_0, I2S_1, LCD
  <2>5. (Hi(t) \ T) \subseteq Hi(t)' /\ (Lo(t) \ T) \subseteq Lo(t)'
    BY <1>1, <2>1, <2>2, <2>3 DEF Hi, Lo
  <2>6. U \subseteq Hi(t)' /\ D \subseteq Lo(t)'
    BY <1>1, <2>1, <2>3, <2>4 DEF Hi, Lo
  <2> QED  BY <2>5, <2>6
<1> QED  BY <1>2, <1>3, <1>4, <1>5, <1>6, <1>7 DEF Simple

\* i2s_redirector_stop stops the redirector if it runs, and says what it found.
LEMMA RedirectorStopStep ==
  ASSUME TypeOK, NEW t \in Task, i2s_redirector_stop(t), NEW a \in Small, a = Head(prog[t]),
         NEW h, NEW l, Flow(a, Hi(t), Lo(t), h, l)
  PROVE  Leads(Hi(t)', Lo(t)', Expansion("redirector_stop"), h, l)
<1> DEFINE T == Running \cup {"prev"}
           H == Hi(t)
           L == Lo(t)
<1>1. a.do = "redirector_stop"
  BY DEF i2s_redirector_stop, At
<1>2. /\ h \subseteq (H \ T) \cup (IF "is_running" \in H THEN {"prev"} ELSE {})
      /\ l \subseteq (L \ T) \cup {"is_running"} \cup (IF "is_running" \in L THEN {"prev"} ELSE {})
  BY <1>1 DEF Flow, Touched, Raised, Lowered
<1>3. /\ port_b' = port_b /\ chip' = chip /\ reg' = reg /\ flag' = flag
      /\ flag \in [Flag -> BOOLEAN]
  BY DEF i2s_redirector_stop, ports, TypeOK
<1>4. H \ {"prev"} \subseteq Hi(t)' /\ L \ {"prev"} \subseteq Lo(t)'
  BY <1>3 DEF Hi, Lo, Ready, Sent
<1>5. "is_running" \in Flag /\ "is_running" \notin Pin \cup {"unsent", "ready", "prev"}
  BY DEF Flag, Pin, EN, MUTE, MERUS_CS, FM_CS, I2S_0, I2S_1, LCD
<1>6. prev'[t] = flag["is_running"]
  BY DEF i2s_redirector_stop, TypeOK
<1>7. /\ "is_running" \in H => "prev" \in Hi(t)'
      /\ "is_running" \in L => "prev" \in Lo(t)'
  BY <1>5, <1>6 DEF Hi, Lo
<1>8. h \subseteq Hi(t)' /\ l \subseteq Lo(t)' \cup {"is_running"}
  BY <1>2, <1>4, <1>7
<1>9. "is_running" \in Running /\ "prev" \notin Running
  BY DEF Running
<1>10. h \cap Running = {} 
  BY <1>2, <1>9
<1> HIDE DEF H, L
<1>11. CASE flag["is_running"]
  <2>1. Expansion("redirector_stop") = StopRunning
    BY <1>11 DEF Expansion
  <2>2. h \subseteq Hi(t)' \ Running /\ l \subseteq Lo(t)' \cup Running
    BY <1>8, <1>9, <1>10
  <2> QED  BY <2>1, <2>2, StopLeads
<1>12. CASE ~flag["is_running"]
  <2>1. Expansion("redirector_stop") = <<>>
    BY <1>12 DEF Expansion
  <2>2. "is_running" \in Lo(t)'
    BY <1>3, <1>12 DEF Lo, Flag
  <2>3. h \subseteq Hi(t)' /\ l \subseteq Lo(t)'
    BY <1>8, <2>2
  <2> QED  BY <2>1, <2>3, Skip
<1> QED  BY <1>11, <1>12

\* i2s_redirector_restore starts or stops the redirector.
LEMMA RestoredLeads ==
  ASSUME TypeOK, NEW t \in Task, NEW h, NEW l,
         h \subseteq Hi(t) \ Running, l \subseteq Lo(t) \ Running
  PROVE  /\ prev[t] => Leads(Hi(t), Lo(t), Restored(t), h \cup Running, l)
         /\ ~prev[t] => Leads(Hi(t), Lo(t), Restored(t), h, l \cup {"is_running"})
<1> DEFINE H == Hi(t)
           L == Lo(t)
<1>1. "is_running" \in Running
  BY DEF Running
<1>2. CASE prev[t]
  <2>1. Restored(t) = i2s_redirector_start
    BY <1>2 DEF Restored
  <2>2. h \cup Running \subseteq H \cup Running /\ l \subseteq L \ Running
    OBVIOUS
  <2> QED  BY <1>2, <2>1, <2>2, StartLeads
<1>3. CASE ~prev[t] /\ flag["is_running"]
  <2>1. Restored(t) = StopRunning
    BY <1>3 DEF Restored, Expansion
  <2>2. h \subseteq H \ Running /\ l \cup {"is_running"} \subseteq L \cup Running
    BY <1>1
  <2> QED  BY <1>3, <2>1, <2>2, StopLeads
<1>4. CASE ~prev[t] /\ ~flag["is_running"]
  <2>1. Restored(t) = <<>>
    BY <1>4 DEF Restored, Expansion
  <2>2. "is_running" \in L
    BY <1>4 DEF Lo, Flag
  <2>3. h \subseteq H /\ l \cup {"is_running"} \subseteq L
    BY <2>2
  <2> QED  BY <1>4, <2>1, <2>3, Skip
<1> QED  BY <1>2, <1>3, <1>4

LEMMA SameFacts ==
  ASSUME NEW t, ports' = ports, flag' = flag, prev' = prev
  PROVE  Hi(t)' = Hi(t) /\ Lo(t)' = Lo(t)
BY DEF ports, Hi, Lo, Ready, Sent

LEMMA RedirectorRestoreStep ==
  ASSUME TypeOK, NEW t \in Task, i2s_redirector_restore(t),
         NEW a \in Small, a = Head(prog[t]), NEW h, NEW l, Flow(a, Hi(t), Lo(t), h, l)
  PROVE  Leads(Hi(t)', Lo(t)', Restored(t), h, l)
<1>1. a.do = "redirector_restore" /\ Hi(t)' = Hi(t) /\ Lo(t)' = Lo(t)
  BY SameFacts DEF i2s_redirector_restore, At
<1>2. h \subseteq Hi(t) \ Running /\ l \subseteq Lo(t) \ Running
  BY <1>1 DEF Flow, Touched, Raised, Lowered
<1>3. PICK h1, l1 : /\ Leads(Hi(t), Lo(t), Restored(t), h1, l1)
                    /\ h \subseteq h1 /\ l \subseteq l1
  <2>1. /\ h \subseteq h \cup Running /\ l \subseteq l \cup {"is_running"}
        /\ h \subseteq h /\ l \subseteq l
    OBVIOUS
  <2> QED  BY <1>2, <2>1, RestoredLeads
<1> QED  BY <1>1, <1>3, Weaken

\* The steps that the redirector's calls come to are small ones.
LEMMA RestoredSmall ==
  ASSUME TypeOK, NEW t \in Task
  PROVE  Expansion("redirector_stop") \in Seq(Small) /\ Restored(t) \in Seq(Small)
<1>1. Leads({}, {}, StopRunning, {}, {}) /\ Leads({}, {}, i2s_redirector_start, {}, {})
  BY StopLeads, StartLeads
<1>2. /\ StopRunning \in Seq(Small) /\ i2s_redirector_start \in Seq(Small)
      /\ <<>> \in Seq(Small)
  BY <1>1 DEF Leads
<1>3. Expansion("redirector_stop") = IF flag["is_running"] THEN StopRunning ELSE <<>>
  BY DEF Expansion
<1> QED  BY <1>2, <1>3 DEF Restored

\* A small step of a task leaves a program that leads to the same facts.
LEMMA Execute ==
  ASSUME TypeOK, NEW t \in Task,
         Simple(t) \/ i2s_redirector_stop(t) \/ i2s_redirector_restore(t),
         NEW F, NEW K \in Seq(Step), F # <<>>, prog[t] = F \o K,
         NEW h, NEW l, Leads(Hi(t), Lo(t), F, h, l)
  PROVE  \E G : prog'[t] = G \o K /\ Leads(Hi(t)', Lo(t)', G, h, l)
<1>1. PICK h1, l1 : /\ Flow(Head(F), Hi(t), Lo(t), h1, l1)
                    /\ Leads(h1, l1, Tail(F), h, l)
  BY First
<1>2. F \in Seq(Small) /\ Head(F) \in Small /\ Tail(F) \in Seq(Small)
  BY First DEF Leads
<1>3. Head(prog[t]) = Head(F) /\ Tail(prog[t]) = Tail(F) \o K /\ ~Idle(t)
  BY <1>2, FirstOfSmall DEF Idle
<1>4. ASSUME NEW E, Leads(Hi(t)', Lo(t)', E, h1, l1), Goes(t, E)
      PROVE  \E G : prog'[t] = G \o K /\ Leads(Hi(t)', Lo(t)', G, h, l)
  <2>1. E \in Seq(Step) /\ Tail(F) \in Seq(Step)
    BY <1>2, <1>4, SmallSteps DEF Leads
  <2>2. prog'[t] = E \o (Tail(F) \o K)
    BY <1>3, <1>4, <2>1, GoesTo
  <2>3. prog'[t] = (E \o Tail(F)) \o K
    BY <2>1, <2>2, Reassociate
  <2>4. Leads(Hi(t)', Lo(t)', E \o Tail(F), h, l)
    BY <1>1, <1>4, Then
  <2> QED  BY <2>3, <2>4
<1>5. CASE Simple(t)
  <2>1. Goes(t, <<>>)
    BY <1>5 DEF Simple, Load, Store, WriteIo, Talk, SetFlag, Toggle
  <2>2. h1 \subseteq Hi(t)' /\ l1 \subseteq Lo(t)'
    BY <1>1, <1>2, <1>3, <1>5, SimpleStep
  <2>3. Leads(Hi(t)', Lo(t)', <<>>, h1, l1)
    BY <2>2, Skip
  <2> QED  BY <1>4, <2>1, <2>3
<1>6. CASE i2s_redirector_stop(t)
  <2>1. Goes(t, Expansion("redirector_stop"))
    BY <1>6 DEF i2s_redirector_stop
  <2> QED  BY <1>1, <1>2, <1>3, <1>4, <1>6, <2>1, RedirectorStopStep
<1>7. CASE i2s_redirector_restore(t)
  <2>1. Goes(t, Restored(t))
    BY <1>7 DEF i2s_redirector_restore
  <2> QED  BY <1>1, <1>2, <1>3, <1>4, <1>7, <2>1, RedirectorRestoreStep
<1> QED  BY <1>5, <1>6, <1>7

-----------------------------------------------------------------------------
(* The steps that stand for others *)

LEMMA Programs ==
  /\ \A resolved \in BOOLEAN : action_webstation_set(resolved) \in Seq(Small)
  /\ action_fmstation_set \in Seq(Small)
  /\ action_webstation_stop \in Seq(Small) /\ action_fmstation_stop \in Seq(Small)
  /\ merus_set_volume \in Seq(Small) /\ Do("toggle") \in Seq(Small)
  /\ PowerOnStart \in Seq(Small) /\ PowerOffEnd \in Seq(Small)
  /\ VolumeStart \in Seq(Small) /\ VolumeEnd \in Seq(Small)
<1>1. \A P : Leads({}, {}, P, {}, {}) => P \in Seq(Small)
  BY DEF Leads
<1>2. /\ \A resolved \in BOOLEAN : Leads({}, {}, action_webstation_set(resolved), {}, {})
      /\ Leads({}, {}, action_fmstation_set, {}, {})
  BY WebstationSetLeads, FmstationSetLeads
<1>3. /\ Leads({}, {}, action_webstation_stop, {}, {})
      /\ Leads({}, {}, action_fmstation_stop, {}, {})
  BY WebstationStopLeads, FmstationStopLeads
<1>4. Leads({}, {}, merus_set_volume, {}, {}) /\ Leads({}, {}, Do("toggle"), {}, {})
  BY SetVolumeLeads, ToggleLeads
<1>5. Leads({}, {}, PowerOffEnd, {}, {}) /\ Leads({}, {}, VolumeEnd, {}, {})
  BY PowerOffLeads, VolumeEndLeads
<1>6. PowerOnStart \in Seq(Small) /\ VolumeStart \in Seq(Small)
  BY PowerOnLeads, VolumeStartLeads DEF Leads
<1> QED  BY <1>1, <1>2, <1>3, <1>4, <1>5, <1>6

LEMMA OneStep ==
  \A b \in Plain \cup Expanding \cup {"web", "return"} : Do(b) \in Seq(Step)
<1> SUFFICES ASSUME NEW b \in Plain \cup Expanding \cup {"web", "return"}
             PROVE  Do(b) \in Seq(Step)
  OBVIOUS
<1>1. [do |-> b] \in Step
  BY DEF Step, Small
<1> QED  BY <1>1 DEF Do

\* The forms of the programs of a call.
LEMMA Expansions ==
  /\ Expansion("fm") = action_fmstation_set
  /\ Expansion("webstation_stop") = action_webstation_stop
  /\ Expansion("stop") = IF IsFm THEN action_fmstation_stop ELSE action_webstation_stop
  /\ Expansion("switch") = IF IsFm THEN Do("fm") ELSE Do("web")
  /\ Expansion("pause") = IF action_is_running THEN Do("stop") ELSE Do("switch")
  /\ Expansion("source") = Do("stop") \o Do("other_source")
  /\ Expansion("other_source") = IF IsFm THEN Do("web") ELSE Do("fm")
  /\ Expansion("volume") = VolumeStart \o (Do("redirector_restore") \o VolumeEnd)
  /\ Expansion("power") = IF flag["sleeping"]
                            THEN PowerOnStart \o (Do("switch") \o Do("toggle"))
                            ELSE Do("stop") \o PowerOffEnd
<1>1. /\ {Do("stop"), Do("switch"), Do("toggle"), Do("redirector_stop"), Do("merus"),
          Do("redirector_restore"), Do("rda5807")} \subseteq Seq(Step)
      /\ PowerOnStart \in Seq(Step) /\ VolumeEnd \in Seq(Step)
  BY OneStep, Programs, SmallSteps DEF Plain, Expanding
<1>2. Drive(LCD, FALSE) \in Seq(Step) /\ Drive(MERUS_CS, TRUE) \in Seq(Step)
  <2>1. Leads({}, {}, Drive(LCD, FALSE), {}, {}) /\ Leads({}, {}, Drive(MERUS_CS, TRUE), {}, {})
    BY RaiseLeads, LcdLeads, Drives
  <2> QED  BY <2>1, SmallSteps DEF Leads
<1>3. Expansion("volume") = VolumeStart \o (Do("redirector_restore") \o VolumeEnd)
  <2> DEFINE cs   == ext_gpio_set_merus_chip_select(TRUE)
             stop == Do("redirector_stop")
             talk == Do("merus")
             back == Do("redirector_restore")
  <2>1. Expansion("volume") = (cs \o ((stop \o talk) \o back)) \o VolumeEnd
    BY DEF Expansion, merus_set_volume, VolumeEnd
  <2>2. VolumeStart = (cs \o stop) \o talk
    BY DEF VolumeStart
  <2>3. /\ cs \in Seq(Step) /\ stop \in Seq(Step) /\ talk \in Seq(Step) /\ back \in Seq(Step)
        /\ VolumeEnd \in Seq(Step)
    BY <1>1, <1>2, Drives
  <2> HIDE DEF cs, stop, talk, back
  <2>4. cs \in Program /\ stop \in Program /\ talk \in Program /\ back \in Program
    BY <2>3 DEF Program
  <2>5. Cat(cs, Cat(Cat(stop, talk), back)) = Cat(Cat(Cat(cs, stop), talk), back)
    BY <2>4, ReassociateFour
  <2>6. cs \o ((stop \o talk) \o back) = ((cs \o stop) \o talk) \o back
    BY <2>5 DEF Cat
  <2>7. VolumeStart \in Seq(Step)
    BY Programs, SmallSteps
  <2>8. (VolumeStart \o back) \o VolumeEnd = VolumeStart \o (back \o VolumeEnd)
    BY <2>3, <2>7, Reassociate
  <2> QED  BY <2>1, <2>2, <2>6, <2>8 DEF back
<1>4. Expansion("power") = IF flag["sleeping"]
                            THEN PowerOnStart \o (Do("switch") \o Do("toggle"))
                            ELSE Do("stop") \o PowerOffEnd
  <2>1. CASE flag["sleeping"]
    <3>1. Expansion("power") = (PowerOnStart \o Do("switch")) \o Do("toggle")
      BY <2>1 DEF Expansion, action_power_on, PowerOnStart
    <3>2. PowerOnStart \in Seq(Step) /\ Do("switch") \in Seq(Step) /\ Do("toggle") \in Seq(Step)
      BY <1>1
    <3>3. (PowerOnStart \o Do("switch")) \o Do("toggle")
            = PowerOnStart \o (Do("switch") \o Do("toggle"))
      BY <3>2, Reassociate
    <3> QED  BY <2>1, <3>1, <3>3
  <2>2. CASE ~flag["sleeping"]
    <3> DEFINE off  == Drive(LCD, FALSE)
               chip_off == Do("rda5807")
               flip == Do("toggle")
               stop == Do("stop")
    <3>1. Expansion("power") = ((stop \o off) \o chip_off) \o flip
      BY <2>2 DEF Expansion, action_power_off
    <3>2. PowerOffEnd = (off \o chip_off) \o flip
      BY DEF PowerOffEnd
    <3>3. off \in Program /\ chip_off \in Program /\ flip \in Program /\ stop \in Program
      BY <1>1, <1>2 DEF Program
    <3> HIDE DEF off, chip_off, flip, stop
    <3>4. Cat(Cat(Cat(stop, off), chip_off), flip) = Cat(stop, Cat(Cat(off, chip_off), flip))
      BY <3>3, ReassociateFour
    <3>5. ((stop \o off) \o chip_off) \o flip = stop \o ((off \o chip_off) \o flip)
      BY <3>4 DEF Cat
    <3> QED  BY <2>2, <3>1, <3>2, <3>5 DEF stop
  <2> QED  BY <2>1, <2>2
<1> QED  BY <1>3, <1>4 DEF Expansion

\* What a step stands for is a program.
LEMMA ExpansionSteps == \A what \in Expanding : Expansion(what) \in Seq(Step)
<1>1. /\ {Do("fm"), Do("web"), Do("stop"), Do("switch"), Do("toggle"), Do("other_source"),
          Do("redirector_restore")} \subseteq Seq(Step)
  BY OneStep DEF Plain, Expanding
<1>2. /\ {action_fmstation_set, action_webstation_stop, action_fmstation_stop, VolumeStart,
          VolumeEnd, PowerOnStart, PowerOffEnd} \subseteq Seq(Step)
  BY Programs, SmallSteps
<1>3. /\ Do("stop") \o Do("other_source") \in Seq(Step)
      /\ VolumeStart \o (Do("redirector_restore") \o VolumeEnd) \in Seq(Step)
      /\ PowerOnStart \o (Do("switch") \o Do("toggle")) \in Seq(Step)
      /\ Do("stop") \o PowerOffEnd \in Seq(Step)
  BY <1>1, <1>2, ConcatProperties
<1> QED  BY <1>1, <1>2, <1>3, Expansions DEF Expanding

-----------------------------------------------------------------------------
(* The goals of the calls *)

LEMMA RadioTypes ==
  ASSUME NEW w \in Promise!State
  PROVE  /\ w.source \in {"web", "fm"} /\ w.on \in BOOLEAN /\ w.asleep \in BOOLEAN
         /\ w.sound \in {"web", "fm", "silence", "unknown"}
         /\ Promise!Other(w.source) \in {"web", "fm"} \ {w.source}
BY DEF Promise!State, Promise!Source, Promise!Sound, Promise!Other

\* What Radio says each call does.
LEMMA Afters ==
  ASSUME NEW w
  PROVE  /\ \A s \in {"web", "fm"} : Promise!After(s, w) = Promise!Tuned(s, w.asleep)
         /\ Promise!After("stop", w) = {Promise!Stopped(w.source, FALSE, w.asleep)}
         /\ Promise!After("pause", w)
              = IF w.on THEN {Promise!Stopped(w.source, FALSE, w.asleep)}
                        ELSE Promise!Tuned(w.source, w.asleep)
         /\ Promise!After("source", w)
              = Promise!Tuned(Promise!Other(w.source), w.asleep)
         /\ Promise!After("power", w)
              = IF w.asleep THEN Promise!Tuned(w.source, FALSE)
                            ELSE {Promise!Stopped(w.source, FALSE, TRUE)}
         /\ Promise!After("webstation_stop", w)
              = {Promise!Stopped(w.source, w.on /\ w.source = "fm", w.asleep)}
         /\ Promise!After("volume", w)
              = {x \in Promise!State : /\ x.source = w.source /\ x.on = w.on
                                       /\ x.asleep = w.asleep
                                       /\ w.sound \in {x.sound, "unknown"}}
BY DEF Promise!After, Promise!Source

\* A source that the radio is tuned to, and one that is stopped, in terms of what is
\* known.
LEMMA IsTuned ==
  ASSUME NEW s \in {"web", "fm"}, NEW on \in BOOLEAN, NEW b \in BOOLEAN, NEW h, NEW l,
         Knows("sleeping", b, h, l), Knows(s, on, h, l), s = "fm" => on,
         s = "web" => WebHi \subseteq h /\ WebLo \cup {"is_fm"} \subseteq l,
         s = "fm"  => FmHi \cup {"is_fm"} \subseteq h /\ FmLo \subseteq l
  PROVE  \E r \in Promise!Tuned(s, b) : Is(r, h, l)
<1> DEFINE r == [source |-> s, on |-> on, asleep |-> b, sound |-> s]
<1>1. r.source = s /\ r.on = on /\ r.asleep = b /\ r.sound = s
  OBVIOUS
<1>2. r \in Promise!Tuned(s, b)
  BY DEF Promise!Tuned, Promise!State, Promise!Source, Promise!Sound
<1> HIDE DEF r
<1>3. HeardHi(s) \subseteq h /\ HeardLo(s) \subseteq l
  BY DEF HeardHi, HeardLo
<1>4. Knows("is_fm", s = "fm", h, l)
  BY DEF Knows
<1>5. Is(r, h, l)
  BY <1>1, <1>3, <1>4 DEF Is, SourceKnown, AsleepKnown, OnKnown
<1> QED  BY <1>2, <1>5

LEMMA IsStopped ==
  ASSUME NEW s \in {"web", "fm"}, NEW on \in BOOLEAN, NEW b \in BOOLEAN, NEW h, NEW l,
         Knows("is_fm", s = "fm", h, l), Knows("sleeping", b, h, l), Knows(s, on, h, l),
         EN \in h, SilentLo \subseteq l
  PROVE  Is(Promise!Stopped(s, on, b), h, l)
<1> DEFINE r == Promise!Stopped(s, on, b)
<1>1. r.source = s /\ r.on = on /\ r.asleep = b /\ r.sound = "silence"
  BY DEF Promise!Stopped
<1> HIDE DEF r
<1>2. HeardHi("silence") \subseteq h /\ HeardLo("silence") \subseteq l
  BY DEF HeardHi, HeardLo
<1> QED  BY <1>1, <1>2 DEF Is, SourceKnown, AsleepKnown, OnKnown, r

LEMMA KnowsMonotone ==
  ASSUME NEW v, NEW b, NEW h, NEW l, Knows(v, b, h, l), NEW g, NEW m,
         v \in h => v \in g, v \in l => v \in m
  PROVE  Knows(v, b, g, m)
BY DEF Knows

-----------------------------------------------------------------------------
(* A step that stands for others, with F empty, is replaced by a program that  *)
(* stays on course.                                                            *)

LEMMA BecomesOnly ==
  ASSUME NEW c \in Calls, NEW w \in Promise!State
  PROVE  /\ \A s \in {"web", "fm"} : s \in Becomes(c, w) =>
              \/ c = s
              \/ c = "pause" /\ ~w.on /\ s = w.source
              \/ c = "source" /\ s = Promise!Other(w.source)
         /\ "stop" \in Becomes(c, w) => c = "stop" \/ (c = "pause" /\ w.on)
         /\ "switch" \in Becomes(c, w) => c = "pause" /\ ~w.on
         /\ "other_source" \in Becomes(c, w) => c = "source"
         /\ "redirector_restore" \notin Becomes(c, w)
         /\ \A b \in {"webstation_stop", "pause", "source", "volume", "power"} :
              b \in Becomes(c, w) => c = b
<1>1. w.source \in {"web", "fm"} /\ Promise!Other(w.source) \in {"web", "fm"}
  BY RadioTypes
<1>2. Becomes(c, w) =
        IF c = "pause" THEN {"pause"} \cup (IF w.on THEN {"stop"} ELSE {"switch", w.source})
        ELSE IF c = "source" THEN {"source", "other_source", Promise!Other(w.source)} ELSE {c}
  BY DEF Becomes
<1> HIDE DEF Becomes
<1>3. CASE c = "pause"
  BY <1>1, <1>2, <1>3
<1>4. CASE c = "source"
  BY <1>1, <1>2, <1>4
<1>5. CASE c \notin {"pause", "source"}
  <2>1. Becomes(c, w) = {c}
    BY <1>2, <1>5
  <2>2. c \notin {"other_source", "switch", "redirector_restore"}
    BY DEF Calls
  <2> QED  BY <1>5, <2>1, <2>2
<1> QED  BY <1>3, <1>4, <1>5

LEMMA Ends ==
  /\ Do("return") \in Seq(Step) /\ Do("toggle") \in Seq(Step)
  /\ Do("toggle") \o Do("return") \in Seq(Step)
  /\ Do("other_source") \o Do("return") \in Seq(Step)
  /\ PowerOffEnd \o Do("return") \in Seq(Step) /\ VolumeEnd \o Do("return") \in Seq(Step)
<1>1. Do("return") \in Seq(Step) /\ Do("toggle") \in Seq(Step) /\ Do("other_source") \in Seq(Step)
  BY OneStep DEF Plain, Expanding
<1>2. PowerOffEnd \in Seq(Step) /\ VolumeEnd \in Seq(Step)
  BY Programs, SmallSteps
<1> QED  BY <1>1, <1>2, Join

\* A program that leads to the goal and then returns is on course.
LEMMA Finish ==
  ASSUME NEW t, NEW c, NEW w, NEW F, NEW h, NEW l, Leads(Hi(t), Lo(t), F, h, l),
         Reached(c, w, h, l)
  PROVE  OnCourse(t, c, w, F \o Do("return"))
BY Ends DEF OnCourse, Rest

\* So is one that leads to a step that completes the call.
LEMMA GoOn ==
  ASSUME NEW t, NEW c, NEW w, NEW F, NEW h, NEW l, Leads(Hi(t), Lo(t), F, h, l),
         NEW b \in Expanding \cup {"web", "redirector_restore"}, NEW R \in Seq(Step),
         Completes(c, w, b, R, h, l)
  PROVE  OnCourse(t, c, w, F \o (Do(b) \o R))
<1>1. Do(b) \o R \in Seq(Step)
  BY FirstOf DEF Plain
<1> QED  BY <1>1 DEF OnCourse, Rest

LEMMA GoOnAtOnce ==
  ASSUME NEW t, NEW c, NEW w, NEW h, NEW l, h \subseteq Hi(t), l \subseteq Lo(t),
         NEW b \in Expanding \cup {"web", "redirector_restore"}, NEW R \in Seq(Step),
         Completes(c, w, b, R, h, l)
  PROVE  OnCourse(t, c, w, Do(b) \o R)
<1>1. Leads(Hi(t), Lo(t), <<>>, h, l)
  BY Skip
<1>2. Do(b) \o R \in Seq(Step)
  BY FirstOf DEF Plain
<1>3. <<>> \o (Do(b) \o R) = Do(b) \o R
  BY <1>2, ConcatEmptySeq
<1>4. OnCourse(t, c, w, <<>> \o (Do(b) \o R))
  BY <1>1, GoOn
<1> QED  BY <1>3, <1>4

\* What is known of the source tells what the flag is.
LEMMA FlagKnown ==
  ASSUME TypeOK, NEW t, NEW h, NEW l, h \subseteq Hi(t), l \subseteq Lo(t),
         NEW v \in Flag, NEW b \in BOOLEAN, Knows(v, b, h, l)
  PROVE  flag[v] = b
<1> USE DEF Flag, Pin, EN, MUTE, MERUS_CS, FM_CS, I2S_0, I2S_1, LCD
<1>1. flag[v] \in BOOLEAN
  BY DEF TypeOK
<1>2. v \in Hi(t) => flag[v]
  BY DEF Hi
<1>3. v \in Lo(t) => ~flag[v]
  BY DEF Lo
<1> HIDE DEF Flag, Pin
<1> QED  BY <1>1, <1>2, <1>3 DEF Knows

\* The last procedure of a call that plays a source.
LEMMA PlayOnCourse ==
  ASSUME NEW t, NEW c \in Calls, NEW w \in Promise!State,
         NEW h, NEW l, h \subseteq Hi(t), l \subseteq Lo(t), NEW R \in Seq(Step),
         NEW b \in {"web", "fm"}, NEW resolved \in BOOLEAN, Completes(c, w, b, R, h, l)
  PROVE  OnCourse(t, c, w, (IF b = "web" THEN action_webstation_set(resolved)
                                         ELSE action_fmstation_set) \o R)
<1> DEFINE E  == IF b = "web" THEN action_webstation_set(resolved) ELSE action_fmstation_set
           on == b = "fm" \/ resolved
           kh == h \cap {"sleeping"}
           kl == l \cap {"sleeping"}
           gh == IF b = "web" THEN WebHi \cup (IF resolved THEN {"web"} ELSE {}) \cup kh
                              ELSE FmHi \cup {"fm", "is_fm"} \cup kh
           gl == IF b = "web"
                 THEN WebLo \cup {"is_fm"} \cup (IF resolved THEN {} ELSE {"web"}) \cup kl
                 ELSE FmLo \cup kl
<1>1. E \in Seq(Step)
  BY Programs, SmallSteps
<1>2. Leads(Hi(t), Lo(t), E, gh, gl)
  <2>1. kh \subseteq Hi(t) \cap {"sleeping"} /\ kl \subseteq Lo(t) \cap {"sleeping"}
    OBVIOUS
  <2>2. CASE b = "web"
    <3>1. /\ gh \subseteq WebHi \cup (IF resolved THEN {"web"} ELSE {})
                            \cup (Hi(t) \cap {"sleeping"})
          /\ gl \subseteq WebLo \cup {"is_fm"} \cup (IF resolved THEN {} ELSE {"web"})
                            \cup (Lo(t) \cap {"sleeping"})
      BY <2>1, <2>2
    <3> HIDE DEF gh, gl
    <3> QED  BY <2>2, <3>1, WebstationSetLeads
  <2>3. CASE b = "fm"
    <3>1. /\ gh \subseteq FmHi \cup {"fm", "is_fm"} \cup (Hi(t) \cap {"sleeping"})
          /\ gl \subseteq FmLo \cup (Lo(t) \cap {"sleeping"})
      BY <2>1, <2>3
    <3> HIDE DEF gh, gl
    <3> QED  BY <2>3, <3>1, FmstationSetLeads
  <2> QED  BY <2>2, <2>3
<1>3. Knows("sleeping", w.asleep, gh, gl)
  <2>1. Knows("sleeping", w.asleep, h, l)
    BY DEF Completes, AsleepKnown
  <2> QED  BY <2>1 DEF Knows
<1>4. /\ b = "web" => WebHi \subseteq gh /\ WebLo \cup {"is_fm"} \subseteq gl
      /\ b = "fm"  => FmHi \cup {"is_fm"} \subseteq gh /\ FmLo \subseteq gl
      /\ Knows(b, on, gh, gl) /\ on \in BOOLEAN /\ (b = "fm" => on)
  BY DEF Knows
<1>5. w.asleep \in BOOLEAN /\ w.source \in {"web", "fm"}
  BY RadioTypes
<1> HIDE DEF E, gh, gl, kh, kl, on
<1>6. CASE b \in Becomes(c, w) /\ R = Do("return")
  <2>1. \/ c = b
        \/ c = "pause" /\ ~w.on /\ b = w.source
        \/ c = "source" /\ b = Promise!Other(w.source)
    BY <1>6, BecomesOnly
  <2>2. Promise!After(c, w) = Promise!Tuned(b, w.asleep)
    BY <2>1, Afters
  <2>3. \E r \in Promise!Tuned(b, w.asleep) : Is(r, gh, gl)
    BY <1>3, <1>4, <1>5, IsTuned
  <2>4. Reached(c, w, gh, gl)
    BY <2>1, <2>2, <2>3 DEF Reached
  <2> QED  BY <1>2, <1>6, <2>4, Finish DEF E
<1>7. CASE /\ c = "power" /\ w.asleep /\ b = w.source
           /\ R = Do("toggle") \o Do("return")
  <2> DEFINE fh == gh \ {"sleeping"}
             fl == gl \cup {"sleeping"}
  <2>1. "sleeping" \in gh
    BY <1>3, <1>7 DEF Knows
  <2>2. Leads(gh, gl, Do("toggle"), fh, fl)
    BY <2>1, ToggleLeads
  <2>3. Leads(Hi(t), Lo(t), E \o Do("toggle"), fh, fl)
    BY <1>2, <2>2, Then
  <2>4. /\ b = "web" => WebHi \subseteq fh /\ WebLo \cup {"is_fm"} \subseteq fl
        /\ b = "fm"  => FmHi \cup {"is_fm"} \subseteq fh /\ FmLo \subseteq fl
        /\ Knows(b, on, fh, fl) /\ "sleeping" \in fl
    <3>1. "sleeping" \notin WebHi \cup FmHi \cup {"web", "fm", "is_fm"}
      BY DEF WebHi, FmHi, Running, MUTE, I2S_0, I2S_1
    <3> QED  BY <1>4, <3>1 DEF Knows
  <2> HIDE DEF fh, fl
  <2>5. \E r \in Promise!Tuned(b, FALSE) : Is(r, fh, fl)
    <3>1. Knows("sleeping", FALSE, fh, fl)
      BY <2>4 DEF Knows
    <3> QED  BY <1>4, <2>4, <3>1, IsTuned
  <2>6. Promise!After(c, w) = Promise!Tuned(b, FALSE)
    BY <1>7, Afters
  <2>7. Reached(c, w, fh, fl)
    BY <1>7, <2>5, <2>6 DEF Reached
  <2>8. E \o R = (E \o Do("toggle")) \o Do("return")
    BY <1>1, <1>7, Ends, Reassociate
  <2> QED  BY <2>3, <2>7, <2>8, Finish DEF E
<1> QED  BY <1>6, <1>7 DEF Completes

\* The procedure that stops the source.
LEMMA StopOnCourse ==
  ASSUME TypeOK, NEW t, NEW c \in Calls, NEW w \in Promise!State,
         NEW h, NEW l, h \subseteq Hi(t), l \subseteq Lo(t), NEW R \in Seq(Step),
         Completes(c, w, "stop", R, h, l)
  PROVE  OnCourse(t, c, w, Expansion("stop") \o R)
<1> DEFINE E  == Expansion("stop")
           s  == w.source
           gh == {EN} \cup (h \cap {"is_fm", "sleeping"})
           gl == SilentLo \cup {s} \cup (l \cap {"is_fm", "sleeping"})
<1>1. /\ s \in {"web", "fm"} /\ w.asleep \in BOOLEAN
      /\ Knows("is_fm", s = "fm", h, l) /\ Knows("sleeping", w.asleep, h, l)
  BY RadioTypes DEF Completes, SourceKnown, AsleepKnown
<1>2. /\ E \in Seq(Step)
      /\ s = "fm" => E = action_fmstation_stop
      /\ s = "web" => E = action_webstation_stop
  <2>1. flag["is_fm"] = (s = "fm")
    BY <1>1, FlagKnown DEF Flag
  <2> QED  BY <1>1, <2>1, Expansions, Programs, SmallSteps DEF IsFm
<1>3. Leads(Hi(t), Lo(t), E, gh, gl)
  <2>1. /\ gh \subseteq {EN} \cup (Hi(t) \cap {"is_fm", "sleeping"})
        /\ gl \subseteq SilentLo \cup {s} \cup (Lo(t) \cap {"is_fm", "sleeping"})
    OBVIOUS
  <2> HIDE DEF gh, gl
  <2>2. CASE s = "fm"
    BY <1>2, <2>1, <2>2, FmstationStopLeads
  <2>3. CASE s = "web"
    BY <1>2, <2>1, <2>3, WebstationStopLeads
  <2> QED  BY <1>1, <2>2, <2>3
<1>4. /\ Knows("is_fm", s = "fm", gh, gl) /\ Knows("sleeping", w.asleep, gh, gl)
      /\ Knows(s, FALSE, gh, gl) /\ EN \in gh /\ SilentLo \subseteq gl
  BY <1>1 DEF Knows
<1>5. {"unsent", "ready", LCD} \cap gh = {} /\ {"ready", LCD} \cap gl = {}
  BY <1>1 DEF SilentLo, EN, MUTE, MERUS_CS, LCD
<1> HIDE DEF E, gh, gl
<1>6. CASE R = Do("return") /\ (c = "stop" \/ (c = "pause" /\ w.on))
  <2>1. Promise!After(c, w) = {Promise!Stopped(s, FALSE, w.asleep)}
    BY <1>6, Afters
  <2>2. Is(Promise!Stopped(s, FALSE, w.asleep), gh, gl)
    BY <1>1, <1>4, IsStopped
  <2>3. Reached(c, w, gh, gl)
    BY <1>6, <2>1, <2>2 DEF Reached
  <2> QED  BY <1>3, <1>6, <2>3, Finish DEF E
<1>7. CASE c = "power" /\ ~w.asleep /\ R = PowerOffEnd \o Do("return")
  <2> DEFINE fh == gh \cup {"sleeping"}
             fl == gl \ {"sleeping"}
  <2>1. Leads(gh, gl, PowerOffEnd, fh, fl)
    <3>1. "sleeping" \in gl
      BY <1>4, <1>7 DEF Knows
    <3>2. /\ fh \subseteq (gh \ {LCD, "unsent", "ready", "sleeping"}) \cup (gl \cap {"sleeping"})
          /\ fl \subseteq (gl \ {LCD, "ready", "sleeping"}) \cup {"unsent"} \cup (gh \cap {"sleeping"})
      BY <1>5, <3>1
    <3> HIDE DEF fh, fl
    <3> QED  BY <3>2, PowerOffLeads
  <2>2. Leads(Hi(t), Lo(t), E \o PowerOffEnd, fh, fl)
    BY <1>3, <2>1, Then
  <2>3. /\ Knows("is_fm", s = "fm", fh, fl) /\ Knows("sleeping", TRUE, fh, fl)
        /\ Knows(s, FALSE, fh, fl) /\ EN \in fh /\ SilentLo \subseteq fl
    <3>1. "sleeping" \notin SilentLo \cup {s, "is_fm"}
      BY <1>1 DEF SilentLo, MUTE, MERUS_CS
    <3> QED  BY <1>4, <3>1 DEF Knows
  <2> HIDE DEF fh, fl
  <2>4. Promise!After(c, w) = {Promise!Stopped(s, FALSE, TRUE)}
    BY <1>7, Afters
  <2>5. Is(Promise!Stopped(s, FALSE, TRUE), fh, fl)
    BY <1>1, <2>3, IsStopped
  <2>6. Reached(c, w, fh, fl)
    BY <1>7, <2>4, <2>5 DEF Reached
  <2>7. PowerOffEnd \in Seq(Step) /\ Do("return") \in Seq(Step)
    BY Ends, Programs, SmallSteps
  <2>8. E \o R = (E \o PowerOffEnd) \o Do("return")
    BY <1>2, <1>7, <2>7, Reassociate
  <2> QED  BY <2>2, <2>6, <2>8, Finish DEF E
<1>8. CASE c = "source" /\ R = Do("other_source") \o Do("return")
  <2>1. Completes(c, w, "other_source", Do("return"), gh, gl)
    BY <1>4, <1>8 DEF Completes, Becomes, SourceKnown, AsleepKnown
  <2> QED  BY <1>3, <1>8, <2>1, GoOn, Ends DEF E, Expanding
<1> QED  BY <1>1, <1>6, <1>7, <1>8, BecomesOnly DEF Completes

\* action_stop, then the other source.
LEMMA SourceOnCourse ==
  ASSUME TypeOK, NEW t, NEW w \in Promise!State,
         NEW h, NEW l, h \subseteq Hi(t), l \subseteq Lo(t),
         SourceKnown(w, h, l), AsleepKnown(w, h, l)
  PROVE  OnCourse(t, "source", w, Expansion("source") \o Do("return"))
<1> DEFINE stop  == Do("stop")
           other == Do("other_source")
           ret   == Do("return")
<1>1. stop \in Seq(Step) /\ other \in Seq(Step) /\ ret \in Seq(Step)
  BY OneStep DEF Expanding
<1>2. Completes("source", w, "stop", other \o ret, h, l)
  BY DEF Completes
<1>3. OnCourse(t, "source", w, stop \o (other \o ret))
  BY <1>2, Ends, GoOnAtOnce DEF Expanding
<1>4. Expansion("source") = stop \o other
  BY Expansions
<1> HIDE DEF stop, other, ret
<1>5. (stop \o other) \o ret = stop \o (other \o ret)
  BY <1>1, Reassociate
<1>6. OnCourse(t, "source", w, Expansion("source") \o ret)
  BY <1>3, <1>4, <1>5
<1> QED  BY <1>6 DEF ret

\* merus_set_volume.
LEMMA VolumeOnCourse ==
  ASSUME TypeOK, NEW t, NEW w \in Promise!State,
         NEW h, NEW l, h \subseteq Hi(t), l \subseteq Lo(t),
         SourceKnown(w, h, l), AsleepKnown(w, h, l), OnKnown(w, h, l),
         w.sound # "unknown" => HeardHi(w.sound) \subseteq h /\ HeardLo(w.sound) \subseteq l
  PROVE  OnCourse(t, "volume", w, Expansion("volume") \o Do("return"))
<1> DEFINE start == VolumeStart
           back  == Do("redirector_restore")
           end   == VolumeEnd
           ret   == Do("return")
           T  == {MERUS_CS, "unsent", "ready", "prev"} \cup Running
           gh == (h \ T) \cup (IF "is_running" \in h THEN {"prev"} ELSE {})
           gl == (l \ T) \cup (IF "is_running" \in l THEN {"prev"} ELSE {})
<1>1. /\ start \in Seq(Step) /\ end \in Seq(Step) /\ ret \in Seq(Step)
      /\ back \in Seq(Step) /\ back \o end \in Seq(Step)
  BY Programs, SmallSteps, Ends, OneStep, Join DEF Plain
<1>2. Completes("volume", w, "redirector_restore", end \o ret, gh, gl)
  <2>1. w.source \in {"web", "fm"} /\ w.sound \in {"web", "fm", "silence", "unknown"}
    BY RadioTypes
  <2>2. \A v \in {"is_fm", "sleeping", "web", "fm"} : v \notin T
    BY DEF Running, MERUS_CS
  <2>3. SourceKnown(w, gh, gl) /\ AsleepKnown(w, gh, gl) /\ OnKnown(w, gh, gl)
    <3>1. \A v \in {"is_fm", "sleeping", "web", "fm"} : (v \in h => v \in gh) /\ (v \in l => v \in gl)
      BY <2>2
    <3> HIDE DEF gh, gl
    <3> QED  BY <2>1, <3>1 DEF SourceKnown, AsleepKnown, OnKnown, Knows
  <2>4. PausedHi(w.sound) \subseteq gh
    <3>1. CASE w.sound \in {"web", "fm"}
      <4>1. /\ HeardHi(w.sound) \cap {MERUS_CS, "unsent", "ready", "prev"} = {}
            /\ "is_running" \in HeardHi(w.sound)
        BY <3>1 DEF HeardHi, WebHi, FmHi, Running, MUTE, MERUS_CS, I2S_0, I2S_1
      <4> QED  BY <3>1, <4>1 DEF PausedHi
    <3>2. CASE w.sound = "silence"
      BY <3>2 DEF PausedHi, HeardHi, Running, EN, MERUS_CS
    <3>3. CASE w.sound = "unknown"
      BY <3>3 DEF PausedHi, HeardHi
    <3> QED  BY <2>1, <3>1, <3>2, <3>3
  <2>5. PausedLo(w.sound) \subseteq gl
    <3>1. CASE w.sound \in {"web", "fm"}
      <4>1. /\ HeardLo(w.sound) \cap ({"ready", "prev"} \cup Running) = {}
            /\ "is_running" \in Running
        BY <3>1 DEF HeardLo, WebLo, FmLo, Running, EN, MERUS_CS, I2S_0, I2S_1
      <4> QED  BY <3>1, <4>1 DEF PausedLo
    <3>2. CASE w.sound = "silence"
      <4>1. /\ HeardLo("silence") = SilentLo /\ MUTE \notin T /\ "is_running" \in SilentLo
            /\ SilentLo \ {"is_running", MERUS_CS, "unsent"} \subseteq {MUTE}
        BY DEF HeardLo, SilentLo, Running, MUTE, MERUS_CS
      <4> HIDE DEF T
      <4>2. MUTE \in l \/ MUTE \notin SilentLo
        BY <3>2, <4>1
      <4> QED  BY <3>2, <4>1, <4>2 DEF PausedLo
    <3>3. CASE w.sound = "unknown"
      BY <3>3 DEF PausedLo, HeardLo
    <3> QED  BY <2>1, <3>1, <3>2, <3>3
  <2> HIDE DEF gh, gl
  <2> QED  BY <2>3, <2>4, <2>5 DEF Completes
<1>3. Leads(Hi(t), Lo(t), start, gh, gl)
  <2>1. /\ gh \subseteq (Hi(t) \ T) \cup (IF "is_running" \in Hi(t) THEN {"prev"} ELSE {})
        /\ gl \subseteq (Lo(t) \ T) \cup (IF "is_running" \in Lo(t) THEN {"prev"} ELSE {})
    OBVIOUS
  <2> HIDE DEF gh, gl
  <2> QED  BY <2>1, VolumeStartLeads
<1> HIDE DEF gh, gl
<1>4. OnCourse(t, "volume", w, start \o (back \o (end \o ret)))
  BY <1>2, <1>3, Ends, GoOn
<1>5. Expansion("volume") = start \o (back \o end)
  BY Expansions
<1> HIDE DEF start, back, end, ret
<1>6. (back \o end) \o ret = back \o (end \o ret)
  BY <1>1, Reassociate
<1>7. (start \o (back \o end)) \o ret = start \o ((back \o end) \o ret)
  BY <1>1, Reassociate
<1>8. OnCourse(t, "volume", w, Expansion("volume") \o ret)
  BY <1>4, <1>5, <1>6, <1>7
<1> QED  BY <1>8 DEF ret

\* action_toggle_power.
LEMMA PowerOnCourse ==
  ASSUME TypeOK, NEW t, NEW w \in Promise!State,
         NEW h, NEW l, h \subseteq Hi(t), l \subseteq Lo(t),
         SourceKnown(w, h, l), AsleepKnown(w, h, l)
  PROVE  OnCourse(t, "power", w, Expansion("power") \o Do("return"))
<1> DEFINE on   == PowerOnStart
           sw   == Do("switch")
           stop == Do("stop")
           off  == PowerOffEnd
           flip == Do("toggle")
           ret  == Do("return")
<1>1. /\ on \in Seq(Step) /\ off \in Seq(Step) /\ ret \in Seq(Step)
      /\ sw \in Seq(Step) /\ flip \in Seq(Step) /\ stop \in Seq(Step)
  BY Programs, SmallSteps, Ends, OneStep DEF Expanding
<1>2. sw \o flip \in Seq(Step)
  BY <1>1, Join
<1>3. ASSUME w.asleep
      PROVE  OnCourse(t, "power", w, on \o (sw \o (flip \o ret)))
  <2> DEFINE gh == h \cap {"is_fm", "sleeping"}
             gl == l \cap {"is_fm", "sleeping"}
  <2>1. Leads(Hi(t), Lo(t), on, gh, gl)
    BY PowerOnLeads
  <2>2. SourceKnown(w, gh, gl) /\ AsleepKnown(w, gh, gl)
    BY DEF SourceKnown, AsleepKnown, Knows
  <2> HIDE DEF gh, gl
  <2>3. Completes("power", w, "switch", flip \o ret, gh, gl)
    BY <1>3, <2>2 DEF Completes
  <2> QED  BY <2>1, <2>3, Ends, GoOn DEF Expanding
<1>4. ASSUME ~w.asleep
      PROVE  OnCourse(t, "power", w, stop \o (off \o ret))
  <2>1. Completes("power", w, "stop", off \o ret, h, l)
    BY <1>4 DEF Completes
  <2> QED  BY <2>1, Ends, GoOnAtOnce DEF Expanding
<1>5. Expansion("power") = IF w.asleep THEN on \o (sw \o flip) ELSE stop \o off
  <2>1. flag["sleeping"] = w.asleep
    BY RadioTypes, FlagKnown DEF AsleepKnown, Flag
  <2> QED  BY <2>1, Expansions
<1> HIDE DEF on, sw, stop, off, flip, ret
<1>6. (sw \o flip) \o ret = sw \o (flip \o ret)
  <2>1. sw \in Seq(Step) /\ flip \in Seq(Step) /\ ret \in Seq(Step)
    BY <1>1
  <2> QED  BY <2>1, Reassociate
<1>7. (on \o (sw \o flip)) \o ret = on \o ((sw \o flip) \o ret)
  <2>1. on \in Seq(Step) /\ ret \in Seq(Step)
    BY <1>1
  <2> DEFINE both == sw \o flip
  <2>2. both \in Seq(Step)
    BY <1>2
  <2> HIDE DEF both
  <2>3. (on \o both) \o ret = on \o (both \o ret)
    BY <2>1, <2>2, Reassociate
  <2> QED  BY <2>3 DEF both
<1>8. (stop \o off) \o ret = stop \o (off \o ret)
  BY <1>1, Reassociate
<1>9. OnCourse(t, "power", w, Expansion("power") \o ret)
  <2>1. CASE w.asleep
    <3>1. Expansion("power") = on \o (sw \o flip)
      BY <1>5, <2>1
    <3> QED  BY <1>3, <1>6, <1>7, <2>1, <3>1
  <2>2. CASE ~w.asleep
    <3>1. Expansion("power") = stop \o off
      BY <1>5, <2>2
    <3> QED  BY <1>4, <1>8, <2>2, <3>1
  <2> QED  BY <2>1, <2>2
<1> QED  BY <1>9 DEF ret

\* What a step stands for keeps the call on course.
LEMMA ExpansionOnCourse ==
  ASSUME TypeOK, NEW t \in Task, NEW c \in Calls, NEW w \in Promise!State,
         NEW h, NEW l, h \subseteq Hi(t), l \subseteq Lo(t),
         NEW R \in Seq(Step), NEW b \in Expanding, Completes(c, w, b, R, h, l)
  PROVE  OnCourse(t, c, w, Expansion(b) \o R)
<1>1. /\ w.source \in {"web", "fm"} /\ w.on \in BOOLEAN /\ w.asleep \in BOOLEAN
      /\ Promise!Other(w.source) \in {"web", "fm"}
      /\ SourceKnown(w, h, l) /\ AsleepKnown(w, h, l)
  BY RadioTypes DEF Completes
<1>2. IsFm = (w.source = "fm")
  BY <1>1, FlagKnown DEF SourceKnown, IsFm, Flag
<1>3. CASE b = "fm"
  <2>1. Expansion(b) = action_fmstation_set
    BY <1>3, Expansions
  <2>2. OnCourse(t, c, w, (IF b = "web" THEN action_webstation_set(TRUE)
                                        ELSE action_fmstation_set) \o R)
    BY <1>3, PlayOnCourse
  <2> QED  BY <1>3, <2>1, <2>2
<1>4. CASE b = "stop"
  BY <1>4, StopOnCourse
<1>5. ASSUME b \notin {"fm", "stop"}
      PROVE  \/ b \in Becomes(c, w) /\ R = Do("return")
             \/ /\ b = "switch" /\ c = "power" /\ w.asleep
                /\ R = Do("toggle") \o Do("return")
  BY <1>1, <1>5 DEF Completes, Expanding
<1>6. CASE b = "webstation_stop"
  <2> DEFINE k  == {"is_fm", "fm", "sleeping"}
             gh == {EN} \cup (h \cap k)
             gl == SilentLo \cup {"web"} \cup (l \cap k)
             still == w.on /\ w.source = "fm"
  <2>1. c = "webstation_stop" /\ R = Do("return")
    BY <1>5, <1>6, BecomesOnly
  <2>2. Leads(Hi(t), Lo(t), action_webstation_stop, gh, gl)
    <3>1. /\ gh \subseteq {EN} \cup (Hi(t) \cap k)
          /\ gl \subseteq SilentLo \cup {"web"} \cup (Lo(t) \cap k)
      OBVIOUS
    <3> HIDE DEF gh, gl
    <3> QED  BY <3>1, WebstationStopLeads
  <2>3. /\ Knows("is_fm", w.source = "fm", gh, gl) /\ Knows("sleeping", w.asleep, gh, gl)
        /\ EN \in gh /\ SilentLo \subseteq gl
    BY <1>1 DEF Knows, SourceKnown, AsleepKnown
  <2>4. Knows(w.source, still, gh, gl)
    <3>1. w.source = "fm" => Knows("fm", w.on, h, l)
      BY <1>6, <2>1 DEF Completes, OnKnown
    <3> QED  BY <1>1, <3>1 DEF Knows
  <2> HIDE DEF gh, gl
  <2>5. Is(Promise!Stopped(w.source, still, w.asleep), gh, gl)
    BY <1>1, <2>3, <2>4, IsStopped
  <2>6. Promise!After(c, w) = {Promise!Stopped(w.source, still, w.asleep)}
    BY <2>1, Afters
  <2>7. Reached(c, w, gh, gl)
    BY <2>1, <2>5, <2>6 DEF Reached
  <2> QED  BY <1>6, <2>1, <2>2, <2>7, Finish, Expansions
<1>7. CASE b = "switch"
  <2>1. Expansion(b) = Do(w.source)
    BY <1>1, <1>2, <1>7, Expansions
  <2>2. Completes(c, w, w.source, R, h, l)
    <3>1. CASE b \in Becomes(c, w) /\ R = Do("return")
      <4>1. c = "pause" /\ ~w.on
        BY <1>7, <3>1, BecomesOnly
      <4> QED  BY <1>1, <3>1, <4>1 DEF Completes, Becomes
    <3>2. CASE c = "power" /\ w.asleep /\ R = Do("toggle") \o Do("return")
      BY <1>1, <3>2 DEF Completes
    <3> QED  BY <1>5, <1>7, <3>1, <3>2
  <2> QED  BY <1>1, <2>1, <2>2, GoOnAtOnce DEF Expanding
<1>8. CASE b = "pause"
  <2>1. c = "pause" /\ R = Do("return")
    BY <1>5, <1>8, BecomesOnly
  <2>2. OnKnown(w, h, l)
    BY <1>8, <2>1 DEF Completes
  <2>3. action_is_running = w.on
    <3>1. flag[w.source] = w.on
      BY <1>1, <2>2, FlagKnown DEF OnKnown, Flag
    <3> QED  BY <1>1, <1>2, <3>1 DEF action_is_running
  <2>4. PICK s \in {"stop", "switch"} : Expansion(b) = Do(s) /\ s \in Becomes(c, w)
    <3>1. CASE w.on
      <4>1. "stop" \in Becomes(c, w)
        BY <2>1, <3>1 DEF Becomes
      <4> QED  BY <1>8, <2>3, <3>1, <4>1, Expansions
    <3>2. CASE ~w.on
      <4>1. "switch" \in Becomes(c, w)
        BY <2>1, <3>2 DEF Becomes
      <4> QED  BY <1>8, <2>3, <3>2, <4>1, Expansions
    <3> QED  BY <3>1, <3>2
  <2>5. Completes(c, w, s, R, h, l)
    BY <1>1, <2>1, <2>4 DEF Completes
  <2> QED  BY <2>4, <2>5, GoOnAtOnce DEF Expanding
<1>9. CASE b = "other_source"
  <2> DEFINE s == Promise!Other(w.source)
  <2>1. c = "source" /\ R = Do("return")
    BY <1>5, <1>9, BecomesOnly
  <2>2. Expansion(b) = Do(s)
    BY <1>1, <1>2, <1>9, Expansions DEF Promise!Other
  <2>3. Completes(c, w, s, R, h, l)
    BY <1>1, <2>1 DEF Completes, Becomes
  <2>4. s \in Expanding \cup {"web", "redirector_restore"}
    BY <1>1 DEF Expanding
  <2> HIDE DEF s
  <2> QED  BY <2>2, <2>3, <2>4, GoOnAtOnce
<1>10. CASE b \in {"source", "volume", "power"}
  <2>1. c = b /\ R = Do("return")
    BY <1>5, <1>10, BecomesOnly
  <2>2. CASE b = "source"
    BY <1>1, <2>1, <2>2, SourceOnCourse
  <2>3. CASE b = "volume"
    <3>1. /\ OnKnown(w, h, l)
          /\ w.sound # "unknown" => HeardHi(w.sound) \subseteq h /\ HeardLo(w.sound) \subseteq l
      BY <2>1, <2>3 DEF Completes
    <3> QED  BY <1>1, <2>1, <2>3, <3>1, VolumeOnCourse
  <2>4. CASE b = "power"
    BY <1>1, <2>1, <2>4, PowerOnCourse
  <2> QED  BY <1>10, <2>2, <2>3, <2>4
<1> QED  BY <1>3, <1>4, <1>6, <1>7, <1>8, <1>9, <1>10 DEF Expanding

\* i2s_redirector_restore in a change of the volume: the redirector runs after it
\* if it did before the registers were written.
LEMMA RestoreOnCourse ==
  ASSUME TypeOK, NEW t \in Task, NEW R \in Seq(Step), NEW c \in Calls, NEW w \in Promise!State,
         NEW h, NEW l, h \subseteq Hi(t), l \subseteq Lo(t),
         Completes(c, w, "redirector_restore", R, h, l)
  PROVE  OnCourse(t, c, w, Restored(t) \o R)
<1> DEFINE E == Restored(t)
           s == w.sound
           X == {MERUS_CS, "unsent", "ready"}
<1>1. /\ c = "volume" /\ R = VolumeEnd \o Do("return")
      /\ SourceKnown(w, h, l) /\ AsleepKnown(w, h, l) /\ OnKnown(w, h, l)
      /\ PausedHi(s) \subseteq h /\ PausedLo(s) \subseteq l
  <2>1. "redirector_restore" \notin Becomes(c, w) /\ w.source # "redirector_restore"
    BY BecomesOnly, RadioTypes
  <2> QED  BY <2>1 DEF Completes
<1>2. E \in Seq(Step) /\ VolumeEnd \in Seq(Step) /\ Do("return") \in Seq(Step)
  BY RestoredSmall, Programs, SmallSteps, Ends
<1>3. E \o R = (E \o VolumeEnd) \o Do("return")
  BY <1>1, <1>2, Reassociate
<1>4. /\ w.source \in {"web", "fm"} /\ s \in {"web", "fm", "silence", "unknown"}
      /\ w \in Promise!After("volume", w)
  BY RadioTypes, Afters
<1>5. \A v \in {"is_fm", "sleeping", "web", "fm", "prev"} : v \notin Running \cup X
  BY DEF Running, MERUS_CS
<1>6. /\ s = "web" => {MUTE, I2S_1, "prev"} \subseteq h /\ {EN, I2S_0} \subseteq l
      /\ s = "fm"  => {MUTE, I2S_0, "prev"} \subseteq h /\ {EN, I2S_1} \subseteq l
      /\ s = "silence" => EN \in h /\ {MUTE, "prev"} \subseteq l
  <2> USE DEF PausedHi, PausedLo, HeardHi, HeardLo, Running, EN, MUTE, MERUS_CS, I2S_0, I2S_1
  <2>1. CASE s = "web"
    BY <1>1, <2>1 DEF WebHi, WebLo
  <2>2. CASE s = "fm"
    BY <1>1, <2>2 DEF FmHi, FmLo
  <2>3. CASE s = "silence"
    BY <1>1, <2>3 DEF SilentLo
  <2> QED  BY <2>1, <2>2, <2>3
\* With the redirector as it was found, and the chip deselected, w is back.
<1>7. ASSUME NEW g, NEW m, h \ (Running \cup X) \subseteq g, l \ (Running \cup X) \subseteq m,
             {MERUS_CS, "unsent"} \subseteq m,
             \/ Running \cup {"prev"} \subseteq g /\ s # "silence"
             \/ {"is_running", "prev"} \subseteq m /\ s \notin {"web", "fm"},
             NEW F, Leads(Hi(t), Lo(t), F, g, m)
      PROVE  OnCourse(t, c, w, F \o Do("return"))
  <2>1. SourceKnown(w, g, m) /\ AsleepKnown(w, g, m) /\ OnKnown(w, g, m)
    <3>1. \A v \in {"is_fm", "sleeping", "web", "fm"} : (v \in h => v \in g) /\ (v \in l => v \in m)
      BY <1>5, <1>7
    <3> QED  BY <1>1, <1>4, <3>1 DEF SourceKnown, AsleepKnown, OnKnown, Knows
  <2>2. /\ \A v \in {EN, MUTE, I2S_0, I2S_1} : v \notin Running \cup X
        /\ "is_running" \in Running
    BY DEF EN, MUTE, MERUS_CS, I2S_0, I2S_1, Running
  <2>3. HeardHi(s) \subseteq g /\ HeardLo(s) \subseteq m
    <3>1. CASE s = "web"
      BY <1>6, <1>7, <2>2, <3>1 DEF HeardHi, HeardLo, WebHi, WebLo
    <3>2. CASE s = "fm"
      BY <1>6, <1>7, <2>2, <3>2 DEF HeardHi, HeardLo, FmHi, FmLo
    <3>3. CASE s = "silence"
      BY <1>6, <1>7, <2>2, <3>3 DEF HeardHi, HeardLo, SilentLo
    <3>4. CASE s = "unknown"
      BY <1>7, <3>4 DEF HeardHi, HeardLo
    <3> QED  BY <1>4, <3>1, <3>2, <3>3, <3>4
  <2>4. Is(w, g, m)
    BY <2>1, <2>3 DEF Is
  <2>5. Reached(c, w, g, m)
    BY <1>1, <1>4, <1>7, <2>2, <2>4 DEF Reached
  <2> QED  BY <1>7, <2>5, Finish
<1> HIDE DEF E
<1>8. CASE prev[t]
  <2> DEFINE h1 == (h \ Running) \cup {"prev"}
             l1 == l \ Running
             g  == (h1 \cup Running) \ X
             m  == (l1 \ {"ready"}) \cup {MERUS_CS, "unsent"}
  <2>1. h1 \subseteq Hi(t) \ Running /\ l1 \subseteq Lo(t) \ Running
    BY <1>5, <1>8 DEF Hi
  <2>2. Leads(Hi(t), Lo(t), E, h1 \cup Running, l1)
    BY <1>8, <2>1, RestoredLeads DEF E
  <2>3. Leads(h1 \cup Running, l1, VolumeEnd, g, m)
    BY VolumeEndLeads
  <2>4. Leads(Hi(t), Lo(t), E \o VolumeEnd, g, m)
    BY <2>2, <2>3, Then
  <2>5. s # "silence"
    <3>1. "prev" \in Lo(t) => ~prev[t]
      BY DEF Lo, Pin, Flag, EN, MUTE, MERUS_CS, FM_CS, I2S_0, I2S_1, LCD
    <3> QED  BY <1>6, <1>8, <3>1
  <2>6. /\ h \ (Running \cup X) \subseteq g /\ l \ (Running \cup X) \subseteq m
        /\ {MERUS_CS, "unsent"} \subseteq m /\ Running \cup {"prev"} \subseteq g
    <3>1. Running \cap X = {}
      BY DEF Running, MERUS_CS
    <3> QED  BY <1>5, <3>1
  <2> HIDE DEF h1, l1, g, m
  <2> QED  BY <1>3, <1>7, <2>4, <2>5, <2>6 DEF E
<1>9. CASE ~prev[t]
  <2> DEFINE h1 == h \ Running
             l1 == (l \ Running) \cup {"prev"}
             l2 == l1 \cup {"is_running"}
             g  == h1 \ X
             m  == (l2 \ {"ready"}) \cup {MERUS_CS, "unsent"}
  <2>1. h1 \subseteq Hi(t) \ Running /\ l1 \subseteq Lo(t) \ Running
    BY <1>5, <1>9 DEF Lo
  <2>2. Leads(Hi(t), Lo(t), E, h1, l2)
    BY <1>9, <2>1, RestoredLeads DEF E
  <2>3. Leads(h1, l2, VolumeEnd, g, m)
    BY VolumeEndLeads
  <2>4. Leads(Hi(t), Lo(t), E \o VolumeEnd, g, m)
    BY <2>2, <2>3, Then
  <2>5. s \notin {"web", "fm"}
    <3>1. "prev" \in Hi(t) => prev[t]
      BY DEF Hi, Pin, Flag, EN, MUTE, MERUS_CS, FM_CS, I2S_0, I2S_1, LCD
    <3> QED  BY <1>6, <1>9, <3>1
  <2>6. /\ h \ (Running \cup X) \subseteq g /\ l \ (Running \cup X) \subseteq m
        /\ {MERUS_CS, "unsent"} \subseteq m /\ {"is_running", "prev"} \subseteq m
    OBVIOUS
  <2> HIDE DEF h1, l1, l2, g, m
  <2> QED  BY <1>3, <1>7, <2>4, <2>5, <2>6 DEF E
<1> QED  BY <1>8, <1>9

-----------------------------------------------------------------------------
(* Where a task is in its program *)

\* Solo and in the middle of small steps, at its return, or at a step that stands
\* for others with R to follow.
Working(t, c, w) ==
  \E F, K, h, l :
    /\ prog[t] = F \o K /\ K \in Seq(Step) /\ F # <<>>
    /\ Leads(Hi(t), Lo(t), F, h, l) /\ Rest(c, w, K, h, l)
Returning(t, c, w) == prog[t] = Do("return") /\ Reached(c, w, Hi(t), Lo(t))
ComesTo(t, c, w, b, R) ==
  /\ b \in Expanding \cup {"web", "redirector_restore"} /\ R \in Seq(Step)
  /\ prog[t] = Do(b) \o R
  /\ \E h, l : h \subseteq Hi(t) /\ l \subseteq Lo(t) /\ Completes(c, w, b, R, h, l)

LEMMA ReachedMonotone ==
  ASSUME NEW c, NEW w, NEW h, NEW l, Reached(c, w, h, l),
         NEW g, NEW m, h \subseteq g, l \subseteq m
  PROVE  Reached(c, w, g, m)
<1>1. \A v, b : Knows(v, b, h, l) => Knows(v, b, g, m)
  BY DEF Knows
<1>2. \A r : Is(r, h, l) => Is(r, g, m)
  BY <1>1 DEF Is, SourceKnown, AsleepKnown, OnKnown
<1> QED  BY <1>1, <1>2 DEF Reached

LEMMA Situation ==
  ASSUME NEW t, NEW c, NEW w, OnCourse(t, c, w, prog[t])
  PROVE  \/ Working(t, c, w) \/ Returning(t, c, w)
         \/ \E b, R : ComesTo(t, c, w, b, R)
<1>1. PICK F, K, h, l :
        /\ prog[t] = F \o K /\ K \in Seq(Step)
        /\ Leads(Hi(t), Lo(t), F, h, l) /\ Rest(c, w, K, h, l)
  BY DEF OnCourse
<1>2. CASE F # <<>>
  BY <1>1, <1>2 DEF Working
<1>3. CASE F = <<>>
  <2>1. h \subseteq Hi(t) /\ l \subseteq Lo(t)
    BY <1>1, <1>3, LeadsNowhere
  <2>2. prog[t] = K
    BY <1>1, <1>3, ConcatEmptySeq
  <2>3. CASE K = Do("return") /\ Reached(c, w, h, l)
    BY <2>1, <2>2, <2>3, ReachedMonotone DEF Returning
  <2>4. ASSUME NEW b \in Expanding \cup {"web", "redirector_restore"}, NEW R \in Seq(Step),
               K = Do(b) \o R, Completes(c, w, b, R, h, l)
        PROVE  ComesTo(t, c, w, b, R)
    BY <2>1, <2>2, <2>4 DEF ComesTo
  <2> QED  BY <1>1, <2>3, <2>4 DEF Rest
<1> QED  BY <1>2, <1>3

\* What the first step is then.
LEMMA FirstWorking ==
  ASSUME NEW t, NEW c, NEW w, Working(t, c, w)
  PROVE  /\ ~Idle(t) /\ Head(prog[t]) \in Small
         /\ Head(prog[t]).do \in Plain \cup {"store", "assign"}
<1>1. PICK F, K, h, l :
        /\ prog[t] = F \o K /\ K \in Seq(Step) /\ F # <<>> /\ Leads(Hi(t), Lo(t), F, h, l)
  BY DEF Working
<1>2. F \in Seq(Small) /\ Head(F) \in Small
  BY <1>1, First DEF Leads
<1>3. ~Idle(t) /\ Head(prog[t]) = Head(F)
  BY <1>1, <1>2, FirstOfSmall DEF Idle
<1> QED  BY <1>2, <1>3, Kinds

LEMMA FirstReturning ==
  ASSUME NEW t, NEW c, NEW w, Returning(t, c, w)
  PROVE  ~Idle(t) /\ Head(prog[t]).do = "return" /\ Tail(prog[t]) = <<>>
BY DEF Returning, Do, Idle

LEMMA FirstComesTo ==
  ASSUME NEW t, NEW c, NEW w, NEW b, NEW R, ComesTo(t, c, w, b, R)
  PROVE  /\ ~Idle(t) /\ Head(prog[t]).do = b /\ Tail(prog[t]) = R
         /\ b \in Expanding \cup {"web", "redirector_restore"}
BY FirstOf DEF ComesTo, Plain, Idle

-----------------------------------------------------------------------------
(* What the facts say of the radio *)

Parts(source, on, asleep, sound) ==
  [source |-> source, on |-> on, asleep |-> asleep, sound |-> sound]

LEMMA RadioNowTypes ==
  ASSUME TypeOK
  PROVE  /\ RadioNow \in Promise!State /\ Unasked \in Promise!State
         /\ RadioNow = Parts(IF IsFm THEN "fm" ELSE "web", action_is_running,
                             flag["sleeping"], Heard)
         /\ RadioNow.source = (IF IsFm THEN "fm" ELSE "web")
         /\ RadioNow.on = action_is_running /\ RadioNow.asleep = flag["sleeping"]
         /\ RadioNow.sound = Heard
<1>1. action_is_running \in BOOLEAN /\ flag["sleeping"] \in BOOLEAN
  BY DEF TypeOK, action_is_running, IsFm, Flag
<1>2. Heard \in {"web", "fm", "silence", "unknown"}
  BY DEF Heard
<1>3. (IF IsFm THEN "fm" ELSE "web") \in {"web", "fm"}
  OBVIOUS
<1>4. Unasked \in Promise!State
  BY DEF Unasked, Promise!State, Promise!Source, Promise!Sound
<1>5. RadioNow \in Promise!State
  BY <1>1, <1>2, <1>3 DEF RadioNow, Promise!State, Promise!Source, Promise!Sound
<1> QED  BY <1>4, <1>5 DEF RadioNow, Parts

\* One thing is heard at most.
LEMMA PlaysOne ==
  /\ Plays(I2S_1) => ~Plays(I2S_0) /\ ~Silent
  /\ Plays(I2S_0) => ~Plays(I2S_1) /\ ~Silent
BY DEF Plays, Silent, I2S_0, I2S_1

\* The facts of the present state tell the radio.
LEMMA KnownNow ==
  ASSUME TypeOK, NEW t \in Task, NEW r \in Promise!State, Is(r, Hi(t), Lo(t))
  PROVE  /\ Sent
         /\ IsFm = (r.source = "fm") /\ action_is_running = r.on
         /\ flag["sleeping"] = r.asleep
         /\ r.sound = "web" => Plays(I2S_1)
         /\ r.sound = "fm" => Plays(I2S_0)
         /\ r.sound = "silence" => Silent
         /\ r.sound # "unknown" => RadioNow = r
<1>1. /\ r.source \in {"web", "fm"} /\ r.on \in BOOLEAN /\ r.asleep \in BOOLEAN
      /\ r.sound \in {"web", "fm", "silence", "unknown"}
      /\ r = Parts(r.source, r.on, r.asleep, r.sound)
  BY DEF Promise!State, Promise!Source, Promise!Sound, Parts
<1>2. /\ \A x \in Pin \ {LCD} : (x \in Hi(t) => x \in port_b) /\ (x \in Lo(t) => x \notin port_b)
      /\ \A x \in Flag : (x \in Hi(t) => flag[x]) /\ (x \in Lo(t) => ~flag[x])
      /\ "unsent" \in Lo(t) => Sent
  BY DEF Hi, Lo, Pin, Flag, EN, MUTE, MERUS_CS, FM_CS, I2S_0, I2S_1, LCD
<1>3. /\ IsFm = (r.source = "fm") /\ flag["sleeping"] = r.asleep /\ flag[r.source] = r.on
  <2> DEFINE fm == r.source = "fm"
  <2>1. /\ fm \in BOOLEAN /\ {"is_fm", "sleeping", r.source} \subseteq Flag
        /\ Knows("is_fm", fm, Hi(t), Lo(t)) /\ Knows("sleeping", r.asleep, Hi(t), Lo(t))
        /\ Knows(r.source, r.on, Hi(t), Lo(t))
    BY <1>1 DEF Is, SourceKnown, AsleepKnown, OnKnown, Flag
  <2> HIDE DEF fm
  <2>2. flag["is_fm"] = fm /\ flag["sleeping"] = r.asleep /\ flag[r.source] = r.on
    BY <1>1, <2>1, FlagKnown
  <2> QED  BY <2>2 DEF IsFm, fm
<1>4. action_is_running = r.on
  BY <1>1, <1>3 DEF action_is_running
<1>5. HeardHi(r.sound) \subseteq Hi(t) /\ HeardLo(r.sound) \subseteq Lo(t)
  BY DEF Is
<1>6. Sent /\ \A x \in Pin \ {LCD} : x \in chip <=> x \in port_b
  <2>1. "unsent" \in HeardLo(r.sound)
    BY <1>1 DEF HeardLo, WebLo, FmLo, SilentLo
  <2> QED  BY <1>2, <1>5, <2>1 DEF Sent
<1>7. ASSUME r.sound = "web"
      PROVE  Plays(I2S_1) /\ Heard = "web"
  <2>1. Plays(I2S_1)
    BY <1>2, <1>5, <1>6, <1>7 DEF HeardHi, HeardLo, WebHi, WebLo, Running, Plays,
       Pin, Flag, EN, MUTE, MERUS_CS, FM_CS, I2S_0, I2S_1, LCD
  <2>2. ~Plays(I2S_0) /\ ~Silent
    BY <2>1, PlaysOne
  <2> QED  BY <1>6, <2>1, <2>2 DEF Heard
<1>8. ASSUME r.sound = "fm"
      PROVE  Plays(I2S_0) /\ Heard = "fm"
  <2>1. Plays(I2S_0)
    BY <1>2, <1>5, <1>6, <1>8 DEF HeardHi, HeardLo, FmHi, FmLo, Running, Plays,
       Pin, Flag, EN, MUTE, MERUS_CS, FM_CS, I2S_0, I2S_1, LCD
  <2>2. ~Plays(I2S_1) /\ ~Silent
    BY <2>1, PlaysOne
  <2> QED  BY <1>6, <2>1, <2>2 DEF Heard
<1>9. ASSUME r.sound = "silence"
      PROVE  Silent /\ Heard = "silence"
  <2>1. Silent
    BY <1>2, <1>5, <1>6, <1>9 DEF HeardHi, HeardLo, SilentLo, Silent,
       Pin, Flag, EN, MUTE, MERUS_CS, FM_CS, I2S_0, I2S_1, LCD
  <2>2. ~Plays(I2S_1) /\ ~Plays(I2S_0)
    BY <2>1 DEF Plays, Silent
  <2> QED  BY <1>6, <2>1, <2>2 DEF Heard
<1>10. r.sound # "unknown" => RadioNow = r
  <2>1. (IF IsFm THEN "fm" ELSE "web") = r.source
    BY <1>1, <1>3
  <2>2. r.sound # "unknown" => Heard = r.sound
    BY <1>1, <1>7, <1>8, <1>9
  <2>3. RadioNow = Parts(r.source, r.on, r.asleep, Heard)
    BY <1>3, <1>4, <2>1, RadioNowTypes
  <2> QED  BY <1>1, <2>2, <2>3
<1> QED  BY <1>3, <1>4, <1>6, <1>7, <1>8, <1>9, <1>10

\* And the radio of the present state tells the facts.
LEMMA IsNow ==
  ASSUME TypeOK, NEW t \in Task
  PROVE  /\ SourceKnown(RadioNow, Hi(t), Lo(t)) /\ AsleepKnown(RadioNow, Hi(t), Lo(t))
         /\ OnKnown(RadioNow, Hi(t), Lo(t))
         /\ RadioNow.sound # "unknown" => /\ HeardHi(RadioNow.sound) \subseteq Hi(t)
                                          /\ HeardLo(RadioNow.sound) \subseteq Lo(t)
<1>1. \A v \in Flag : Knows(v, flag[v], Hi(t), Lo(t))
  BY DEF Knows, Hi, Lo
<1>2. /\ RadioNow.source = (IF IsFm THEN "fm" ELSE "web")
      /\ RadioNow.on = action_is_running /\ RadioNow.asleep = flag["sleeping"]
      /\ RadioNow.sound = Heard
  BY RadioNowTypes
<1>3. /\ SourceKnown(RadioNow, Hi(t), Lo(t)) /\ AsleepKnown(RadioNow, Hi(t), Lo(t))
      /\ OnKnown(RadioNow, Hi(t), Lo(t))
  <2>1. flag \in [Flag -> BOOLEAN] /\ {"is_fm", "sleeping", "web", "fm"} \subseteq Flag
    BY DEF TypeOK, Flag
  <2>2. (RadioNow.source = "fm") = flag["is_fm"]
    BY <1>2, <2>1 DEF IsFm
  <2>3. RadioNow.on = flag[RadioNow.source] /\ RadioNow.source \in {"web", "fm"}
    BY <1>2 DEF action_is_running
  <2> QED  BY <1>1, <1>2, <2>1, <2>2, <2>3 DEF SourceKnown, AsleepKnown, OnKnown
<1> USE DEF Pin, Flag, EN, MUTE, MERUS_CS, FM_CS, I2S_0, I2S_1, LCD
<1>4. CASE Sent /\ Plays(I2S_1)
  <2>1. Heard = "web"
    BY <1>4, PlaysOne DEF Heard
  <2>2. WebHi \subseteq Hi(t) /\ WebLo \subseteq Lo(t)
    BY <1>4 DEF Plays, WebHi, WebLo, Running, Hi, Lo, Sent
  <2> QED  BY <1>2, <1>3, <2>1, <2>2 DEF HeardHi, HeardLo
<1>5. CASE Sent /\ ~Plays(I2S_1) /\ Plays(I2S_0)
  <2>1. Heard = "fm"
    BY <1>5, PlaysOne DEF Heard
  <2>2. FmHi \subseteq Hi(t) /\ FmLo \subseteq Lo(t)
    BY <1>5 DEF Plays, FmHi, FmLo, Running, Hi, Lo, Sent
  <2> QED  BY <1>2, <1>3, <2>1, <2>2 DEF HeardHi, HeardLo
<1>6. CASE Sent /\ ~Plays(I2S_1) /\ ~Plays(I2S_0) /\ Silent
  <2>1. Heard = "silence"
    BY <1>6 DEF Heard
  <2>2. EN \in Hi(t) /\ SilentLo \subseteq Lo(t)
    BY <1>6 DEF Silent, SilentLo, Hi, Lo, Sent
  <2> QED  BY <1>2, <1>3, <2>1, <2>2 DEF HeardHi, HeardLo
<1>7. CASE ~(Sent /\ (Plays(I2S_1) \/ Plays(I2S_0) \/ Silent))
  <2>1. Heard = "unknown"
    BY <1>7 DEF Heard
  <2> QED  BY <1>2, <1>3, <2>1
<1> QED  BY <1>4, <1>5, <1>6, <1>7

\* A call that returns has had its effect.
LEMMA ReachedEffect ==
  ASSUME TypeOK, NEW t \in Task, NEW c \in Calls, NEW w \in Promise!State,
         Reached(c, w, Hi(t), Lo(t))
  PROVE  /\ Effect(c) /\ RadioNow \in Promise!After(c, w)
         /\ c = "volume" => flag["is_running"] = prev[t]
<1>1. /\ w.source \in {"web", "fm"} /\ w.on \in BOOLEAN /\ w.asleep \in BOOLEAN
      /\ w.sound \in {"web", "fm", "silence", "unknown"}
      /\ Promise!Other(w.source) \in {"web", "fm"}
  BY RadioTypes
<1>2. PICK r \in Promise!After(c, w) : Is(r, Hi(t), Lo(t))
  BY DEF Reached
<1>3. ASSUME NEW s \in {"web", "fm"}, NEW b \in BOOLEAN, r \in Promise!Tuned(s, b)
      PROVE  /\ Sent /\ RadioNow = r /\ Plays(IF IsFm THEN I2S_0 ELSE I2S_1)
             /\ IsFm \in BOOLEAN /\ IsFm = (s = "fm") /\ (IsFm => action_is_running)
             /\ ~IsFm => Plays(I2S_1)
  <2>1. r \in Promise!State /\ r.source = s /\ r.sound = s /\ (s = "fm" => r.on)
    BY <1>3 DEF Promise!Tuned
  <2>2. /\ Sent /\ IsFm = (r.source = "fm") /\ action_is_running = r.on
        /\ r.sound = "web" => Plays(I2S_1)
        /\ r.sound = "fm" => Plays(I2S_0)
        /\ r.sound # "unknown" => RadioNow = r
    BY <1>2, <2>1, KnownNow
  <2> QED  BY <2>1, <2>2
<1>4. ASSUME NEW on \in BOOLEAN, NEW b \in BOOLEAN, r = Promise!Stopped(w.source, on, b)
      PROVE  Sent /\ action_is_running = on /\ RadioNow = r /\ Silent
  <2>1. r \in Promise!State /\ r.on = on /\ r.sound = "silence"
    BY <1>1, <1>4 DEF Promise!Stopped, Promise!State, Promise!Source, Promise!Sound
  <2> QED  BY <1>2, <2>1, KnownNow
<1>5. ("prev" \in Hi(t) => prev[t]) /\ ("prev" \in Lo(t) => ~prev[t])
      /\ \A x \in Flag : (x \in Hi(t) => flag[x]) /\ (x \in Lo(t) => ~flag[x])
  BY DEF Hi, Lo, Pin, Flag, EN, MUTE, MERUS_CS, FM_CS, I2S_0, I2S_1, LCD
<1>6. CASE c \in {"web", "fm", "source"} \/ (c = "pause" /\ ~w.on) \/ (c = "power" /\ w.asleep)
  <2>1. PICK s \in {"web", "fm"}, b \in BOOLEAN :
          r \in Promise!Tuned(s, b) /\ (c = "fm" => s = "fm")
    BY <1>1, <1>2, <1>6, Afters
  <2>2. /\ Sent /\ RadioNow = r /\ Plays(IF IsFm THEN I2S_0 ELSE I2S_1)
        /\ IsFm = (s = "fm") /\ (IsFm => action_is_running) /\ (~IsFm => Plays(I2S_1))
    BY <1>3, <2>1
  <2> QED  BY <1>2, <1>6, <2>1, <2>2 DEF Effect
<1>7. CASE c = "stop" \/ (c = "pause" /\ w.on) \/ (c = "power" /\ ~w.asleep)
  <2>1. PICK b \in BOOLEAN : r = Promise!Stopped(w.source, FALSE, b)
    <3>1. CASE c = "stop"
      <4>1. Promise!After("stop", w) = {Promise!Stopped(w.source, FALSE, w.asleep)}
        BY Afters
      <4> QED  BY <1>1, <1>2, <3>1, <4>1
    <3>2. CASE c = "pause" /\ w.on
      <4>1. Promise!After("pause", w) = {Promise!Stopped(w.source, FALSE, w.asleep)}
        BY <3>2, Afters
      <4> QED  BY <1>1, <1>2, <3>2, <4>1
    <3>3. CASE c = "power" /\ ~w.asleep
      <4>1. Promise!After("power", w) = {Promise!Stopped(w.source, FALSE, TRUE)}
        BY <3>3, Afters
      <4> QED  BY <1>2, <3>3, <4>1
    <3> QED  BY <1>7, <3>1, <3>2, <3>3
  <2>2. Sent /\ action_is_running = FALSE /\ RadioNow = r /\ Silent
    BY <1>4, <2>1
  <2> QED  BY <1>2, <1>7, <2>2 DEF Effect
<1>8. CASE c = "webstation_stop"
  <2>1. r = Promise!Stopped(w.source, w.on /\ w.source = "fm", w.asleep)
    BY <1>2, <1>8, Afters
  <2>2. (w.on /\ w.source = "fm") \in BOOLEAN
    OBVIOUS
  <2>3. Sent /\ RadioNow = r /\ Silent
    BY <1>1, <1>4, <2>1, <2>2
  <2> QED  BY <1>2, <1>8, <2>3 DEF Effect
<1>9. CASE c = "volume"
  <2>1. /\ r \in Promise!State /\ r.source = w.source /\ r.on = w.on
        /\ r.asleep = w.asleep /\ w.sound \in {r.sound, "unknown"}
    BY <1>2, <1>9, Afters
  <2>2. /\ Sent /\ IsFm = (r.source = "fm") /\ action_is_running = r.on
        /\ flag["sleeping"] = r.asleep /\ (r.sound # "unknown" => RadioNow = r)
    BY <1>2, <2>1, KnownNow
  <2>3. RadioNow \in Promise!After(c, w)
    <3>1. CASE r.sound # "unknown"
      BY <1>2, <2>2, <3>1
    <3>2. CASE r.sound = "unknown"
      <4>1. w.sound = "unknown"
        BY <2>1, <3>2
      <4>2. /\ RadioNow \in Promise!State
            /\ RadioNow.source = (IF IsFm THEN "fm" ELSE "web")
            /\ RadioNow.on = action_is_running /\ RadioNow.asleep = flag["sleeping"]
        BY RadioNowTypes
      <4>3. /\ RadioNow.source = w.source /\ RadioNow.on = w.on /\ RadioNow.asleep = w.asleep
        BY <1>1, <2>1, <2>2, <4>2
      <4> QED  BY <1>9, <4>1, <4>2, <4>3, Afters
    <3> QED  BY <3>1, <3>2
  <2>4. flag["is_running"] = prev[t]
    <3>1. flag["is_running"] \in BOOLEAN /\ prev[t] \in BOOLEAN /\ "is_running" \in Flag
      BY DEF TypeOK, Flag
    <3> QED  BY <1>5, <1>9, <3>1 DEF Reached
  <2> QED  BY <1>9, <2>2, <2>3, <2>4 DEF Effect
<1> QED  BY <1>1, <1>6, <1>7, <1>8, <1>9 DEF Calls

-----------------------------------------------------------------------------
(* Types *)

\* The first step of a program, whatever it is.
LEMMA FirstKinds ==
  ASSUME TypeOK, NEW t \in Task, ~Idle(t)
  PROVE  /\ Head(prog[t]).do = "store"
              => Head(prog[t]).set \subseteq Pin /\ Head(prog[t]).clear \subseteq Pin
         /\ Head(prog[t]).do = "assign"
              => Head(prog[t]).flag \in Flag /\ Head(prog[t]).to \in BOOLEAN
<1>1. Head(prog[t]) \in Step
  BY HeadTailProperties DEF TypeOK, Idle, Writer
<1>2. CASE Head(prog[t]) \in Small
  BY <1>2, Kinds
<1>3. CASE Head(prog[t]) \in [do : Expanding \cup {"web", "return"}]
  BY <1>3 DEF Expanding
<1> QED  BY <1>1, <1>2, <1>3 DEF Step

LEMMA SimpleTypes ==
  ASSUME TypeOK, NEW t \in Task, Simple(t)
  PROVE  /\ TypeOK' /\ ~Idle(t) /\ prog'[t] = Tail(prog[t])
         /\ \A u \in Writer \ {t} : prog'[u] = prog[u]
         /\ call' = call /\ done' = done /\ \A u \in Task : solo'[u] => solo[u]
         /\ reg'["lcd"] = reg["lcd"]
         /\ solo'[t] => was' = was /\ (port_b' = port_b \/ ~Updating)
<1>1. ~Idle(t) /\ Goes(t, <<>>) /\ calls' = calls /\ call' = call /\ done' = done
  BY DEF Simple, Load, Store, WriteIo, Talk, SetFlag, Toggle, At, history
<1>2. /\ prog' \in [Writer -> Seq(Step)] /\ prog'[t] = Tail(prog[t])
      /\ \A u \in Writer \ {t} : prog'[u] = prog[u]
  BY <1>1, GoesOn
<1>3. /\ \A u \in Task : solo'[u] => solo[u]
      /\ solo' \in [Task -> BOOLEAN] /\ was' \in Promise!State
      /\ solo'[t] => was' = was /\ (port_b' = port_b \/ ~Updating)
  <2>1. CASE Store(t)
    BY <2>1, RadioNowTypes DEF Store, TypeOK
  <2>2. CASE ~Store(t)
    BY <2>2 DEF Simple, Load, WriteIo, Talk, SetFlag, Toggle, history, ports, TypeOK
  <2> QED  BY <2>1, <2>2
<1>4. t \in Writer /\ t # "lcd"
  BY DEF Writer, Task
<1>5. TypeOK' /\ reg'["lcd"] = reg["lcd"]
  <2>1. CASE Load(t)
    BY <1>1, <1>2, <1>3, <1>4, <2>1 DEF Load, TypeOK, Writer
  <2>2. CASE Store(t)
    <3>1. Head(prog[t]).set \subseteq Pin /\ Head(prog[t]).clear \subseteq Pin
      BY <1>1, <2>2, FirstKinds DEF Store, At
    <3>2. Stored(t, Head(prog[t])) \subseteq Pin
      BY <1>4, <3>1 DEF Stored, TypeOK
    <3> QED  BY <1>1, <1>2, <1>3, <1>4, <2>2, <3>2 DEF Store, TypeOK, Writer
  <2>3. CASE WriteIo(t)
    BY <1>1, <1>2, <1>3, <1>4, <2>3 DEF WriteIo, TypeOK, Writer
  <2>4. CASE Talk(t)
    BY <1>1, <1>2, <1>3, <2>4 DEF Talk, TypeOK, ports
  <2>5. CASE SetFlag(t)
    <3>1. Head(prog[t]).flag \in Flag /\ Head(prog[t]).to \in BOOLEAN
      BY <1>1, <2>5, FirstKinds DEF SetFlag, At
    <3> QED  BY <1>1, <1>2, <1>3, <2>5, <3>1 DEF SetFlag, TypeOK, ports
  <2>6. CASE Toggle(t)
    BY <1>1, <1>2, <1>3, <2>6 DEF Toggle, TypeOK, ports, Flag
  <2> QED  BY <2>1, <2>2, <2>3, <2>4, <2>5, <2>6 DEF Simple
<1> QED  BY <1>1, <1>2, <1>3, <1>5

\* A step that puts the program E in its place.
LEMMA ReplaceTypes ==
  ASSUME TypeOK, NEW t \in Task, ~Idle(t), NEW E \in Seq(Step), Goes(t, E),
         UNCHANGED <<ports, flag, calls, call, done>>,
         prev' \in [Task -> BOOLEAN], solo' \in [Task -> BOOLEAN], was' \in Promise!State
  PROVE  /\ TypeOK' /\ prog'[t] = E \o Tail(prog[t])
         /\ \A u \in Writer \ {t} : prog'[u] = prog[u]
<1>1. /\ prog' \in [Writer -> Seq(Step)] /\ prog'[t] = E \o Tail(prog[t])
      /\ \A u \in Writer \ {t} : prog'[u] = prog[u]
  BY GoesTo
<1>2. TypeOK'
  BY <1>1 DEF TypeOK, ports
<1> QED  BY <1>1, <1>2

-----------------------------------------------------------------------------
(* The invariant is one *)

LEMMA InitIInv == Init => IInv
<1> SUFFICES ASSUME Init PROVE IInv
  OBVIOUS
<1>1. TypeOK
  <2>1. /\ port_b \subseteq Pin /\ chip \subseteq Pin /\ calls \in 0 .. MaxCalls
        /\ reg \in [Writer -> SUBSET Pin] /\ prev \in [Task -> BOOLEAN]
        /\ call \in [Task -> Calls \cup {"none"}] /\ solo \in [Task -> BOOLEAN]
        /\ done \in Calls \cup {"none"} /\ prog \in [Writer -> Seq(Step)]
    BY AudioPathAssumption DEF Init, Pin
  <2>2. flag \in [Flag -> BOOLEAN]
    BY DEF Init
  <2>3. was \in Promise!State
    BY DEF Init, Unasked, Promise!State, Promise!Source, Promise!Sound
  <2> QED  BY <2>1, <2>2, <2>3 DEF TypeOK
<1>2. SoloCalls /\ SoloDone /\ LcdProg /\ LcdFresh
  BY DEF Init, SoloCalls, SoloDone, LcdProg, LcdFresh, Writer
<1> QED  BY <1>1, <1>2 DEF IInv

\* While a task is in a call, no call is done and no other task is solo.
LEMMA Busy ==
  ASSUME IInv, NEW t \in Task, ~Idle(t)
  PROVE  done = "none" /\ \A u \in Task \ {t} : ~solo[u]
BY DEF IInv, SoloCalls, SoloDone

LEMMA SoloCourse ==
  ASSUME IInv, NEW t \in Task, solo[t]
  PROVE  /\ call[t] \in Calls /\ was \in Promise!State
         /\ OnCourse(t, call[t], was, prog[t]) /\ \A u \in Task \ {t} : Idle(u)
BY DEF IInv, SoloCalls, TypeOK

\* What the display's task has read stays up to date as long as nobody stores.
LEMMA FreshKept ==
  ASSUME prog'["lcd"] = prog["lcd"], reg'["lcd"] = reg["lcd"], port_b' = port_b \/ ~Updating
  PROVE  Fresh => Fresh'
BY DEF Fresh, Updating, Idle

\* A step of a call keeps the invariant if it keeps a solo call on course.
LEMMA StaysOnCourse ==
  ASSUME IInv, NEW t \in Task, ~Idle(t), TypeOK',
         \A u \in Writer \ {t} : prog'[u] = prog[u], reg'["lcd"] = reg["lcd"],
         call' = call, done' = done, \A u \in Task : solo'[u] => solo[u],
         solo'[t] => port_b' = port_b \/ ~Updating,
         solo'[t] => OnCourse(t, call[t], was, prog[t])'
  PROVE  IInv'
<1>1. done' = "none" /\ \A u \in Task \ {t} : ~solo'[u]
  BY Busy
<1>2. SoloDone'
  BY <1>1 DEF SoloDone
<1>3. ASSUME NEW u \in Task, solo'[u]
      PROVE  /\ call'[u] \in Calls /\ OnCourse(u, call[u], was, prog[u])'
             /\ \A v \in Task \ {u} : Idle(v)'
  <2>1. u = t /\ solo[t]
    BY <1>1, <1>3
  <2>2. call[t] \in Calls /\ \A v \in Task \ {t} : Idle(v)
    BY <2>1, SoloCourse
  <2>3. \A v \in Task \ {t} : Idle(v)'
    BY <2>2 DEF Idle, Writer
  <2> QED  BY <1>3, <2>1, <2>2, <2>3
<1>4. SoloCalls'
  BY <1>3 DEF SoloCalls
<1>5. prog'["lcd"] = prog["lcd"]
  BY DEF Writer, Task
<1>6. LcdProg'
  BY <1>5 DEF IInv, LcdProg, LcdStore
<1>7. LcdFresh'
  <2> SUFFICES ASSUME NEW u \in Task, solo'[u] PROVE Fresh'
    BY <1>1 DEF LcdFresh
  <2>1. u = t /\ solo[u]
    BY <1>1
  <2>2. Fresh
    BY <2>1 DEF IInv, LcdFresh
  <2> QED  BY <1>5, <2>1, <2>2, FreshKept
<1> QED  BY <1>2, <1>4, <1>6, <1>7 DEF IInv

\* What is on course in a state is so in the next, if the facts are the same.
LEMMA CourseKept ==
  ASSUME NEW t, NEW c, NEW w, NEW P, OnCourse(t, c, w, P),
         ports' = ports, flag' = flag, prev' = prev, prog'[t] = P, call'[t] = c, was' = w
  PROVE  OnCourse(t, call[t], was, prog[t])'
<1>1. Hi(t)' = Hi(t) /\ Lo(t)' = Lo(t)
  BY SameFacts
<1>2. PICK F, K, h, l : /\ P = F \o K /\ K \in Seq(Step)
                        /\ Leads(Hi(t), Lo(t), F, h, l) /\ Rest(c, w, K, h, l)
  BY DEF OnCourse
<1> QED  BY <1>1, <1>2 DEF OnCourse

LEMMA CallKeeps ==
  ASSUME IInv, NEW t \in Task, Call(t)
  PROVE  IInv'
<1> USE DEF Calls
<1>1. PICK c \in CallsOf(t) : /\ prog' = [prog EXCEPT ![t] = Do(c) \o Do("return")]
                              /\ call' = [call EXCEPT ![t] = c]
  BY DEF Call
<1>2. c \in Calls /\ c \in Expanding \cup {"web"}
  BY <1>1, AudioPathAssumption DEF CallsOf, Expanding
<1>3. Do(c) \o Do("return") \in Seq(Step)
  BY <1>2, FirstOf, Ends
<1> DEFINE alone == Fresh /\ \A v \in Task \ {t} : Idle(v)
<1>4. /\ done' = "none" /\ calls' = calls + 1 /\ calls < MaxCalls
      /\ UNCHANGED <<ports, flag, prev>>
      /\ solo' = [u \in Task |-> u = t /\ alone]
      /\ was' = IF alone THEN RadioNow ELSE Unasked
  BY DEF Call
<1>5. TypeOK /\ prog'[t] = Do(c) \o Do("return") /\ call'[t] = c
      /\ \A u \in Writer \ {t} : prog'[u] = prog[u]
  BY <1>1 DEF IInv, TypeOK, Writer
<1>6. TypeOK'
  BY <1>1, <1>2, <1>3, <1>4, <1>5, AudioPathAssumption, RadioNowTypes DEF TypeOK, ports, Writer
<1>7. SoloDone'
  BY <1>4 DEF SoloDone
<1>8. ASSUME alone
      PROVE  OnCourse(t, call[t], was, prog[t])'
  <2>1. Completes(c, RadioNow, c, Do("return"), Hi(t), Lo(t))
    <3>1. c \in Becomes(c, RadioNow)
      BY DEF Becomes
    <3> QED  BY <1>5, <3>1, IsNow DEF Completes
  <2>2. OnCourse(t, c, RadioNow, Do(c) \o Do("return"))
    BY <1>2, <2>1, GoOnAtOnce, Ends
  <2>3. was' = RadioNow
    BY <1>4, <1>8
  <2> QED  BY <1>4, <1>5, <2>2, <2>3, CourseKept
<1>9. ASSUME NEW u \in Task, solo'[u]
      PROVE  /\ call'[u] \in Calls /\ OnCourse(u, call[u], was, prog[u])'
             /\ \A v \in Task \ {u} : Idle(v)'
  <2>1. u = t /\ alone
    BY <1>4, <1>9
  <2>2. \A v \in Task \ {t} : Idle(v)'
    BY <1>5, <2>1 DEF Idle, Writer
  <2> QED  BY <1>2, <1>5, <1>8, <2>1, <2>2
<1>10. SoloCalls'
  BY <1>9 DEF SoloCalls
<1>11. prog'["lcd"] = prog["lcd"]
  BY <1>5 DEF Writer, Task
<1>12. LcdProg'
  BY <1>11 DEF IInv, LcdProg, LcdStore
<1>13. LcdFresh'
  <2>1. (\E u \in Task : solo'[u]) => Fresh
    BY <1>4
  <2>2. Fresh => Fresh'
    BY <1>4, <1>11, FreshKept DEF ports
  <2> QED  BY <1>4, <2>1, <2>2 DEF LcdFresh
<1> QED  BY <1>6, <1>7, <1>10, <1>12, <1>13 DEF IInv

LEMMA ReturnKeeps ==
  ASSUME IInv, NEW t \in Task, Return(t)
  PROVE  IInv'
<1>1. ~Idle(t) /\ Head(prog[t]).do = "return" /\ Goes(t, <<>>) /\ TypeOK
  BY DEF Return, At, IInv
<1>2. /\ prog' \in [Writer -> Seq(Step)] /\ prog'[t] = Tail(prog[t])
      /\ \A u \in Writer \ {t} : prog'[u] = prog[u]
  BY <1>1, GoesOn
<1>3. /\ was' = Unasked /\ call' = [call EXCEPT ![t] = "none"] /\ solo' = [solo EXCEPT ![t] = FALSE]
      /\ prev' = [prev EXCEPT ![t] = FALSE]
      /\ done' = IF solo[t] THEN call[t] ELSE "none"
      /\ UNCHANGED <<port_b, chip, reg, flag, calls>>
  BY DEF Return, ports
<1>4. TypeOK'
  BY <1>1, <1>2, <1>3, RadioNowTypes DEF TypeOK
<1>5. SoloCalls'
  <2>1. \A u \in Task : ~solo'[u]
    BY <1>1, <1>3, Busy DEF TypeOK
  <2> QED  BY <2>1 DEF SoloCalls
<1>6. prog'["lcd"] = prog["lcd"]
  BY <1>2 DEF Writer, Task
<1>7. LcdProg'
  BY <1>6 DEF IInv, LcdProg, LcdStore
<1>8. LcdFresh'
  <2>1. done' # "none" \/ (\E u \in Task : solo'[u]) => Fresh
    BY <1>1, <1>3, Busy DEF TypeOK, IInv, LcdFresh
  <2>2. Fresh => Fresh'
    BY <1>3, <1>6, FreshKept
  <2> QED  BY <2>1, <2>2 DEF LcdFresh
<1>9. CASE solo[t]
  <2>1. /\ call[t] \in Calls /\ was \in Promise!State
        /\ OnCourse(t, call[t], was, prog[t]) /\ \A u \in Task \ {t} : Idle(u)
    BY <1>9, SoloCourse
  <2>2. Returning(t, call[t], was)
    BY <1>1, <2>1, Situation, FirstWorking, FirstComesTo DEF Plain, Expanding
  <2>3. Effect(call[t])
    BY <1>1, <2>1, <2>2, ReachedEffect DEF Returning
  <2>4. \A u \in Task : Idle(u)'
    BY <1>2, <2>1, <2>2, FirstReturning DEF Idle, Writer
  <2>5. done' = call[t]
    BY <1>3, <1>9
  <2>6. Effect(done)'
    BY <1>3, <2>3, <2>5 DEF Effect, Sent, action_is_running, IsFm, Plays, Silent
  <2>7. SoloDone'
    BY <2>4, <2>6 DEF SoloDone
  <2> QED  BY <1>4, <1>5, <1>7, <1>8, <2>7 DEF IInv
<1>10. CASE ~solo[t]
  <2>1. SoloDone'
    BY <1>3, <1>10 DEF SoloDone
  <2> QED  BY <1>4, <1>5, <1>7, <1>8, <2>1 DEF IInv
<1> QED  BY <1>9, <1>10

\* A small step of a call, or one that is replaced by what it stands for, in the
\* middle of small steps.
LEMMA WorkOn ==
  ASSUME TypeOK, NEW t \in Task, NEW c, NEW w, Working(t, c, w),
         Simple(t) \/ i2s_redirector_stop(t) \/ i2s_redirector_restore(t),
         call'[t] = c, was' = w
  PROVE  OnCourse(t, call[t], was, prog[t])'
<1>1. PICK F, K, h, l :
        /\ prog[t] = F \o K /\ K \in Seq(Step) /\ F # <<>>
        /\ Leads(Hi(t), Lo(t), F, h, l) /\ Rest(c, w, K, h, l)
  BY DEF Working
<1>2. PICK G : prog'[t] = G \o K /\ Leads(Hi(t)', Lo(t)', G, h, l)
  BY <1>1, Execute
<1> QED  BY <1>1, <1>2 DEF OnCourse

LEMMA SimpleKeeps ==
  ASSUME IInv, NEW t \in Task, Simple(t)
  PROVE  IInv'
<1>1. TypeOK
  BY DEF IInv
<1>2. /\ TypeOK' /\ ~Idle(t) /\ \A u \in Writer \ {t} : prog'[u] = prog[u]
      /\ call' = call /\ done' = done /\ \A u \in Task : solo'[u] => solo[u]
      /\ reg'["lcd"] = reg["lcd"]
      /\ solo'[t] => was' = was /\ (port_b' = port_b \/ ~Updating)
  BY <1>1, SimpleTypes
<1>3. ASSUME solo'[t]
      PROVE  OnCourse(t, call[t], was, prog[t])'
  <2>1. OnCourse(t, call[t], was, prog[t])
    BY <1>2, <1>3, SoloCourse
  <2>2. Head(prog[t]).do \in {"load", "store", "write", "merus", "rda5807", "assign", "toggle"}
    BY DEF Simple, Load, Store, WriteIo, Talk, SetFlag, Toggle, At
  <2>3. Working(t, call[t], was)
    BY <2>1, <2>2, Situation, FirstReturning, FirstComesTo DEF Expanding
  <2> QED  BY <1>1, <1>2, <1>3, <2>3, WorkOn
<1> QED  BY <1>2, <1>3, StaysOnCourse

LEMMA StopKeeps ==
  ASSUME IInv, NEW t \in Task, i2s_redirector_stop(t)
  PROVE  IInv'
<1>1. /\ TypeOK /\ ~Idle(t) /\ Head(prog[t]).do = "redirector_stop"
      /\ Goes(t, Expansion("redirector_stop"))
      /\ UNCHANGED <<ports, flag, calls, call, solo, done, was>>
      /\ prev' = [prev EXCEPT ![t] = flag["is_running"]]
  BY DEF IInv, i2s_redirector_stop, At, history
<1>2. Expansion("redirector_stop") \in Seq(Step)
  BY <1>1, RestoredSmall, SmallSteps
<1>3. prev' \in [Task -> BOOLEAN] /\ solo' \in [Task -> BOOLEAN] /\ was' \in Promise!State
  BY <1>1 DEF TypeOK, Flag
<1>4. TypeOK' /\ \A u \in Writer \ {t} : prog'[u] = prog[u]
  BY <1>1, <1>2, <1>3, ReplaceTypes
<1>5. ASSUME solo'[t]
      PROVE  OnCourse(t, call[t], was, prog[t])'
  <2>1. OnCourse(t, call[t], was, prog[t])
    BY <1>1, <1>5, SoloCourse
  <2>2. Working(t, call[t], was)
    BY <1>1, <2>1, Situation, FirstReturning, FirstComesTo DEF Expanding
  <2> QED  BY <1>1, <2>2, WorkOn
<1> QED  BY <1>1, <1>4, <1>5, StaysOnCourse DEF ports

LEMMA RestoreKeeps ==
  ASSUME IInv, NEW t \in Task, i2s_redirector_restore(t)
  PROVE  IInv'
<1>1. /\ TypeOK /\ ~Idle(t) /\ Head(prog[t]).do = "redirector_restore"
      /\ Goes(t, Restored(t)) /\ UNCHANGED <<ports, flag, prev, calls, call, solo, done, was>>
  BY DEF IInv, i2s_redirector_restore, At, history
<1>2. Restored(t) \in Seq(Step)
  BY <1>1, RestoredSmall, SmallSteps
<1>3. prev' \in [Task -> BOOLEAN] /\ solo' \in [Task -> BOOLEAN] /\ was' \in Promise!State
  BY <1>1 DEF TypeOK
<1>4. /\ TypeOK' /\ prog'[t] = Restored(t) \o Tail(prog[t])
      /\ \A u \in Writer \ {t} : prog'[u] = prog[u]
  BY <1>1, <1>2, <1>3, ReplaceTypes
<1>5. ASSUME solo'[t]
      PROVE  OnCourse(t, call[t], was, prog[t])'
  <2>1. call[t] \in Calls /\ was \in Promise!State /\ OnCourse(t, call[t], was, prog[t])
    BY <1>1, <1>5, SoloCourse
  <2>2. CASE Working(t, call[t], was)
    BY <1>1, <2>2, WorkOn
  <2>3. ASSUME NEW b, NEW R, ComesTo(t, call[t], was, b, R)
        PROVE  OnCourse(t, call[t], was, prog[t])'
    <3>1. b = "redirector_restore" /\ Tail(prog[t]) = R
      BY <1>1, <2>3, FirstComesTo
    <3>2. PICK h, l :
            /\ R \in Seq(Step) /\ h \subseteq Hi(t) /\ l \subseteq Lo(t)
            /\ Completes(call[t], was, "redirector_restore", R, h, l)
      BY <2>3, <3>1 DEF ComesTo
    <3>3. OnCourse(t, call[t], was, Restored(t) \o R)
      BY <1>1, <2>1, <3>2, RestoreOnCourse
    <3> QED  BY <1>1, <1>4, <3>1, <3>3, CourseKept
  <2> QED  BY <1>1, <2>1, <2>2, <2>3, Situation, FirstReturning
<1> QED  BY <1>1, <1>4, <1>5, StaysOnCourse DEF ports

LEMMA ExpandKeeps ==
  ASSUME IInv, NEW t \in Task, Expand(t)
  PROVE  IInv'
<1>1. PICK what \in Expanding : At(t, what) /\ Goes(t, Expansion(what))
  BY DEF Expand
<1>2. /\ TypeOK /\ ~Idle(t) /\ Head(prog[t]).do = what
      /\ UNCHANGED <<ports, flag, prev, calls, call, solo, done, was>>
  BY <1>1 DEF IInv, Expand, At, history
<1>3. Expansion(what) \in Seq(Step)
  BY ExpansionSteps
<1>4. prev' \in [Task -> BOOLEAN] /\ solo' \in [Task -> BOOLEAN] /\ was' \in Promise!State
  BY <1>2 DEF TypeOK
<1>5. /\ TypeOK' /\ prog'[t] = Expansion(what) \o Tail(prog[t])
      /\ \A u \in Writer \ {t} : prog'[u] = prog[u]
  BY <1>1, <1>2, <1>3, <1>4, ReplaceTypes
<1>6. ASSUME solo'[t]
      PROVE  OnCourse(t, call[t], was, prog[t])'
  <2>1. call[t] \in Calls /\ was \in Promise!State /\ OnCourse(t, call[t], was, prog[t])
    BY <1>2, <1>6, SoloCourse
  <2>2. PICK b, R : ComesTo(t, call[t], was, b, R)
    <3>1. what \notin Plain \cup {"store", "assign"} /\ what # "return"
      BY DEF Plain, Expanding
    <3> QED  BY <1>2, <2>1, <3>1, Situation, FirstWorking, FirstReturning
  <2>3. b = what /\ Tail(prog[t]) = R
    BY <1>2, <2>2, FirstComesTo
  <2>4. PICK h, l : /\ R \in Seq(Step) /\ h \subseteq Hi(t) /\ l \subseteq Lo(t)
                    /\ Completes(call[t], was, what, R, h, l)
    BY <2>2, <2>3 DEF ComesTo
  <2>5. OnCourse(t, call[t], was, Expansion(what) \o R)
    BY <1>2, <2>1, <2>4, ExpansionOnCourse
  <2> QED  BY <1>2, <1>5, <2>3, <2>5, CourseKept
<1> QED  BY <1>2, <1>5, <1>6, StaysOnCourse DEF ports

LEMMA WebstationSetKeeps ==
  ASSUME IInv, NEW t \in Task, WebstationSet(t)
  PROVE  IInv'
<1>1. /\ TypeOK /\ ~Idle(t) /\ Head(prog[t]).do = "web"
      /\ UNCHANGED <<ports, flag, prev, calls, call, done>>
  BY DEF IInv, WebstationSet, At
<1>2. prev' \in [Task -> BOOLEAN]
  BY <1>1 DEF TypeOK
<1>3. ASSUME NEW resolved \in BOOLEAN, Goes(t, action_webstation_set(resolved)),
             UNCHANGED <<solo, was>>
      PROVE  IInv'
  <2>1. /\ action_webstation_set(resolved) \in Seq(Step) /\ solo' \in [Task -> BOOLEAN]
        /\ was' \in Promise!State
    BY <1>1, <1>3, Programs, SmallSteps DEF TypeOK
  <2>2. /\ TypeOK' /\ prog'[t] = action_webstation_set(resolved) \o Tail(prog[t])
        /\ \A u \in Writer \ {t} : prog'[u] = prog[u]
    BY <1>1, <1>2, <1>3, <2>1, ReplaceTypes
  <2>3. ASSUME solo'[t]
        PROVE  OnCourse(t, call[t], was, prog[t])'
    <3>1. call[t] \in Calls /\ was \in Promise!State /\ OnCourse(t, call[t], was, prog[t])
      BY <1>3, <2>3, SoloCourse
    <3>2. PICK b, R : ComesTo(t, call[t], was, b, R)
      BY <1>1, <3>1, Situation, FirstWorking, FirstReturning DEF Plain
    <3>3. b = "web" /\ Tail(prog[t]) = R
      BY <1>1, <3>2, FirstComesTo
    <3>4. PICK h, l : /\ R \in Seq(Step) /\ h \subseteq Hi(t) /\ l \subseteq Lo(t)
                      /\ Completes(call[t], was, "web", R, h, l)
      BY <3>2, <3>3 DEF ComesTo
    <3>5. OnCourse(t, call[t], was, (IF "web" = "web" THEN action_webstation_set(resolved)
                                                      ELSE action_fmstation_set) \o R)
      BY <3>1, <3>4, PlayOnCourse
    <3> QED  BY <1>1, <1>3, <2>2, <3>3, <3>5, CourseKept
  <2> QED  BY <1>1, <1>3, <2>2, <2>3, StaysOnCourse DEF ports
<1>4. CASE Goes(t, <<>>) /\ solo' = [solo EXCEPT ![t] = FALSE] /\ was' = Unasked
  <2>1. <<>> \in Seq(Step) /\ solo' \in [Task -> BOOLEAN] /\ was' \in Promise!State
    BY <1>1, <1>4, RadioNowTypes DEF TypeOK
  <2>2. TypeOK' /\ \A u \in Writer \ {t} : prog'[u] = prog[u]
    BY <1>1, <1>2, <1>4, <2>1, ReplaceTypes
  <2>3. ~solo'[t] /\ \A u \in Task : solo'[u] => solo[u]
    BY <1>1, <1>4 DEF TypeOK
  <2> QED  BY <1>1, <2>2, <2>3, StaysOnCourse DEF ports
<1> QED  BY <1>3, <1>4 DEF WebstationSet

\* The program of the display's task: the store, then the write.
LEMMA LcdPrograms ==
  ASSUME NEW P \in LcdStore
  PROVE  \E a \in Stores : /\ a.set \subseteq {LCD} /\ a.clear \subseteq {LCD}
                           /\ P = <<a>> \o Do("write") /\ P \in Seq(Step)
                           /\ P # <<>> /\ Head(P) = a /\ Tail(P) = Do("write")
<1>1. PICK on \in BOOLEAN : P = Tail(Drive(LCD, on))
  BY DEF LcdStore
<1> DEFINE set   == IF on THEN {LCD} ELSE {}
           clear == IF on THEN {} ELSE {LCD}
           a == [do |-> "store", set |-> set, clear |-> clear]
           load == [do |-> "load"]
           write == [do |-> "write"]
<1>2. /\ a \in Stores /\ a \in Step /\ load \in Step /\ write \in Step
      /\ a.set \subseteq {LCD} /\ a.clear \subseteq {LCD}
  BY Drives DEF Stores, Small, Step, Plain
<1>3. Drive(LCD, on) = (<<load>> \o <<a>>) \o <<write>>
  BY DEF Drive, Update, Do
<1>4. Do("write") = <<write>>
  BY DEF Do
<1> HIDE DEF a, load, write
<1>5. Tail((<<load>> \o <<a>>) \o <<write>>) = <<a>> \o <<write>>
  BY <1>2
<1>6. <<write>> \in Seq(Step) /\ a \in Step
  BY <1>2
<1>7. /\ <<a>> \o <<write>> \in Seq(Step) /\ <<a>> \o <<write>> # <<>>
      /\ Head(<<a>> \o <<write>>) = a /\ Tail(<<a>> \o <<write>>) = <<write>>
  BY <1>6, FirstOfAll
<1> QED  BY <1>1, <1>2, <1>3, <1>4, <1>5, <1>7

\* A step of the display's task.
LcdStep == LcdUpdate \/ Store("lcd") \/ WriteIo("lcd")

LEMMA LcdTypes ==
  ASSUME TypeOK, LcdProg, LcdStep
  PROVE  /\ TypeOK' /\ LcdProg' /\ Fresh' /\ UNCHANGED <<flag, prev, call, solo, done, was>>
         /\ \A u \in Task : prog'[u] = prog[u] /\ reg'[u] = reg[u]
         /\ Fresh => /\ port_b' \ {LCD} = port_b \ {LCD}
                     /\ chip' \ {LCD} \in {chip \ {LCD}, port_b \ {LCD}}
<1>1. /\ "lcd" \in Writer /\ "lcd" \notin Task /\ Task \subseteq Writer
      /\ prog \in [Writer -> Seq(Step)] /\ reg \in [Writer -> SUBSET Pin]
      /\ port_b \subseteq Pin /\ chip \subseteq Pin
  BY DEF Writer, Task, TypeOK
<1>2. CASE LcdUpdate
  <2>1. PICK P \in LcdStore : prog' = [prog EXCEPT !["lcd"] = P]
    BY <1>2 DEF LcdUpdate, LcdStore
  <2>2. P \in Seq(Step)
    BY <2>1, LcdPrograms
  <2>3. /\ prog' \in [Writer -> Seq(Step)] /\ prog'["lcd"] \in LcdStore
        /\ \A u \in Task : prog'[u] = prog[u]
    BY <1>1, <2>1, <2>2
  <2>4. /\ reg' \in [Writer -> SUBSET Pin] /\ reg'["lcd"] = port_b /\ calls' \in 0 .. MaxCalls
        /\ port_b' = port_b /\ chip' = chip /\ \A u \in Task : reg'[u] = reg[u]
        /\ UNCHANGED <<flag, prev, call, solo, done, was>>
    BY <1>1, <1>2, AudioPathAssumption DEF LcdUpdate, TypeOK
  <2>5. TypeOK' /\ LcdProg' /\ Fresh'
    BY <2>3, <2>4 DEF TypeOK, LcdProg, LcdStore, Fresh
  <2> QED  BY <2>3, <2>4, <2>5
<1>3. CASE Store("lcd")
  <2>1. /\ ~Idle("lcd") /\ Head(prog["lcd"]).do = "store" /\ Goes("lcd", <<>>)
        /\ port_b' = Stored("lcd", Head(prog["lcd"]))
        /\ reg' = [reg EXCEPT !["lcd"] = port_b']
        /\ UNCHANGED <<chip, flag, prev, calls, call, solo, done, was>>
    BY <1>1, <1>3 DEF Store, At
  <2>2. prog["lcd"] \in LcdStore
    <3>1. Do("write") # <<>> /\ Head(Do("write")).do = "write"
      BY DEF Do
    <3> QED  BY <2>1, <3>1 DEF LcdProg, Idle
  <2>3. PICK a \in Stores : /\ a.set \subseteq {LCD} /\ a.clear \subseteq {LCD}
                            /\ Head(prog["lcd"]) = a /\ Tail(prog["lcd"]) = Do("write")
    BY <2>2, LcdPrograms
  <2>4. Do("write") \in Seq(Step) /\ <<>> \o Do("write") = Do("write")
    BY OneStep, ConcatEmptySeq DEF Plain
  <2>5. prog' = [prog EXCEPT !["lcd"] = Do("write")]
    BY <2>1, <2>3, <2>4 DEF Goes
  <2>6. /\ prog' \in [Writer -> Seq(Step)] /\ prog'["lcd"] = Do("write")
        /\ \A u \in Task : prog'[u] = prog[u]
    BY <1>1, <2>4, <2>5
  <2>7. /\ port_b' = (reg["lcd"] \ a.clear) \cup a.set /\ port_b' \subseteq Pin
        /\ port_b' \ {LCD} = reg["lcd"] \ {LCD}
    BY <1>1, <2>1, <2>3, Drives DEF Stored
  <2>8. /\ reg' \in [Writer -> SUBSET Pin] /\ reg'["lcd"] = port_b'
        /\ \A u \in Task : reg'[u] = reg[u]
    BY <1>1, <2>1, <2>7
  <2>9. TypeOK' /\ LcdProg' /\ Fresh'
    BY <2>1, <2>6, <2>7, <2>8 DEF TypeOK, LcdProg, Fresh
  <2> QED  BY <2>1, <2>6, <2>7, <2>8, <2>9 DEF Fresh, Updating
<1>4. CASE WriteIo("lcd")
  <2>1. /\ ~Idle("lcd") /\ Head(prog["lcd"]).do = "write" /\ Goes("lcd", <<>>)
        /\ chip' = reg["lcd"] /\ reg' = [reg EXCEPT !["lcd"] = {}]
        /\ UNCHANGED <<port_b, flag, prev, calls, call, solo, done, was>>
    BY <1>4 DEF WriteIo, At, history
  <2>2. prog["lcd"] = Do("write")
    <3>1. \A P \in LcdStore : Head(P).do = "store"
      BY LcdPrograms DEF Stores
    <3> QED  BY <2>1, <3>1 DEF LcdProg, Idle
  <2>3. prog' = [prog EXCEPT !["lcd"] = <<>>]
    BY <2>1, <2>2 DEF Goes, Do
  <2>4. /\ prog' \in [Writer -> Seq(Step)] /\ prog'["lcd"] = <<>>
        /\ \A u \in Task : prog'[u] = prog[u]
    BY <1>1, <2>3
  <2>5. /\ reg' \in [Writer -> SUBSET Pin] /\ chip' \subseteq Pin
        /\ \A u \in Task : reg'[u] = reg[u]
    BY <1>1, <2>1
  <2>6. TypeOK' /\ LcdProg' /\ Fresh'
    BY <2>1, <2>4, <2>5 DEF TypeOK, LcdProg, Fresh, Updating, Idle
  <2> QED  BY <2>1, <2>4, <2>5, <2>6 DEF Fresh, Updating
<1> QED  BY <1>2, <1>3, <1>4 DEF LcdStep

\* It takes no fact from a call.
LEMMA LcdFacts ==
  ASSUME NEW t \in Task, Fresh, UNCHANGED <<flag, prev>>, reg'[t] = reg[t],
         port_b' \ {LCD} = port_b \ {LCD},
         chip' \ {LCD} \in {chip \ {LCD}, port_b \ {LCD}}
  PROVE  Hi(t) \subseteq Hi(t)' /\ Lo(t) \subseteq Lo(t)'
<1>1. \A x \in Pin \ {LCD} : x \in port_b' <=> x \in port_b
  OBVIOUS
<1>2. (Sent => Sent') /\ (Ready(t)' <=> Ready(t))
  BY DEF Sent, Ready
<1> QED  BY <1>1, <1>2 DEF Hi, Lo

\* Nor the sound.
LEMMA SameSound ==
  ASSUME flag' = flag, chip' \ {LCD} = chip \ {LCD}
  PROVE  Plays(I2S_0)' = Plays(I2S_0) /\ Plays(I2S_1)' = Plays(I2S_1) /\ Silent' = Silent
<1>1. \A x \in {EN, MUTE, MERUS_CS, I2S_0, I2S_1} : x \in chip' <=> x \in chip
  BY DEF EN, MUTE, MERUS_CS, I2S_0, I2S_1, LCD
<1>2. /\ chip' \cap {EN, MERUS_CS} = chip \cap {EN, MERUS_CS}
      /\ chip' \cap {I2S_0, I2S_1} = chip \cap {I2S_0, I2S_1}
      /\ chip' \cap {MUTE, MERUS_CS} = chip \cap {MUTE, MERUS_CS}
  BY <1>1
<1> QED  BY <1>1, <1>2 DEF Plays, Silent

LEMMA LcdKeeps ==
  ASSUME IInv, LcdStep
  PROVE  IInv'
<1>1. /\ TypeOK' /\ LcdProg' /\ Fresh' /\ UNCHANGED <<flag, prev, call, solo, done, was>>
      /\ \A u \in Task : prog'[u] = prog[u] /\ reg'[u] = reg[u]
      /\ Fresh => /\ port_b' \ {LCD} = port_b \ {LCD}
                  /\ chip' \ {LCD} \in {chip \ {LCD}, port_b \ {LCD}}
  BY LcdTypes DEF IInv
<1>2. ASSUME NEW t \in Task, solo'[t]
      PROVE  /\ call'[t] \in Calls /\ OnCourse(t, call[t], was, prog[t])'
             /\ \A u \in Task \ {t} : Idle(u)'
  <2>1. /\ call[t] \in Calls /\ OnCourse(t, call[t], was, prog[t])
        /\ \A u \in Task \ {t} : Idle(u)
    BY <1>1, <1>2, SoloCourse
  <2>2. Fresh
    BY <1>1, <1>2 DEF IInv, LcdFresh
  <2>3. Hi(t) \subseteq Hi(t)' /\ Lo(t) \subseteq Lo(t)'
    BY <1>1, <2>2, LcdFacts
  <2>4. PICK F, K, h, l :
          /\ prog[t] = F \o K /\ K \in Seq(Step)
          /\ Leads(Hi(t), Lo(t), F, h, l) /\ Rest(call[t], was, K, h, l)
    BY <2>1 DEF OnCourse
  <2>5. Leads(Hi(t)', Lo(t)', F, h, l)
    BY <2>3, <2>4, Weaken
  <2>6. OnCourse(t, call[t], was, prog[t])'
    BY <1>1, <2>4, <2>5 DEF OnCourse
  <2> QED  BY <1>1, <2>1, <2>6 DEF Idle
<1>3. SoloCalls'
  BY <1>2 DEF SoloCalls
<1>4. SoloDone'
  <2> SUFFICES ASSUME done' # "none" PROVE Effect(done)' /\ \A t \in Task : Idle(t)'
    BY DEF SoloDone
  <2>1. Effect(done) /\ (\A t \in Task : Idle(t)) /\ Fresh
    BY <1>1 DEF IInv, SoloDone, LcdFresh
  <2>2. chip' \ {LCD} = chip \ {LCD} /\ Sent'
    BY <1>1, <2>1 DEF Effect, Sent
  <2>3. Effect(done)'
    BY <1>1, <2>1, <2>2, SameSound DEF Effect, action_is_running, IsFm
  <2> QED  BY <1>1, <2>1, <2>3 DEF Idle
<1> QED  BY <1>1, <1>3, <1>4 DEF IInv, LcdFresh

LEMMA NextIInv == IInv /\ [Next]_vars => IInv'
<1> SUFFICES ASSUME IInv, [Next]_vars PROVE IInv'
  OBVIOUS
<1>1. CASE UNCHANGED vars
  <2>1. TypeOK'
    BY <1>1 DEF IInv, TypeOK, vars
  <2>2. SoloDone'
    BY <1>1 DEF IInv, SoloDone, Effect, Sent, action_is_running, IsFm, Plays, Silent, Idle, vars
  <2>3. ASSUME NEW t \in Task, solo'[t]
        PROVE  /\ call'[t] \in Calls /\ OnCourse(t, call[t], was, prog[t])'
               /\ \A u \in Task \ {t} : Idle(u)'
    <3>1. call[t] \in Calls /\ OnCourse(t, call[t], was, prog[t]) /\ \A u \in Task \ {t} : Idle(u)
      BY <1>1, <2>3, SoloCourse DEF vars
    <3>2. OnCourse(t, call[t], was, prog[t])'
      BY <1>1, <3>1, CourseKept DEF vars, ports
    <3> QED  BY <1>1, <3>1, <3>2 DEF Idle, vars
  <2>4. SoloCalls'
    BY <2>3 DEF SoloCalls
  <2>5. LcdProg' /\ LcdFresh'
    BY <1>1 DEF IInv, LcdProg, LcdStore, LcdFresh, Fresh, Updating, Idle, vars
  <2> QED  BY <2>1, <2>2, <2>4, <2>5 DEF IInv
<1>2. ASSUME NEW t \in Task,
             \/ Call(t) \/ Return(t) \/ Expand(t) \/ WebstationSet(t) \/ Simple(t)
             \/ i2s_redirector_stop(t) \/ i2s_redirector_restore(t)
      PROVE  IInv'
  BY <1>2, CallKeeps, ReturnKeeps, ExpandKeeps, WebstationSetKeeps, SimpleKeeps, StopKeeps,
     RestoreKeeps
<1>3. CASE LcdStep
  BY <1>3, LcdKeeps
<1> QED  BY <1>1, <1>2, <1>3 DEF Next, Simple, LcdStep, Writer

LEMMA Invariance == Spec => []IInv
BY InitIInv, NextIInv, PTL DEF Spec

-----------------------------------------------------------------------------
(* The theorems *)

(***************************************************************************)
(* Whatever the tasks call and however their steps and the display's updates   *)
(* interleave: port_b, the chip and the copies hold only pins of port B, and  *)
(* a program holds only steps that some function of the files takes.         *)
(***************************************************************************)
THEOREM Typing == Spec => []TypeOK
<1>1. IInv => TypeOK
  BY DEF IInv
<1> QED  BY <1>1, Invariance, PTL

(***************************************************************************)
(* A call that met no other one takes effect when it returns, whatever other   *)
(* calls, overlapping or not, have left in port_b, in the chip, in the flags  *)
(* and in the redirector: the chip has what port_b says, and the radio plays  *)
(* the source its flags name or, after a stop, is silent.  A web station whose *)
(* server is not found counts as played: webclient_connect stops the session   *)
(* in the middle of the call, which then sets the amplifier up all the same.  *)
(* The display's task may drive its pin at any moment of the call but for one: *)
(* the call must not write port_b between that task's read of it (LcdUpdate)  *)
(* and its write of the chip.                                               *)
(***************************************************************************)
THEOREM SoloWorks == Spec => []SoloCallWorks
<1>1. ASSUME IInv, NEW t \in Task, solo[t], At(t, "return"), call[t] = "volume"
      PROVE  flag["is_running"] = prev[t]
  <2>1. OnCourse(t, call[t], was, prog[t]) /\ was \in Promise!State /\ TypeOK
    BY <1>1, SoloCourse DEF IInv
  <2>2. Returning(t, call[t], was)
    BY <1>1, <2>1, Situation, FirstWorking, FirstComesTo DEF Plain, Expanding, At
  <2>3. call[t] \in Calls
    BY <1>1 DEF Calls
  <2> QED  BY <1>1, <2>1, <2>2, <2>3, ReachedEffect DEF Returning
<1>2. IInv => SoloCallWorks
  <2>1. SUFFICES ASSUME IInv PROVE SoloCallWorks
    OBVIOUS
  <2>2. \A t \in Task : solo[t] => KeptRunning(t)
    BY <1>1, <2>1 DEF KeptRunning
  <2>3. done # "none" => Effect(done)
    BY <2>1 DEF IInv, SoloDone
  <2> QED  BY <2>2, <2>3 DEF SoloCallWorks, Effect
<1> QED  BY <1>2, Invariance, PTL

(***************************************************************************)
(* A call that met no other one so far writes the registers of the amplifier   *)
(* only with the amplifier selected on the chip itself, with no change of     *)
(* port_b unsent but the display's, and with the redirector stopped (merus.c:  *)
(* i2s_redirector_stop and the chip select around every write).  A write of    *)
(* the display's task takes the selection away only if that task has read     *)
(* port_b before the call's own last change of it.                           *)
(***************************************************************************)
THEOREM SoloHeard == Spec => []SoloTalkIsHeard
<1>1. ASSUME IInv, NEW t \in Task, solo[t], At(t, "merus")
      PROVE  MERUS_CS \in chip /\ ~flag["is_running"] /\ Sent
  <2>1. OnCourse(t, call[t], was, prog[t])
    BY <1>1, SoloCourse
  <2>2. Working(t, call[t], was)
    <3>1. Head(prog[t]).do = "merus"
      BY <1>1 DEF At
    <3> QED  BY <2>1, <3>1, Situation, FirstReturning, FirstComesTo DEF Expanding
  <2>3. PICK F, K, h, l :
          /\ prog[t] = F \o K /\ K \in Seq(Step) /\ F # <<>> /\ Leads(Hi(t), Lo(t), F, h, l)
    BY <2>2 DEF Working
  <2>4. F \in Seq(Small) /\ \E h1, l1 : Flow(Head(F), Hi(t), Lo(t), h1, l1)
    BY <2>3, First DEF Leads
  <2>5. Head(F).do = "merus"
    BY <1>1, <2>3, <2>4, FirstOfSmall DEF At
  <2>6. MERUS_CS \in Hi(t) /\ {"unsent", "is_running"} \subseteq Lo(t)
    BY <2>4, <2>5 DEF Flow
  <2>7. MERUS_CS \in port_b
    BY <2>6 DEF Hi, Flag, MERUS_CS
  <2>8. Sent
    BY <2>6 DEF Lo, Flag, Pin, EN, MUTE, MERUS_CS, FM_CS, I2S_0, I2S_1, LCD
  <2>9. ~flag["is_running"]
    BY <2>6 DEF Lo, Flag, Pin, EN, MUTE, MERUS_CS, FM_CS, I2S_0, I2S_1, LCD
  <2> QED  BY <2>7, <2>8, <2>9 DEF Sent, MERUS_CS, LCD
<1>2. IInv => SoloTalkIsHeard
  BY <1>1 DEF SoloTalkIsHeard
<1> QED  BY <1>2, Invariance, PTL

-----------------------------------------------------------------------------
(* The radio of Radio *)

\* What Radio sees while a call is solo, and otherwise.
Seen ==
  /\ RadioSeen \in Promise!State
  /\ \A t \in Task : solo[t] =>
       ~Idle(t) /\ Doing = call[t] /\ call[t] \in Calls /\ RadioSeen = was
  /\ (\A t \in Task : ~solo[t]) =>
       /\ RadioSeen = RadioNow
       /\ Doing = IF Fresh /\ \A t \in Task : Idle(t) THEN "nothing" ELSE "several"

LEMMA View == IInv => Seen
<1> SUFFICES ASSUME IInv PROVE Seen
  OBVIOUS
<1>1. TypeOK /\ RadioNow \in Promise!State /\ was \in Promise!State
  BY RadioNowTypes DEF IInv, TypeOK
<1>2. ASSUME NEW t \in Task, solo[t]
      PROVE  ~Idle(t) /\ call[t] \in Calls /\ \A u \in Task \ {t} : Idle(u)
  BY <1>2, SoloCourse, Situation, FirstWorking, FirstReturning, FirstComesTo
<1>3. ASSUME NEW t \in Task, solo[t]
      PROVE  ~Idle(t) /\ Doing = call[t] /\ call[t] \in Calls /\ RadioSeen = was
  <2>1. \A u \in Task : solo[u] => u = t
    BY <1>2, <1>3
  <2>2. (CHOOSE u \in Task : solo[u]) = t
    BY <1>3, <2>1
  <2>3. Alone /\ ~(\A u \in Task : Idle(u))
    BY <1>2, <1>3 DEF Alone
  <2> QED  BY <1>2, <1>3, <2>2, <2>3 DEF Doing, RadioSeen
<1>4. (\A t \in Task : ~solo[t]) =>
        /\ RadioSeen = RadioNow
        /\ Doing = IF Fresh /\ \A t \in Task : Idle(t) THEN "nothing" ELSE "several"
  BY DEF Doing, RadioSeen, Alone
<1>5. RadioSeen \in Promise!State
  BY <1>1 DEF RadioSeen
<1> QED  BY <1>3, <1>4, <1>5 DEF Seen

LEMMA InitIsUnasked == Init => Promise!Init
<1> SUFFICES ASSUME Init PROVE Promise!Init
  OBVIOUS
<1>1. Doing = "nothing" /\ RadioSeen = RadioNow
  BY DEF Init, Idle, Doing, RadioSeen, Alone, Fresh, Updating, Writer
<1>2. ~IsFm /\ flag["web"] = FALSE /\ flag["sleeping"] = TRUE
  BY DEF Init, Flag, IsFm
<1>3. Heard = "unknown"
  <2>1. EN \in chip /\ MUTE \in chip
    BY DEF Init
  <2> QED  BY <2>1 DEF Heard, Plays, Silent
<1>4. RadioNow = [source |-> "web", on |-> FALSE, asleep |-> TRUE, sound |-> "unknown"]
  <2>1. action_is_running = FALSE /\ (IF IsFm THEN "fm" ELSE "web") = "web"
    BY <1>2 DEF action_is_running
  <2> HIDE DEF action_is_running
  <2> QED  BY <1>2, <1>3, <2>1 DEF RadioNow
<1> QED  BY <1>1, <1>4 DEF Promise!Init

LEMMA NowKept ==
  ASSUME ports' = ports, flag' = flag
  PROVE  RadioNow' = RadioNow
BY DEF ports, RadioNow, action_is_running, IsFm, Heard, Sent, Plays, Silent

\* A call that begins is a beginning of Radio, or it meets another.
LEMMA CallIsPromised ==
  ASSUME IInv, Seen, Seen', NEW t \in Task, Call(t)
  PROVE  Promise!Next
<1>1. PICK c \in CallsOf(t) : /\ prog' = [prog EXCEPT ![t] = Do(c) \o Do("return")]
                              /\ call' = [call EXCEPT ![t] = c]
  BY DEF Call
<1>2. c \in Calls /\ c \in Expanding \cup {"web"}
  BY <1>1, AudioPathAssumption DEF CallsOf, Expanding, Calls
<1> DEFINE alone == Fresh /\ \A v \in Task \ {t} : Idle(v)
<1>3. /\ TypeOK /\ Idle(t) /\ UNCHANGED <<ports, flag, prev>>
      /\ solo' = [u \in Task |-> u = t /\ alone]
      /\ was' = IF alone THEN RadioNow ELSE Unasked
  BY DEF Call, IInv
<1>4. prog'[t] = Do(c) \o Do("return") /\ call'[t] = c
  BY <1>1, <1>3 DEF TypeOK, Writer
<1>5. ~Idle(t)'
  BY <1>2, <1>4, FirstOf, Ends DEF Idle
<1>6. CASE alone
  <2>1. Doing = "nothing" /\ RadioSeen = RadioNow
    <3>1. Fresh /\ \A u \in Task : Idle(u) /\ ~solo[u]
      BY <1>3, <1>6 DEF Seen
    <3> QED  BY <3>1 DEF Seen
  <2>2. Doing' = c /\ RadioSeen' = RadioNow
    <3>1. solo'[t] /\ was' = RadioNow
      BY <1>3, <1>6
    <3> QED  BY <1>4, <3>1 DEF Seen
  <2>3. Promise!Begin
    BY <1>2, <2>1, <2>2 DEF Promise!Begin, Promise!Key, Calls
  <2> QED  BY <2>3 DEF Promise!Next
<1>7. CASE ~alone
  <2>1. Doing' = "several" /\ RadioSeen' \in Promise!State
    <3>1. \A u \in Task : ~solo'[u]
      BY <1>3, <1>7
    <3> QED  BY <1>5, <3>1 DEF Seen
  <2>2. Doing \in Calls \cup {"several"}
    <3>1. CASE \E u \in Task : solo[u]
      BY <3>1 DEF Seen
    <3>2. CASE \A u \in Task : ~solo[u]
      BY <1>7, <3>2 DEF Seen
    <3> QED  BY <3>1, <3>2
  <2>3. Promise!Interfere \/ Promise!Several
    BY <2>1, <2>2 DEF Promise!Interfere, Promise!Several, Promise!Key, Calls
  <2> QED  BY <2>3 DEF Promise!Next
<1> QED  BY <1>6, <1>7

\* The return of a solo call is its end: the radio is what Radio says of it.
LEMMA ReturnIsPromised ==
  ASSUME IInv, Seen, Seen', NEW t \in Task, Return(t)
  PROVE  Promise!Next
<1>1. /\ ~Idle(t) /\ Head(prog[t]).do = "return" /\ Goes(t, <<>>) /\ TypeOK
      /\ solo' = [solo EXCEPT ![t] = FALSE] /\ UNCHANGED <<ports, flag>>
  BY DEF Return, At, IInv
<1>2. /\ prog'[t] = Tail(prog[t]) /\ \A u \in Writer \ {t} : prog'[u] = prog[u]
  BY <1>1, GoesOn
<1>3. \A u \in Task : ~solo'[u]
  BY <1>1, Busy DEF TypeOK
<1>4. CASE solo[t]
  <2>1. /\ call[t] \in Calls /\ was \in Promise!State
        /\ OnCourse(t, call[t], was, prog[t]) /\ \A u \in Task \ {t} : Idle(u)
    BY <1>4, SoloCourse
  <2>2. Returning(t, call[t], was)
    BY <1>1, <2>1, Situation, FirstWorking, FirstComesTo DEF Plain, Expanding
  <2>3. RadioNow \in Promise!After(call[t], was)
    BY <1>1, <2>1, <2>2, ReachedEffect DEF Returning
  <2>4. Fresh' /\ \A u \in Task : Idle(u)'
    <3>1. \A u \in Task : Idle(u)'
      BY <1>2, <2>1, <2>2, FirstReturning DEF Idle, Writer
    <3>2. prog'["lcd"] = prog["lcd"] /\ reg'["lcd"] = reg["lcd"] /\ port_b' = port_b
      BY <1>1, <1>2 DEF Writer, Task, ports
    <3>3. Fresh
      BY <1>4 DEF IInv, LcdFresh
    <3> QED  BY <3>1, <3>2, <3>3, FreshKept
  <2>5. Doing = call[t] /\ RadioSeen = was
    BY <1>4 DEF Seen
  <2>6. Doing' = "nothing" /\ RadioSeen' = RadioNow'
    BY <1>3, <2>4 DEF Seen
  <2>7. RadioNow' = RadioNow
    BY <1>1, NowKept
  <2>8. Promise!End
    BY <2>1, <2>3, <2>5, <2>6, <2>7 DEF Promise!End, Promise!Key, Calls
  <2> QED  BY <2>8 DEF Promise!Next
<1>5. CASE ~solo[t]
  <2>1. Doing = "several"
    <3>1. \A u \in Task : ~solo[u]
      BY <1>1, <1>5, Busy
    <3> QED  BY <1>1, <3>1 DEF Seen
  <2>2. Doing' \in {"several", "nothing"} /\ RadioSeen' \in Promise!State
    BY <1>3 DEF Seen
  <2>3. Promise!Several
    BY <2>1, <2>2 DEF Promise!Several
  <2> QED  BY <2>3 DEF Promise!Next
<1> QED  BY <1>4, <1>5

\* Any other step of a solo call is not seen, unless it is refused.
LEMMA WorkIsPromised ==
  ASSUME IInv, Seen, Seen', NEW t \in Task, ~Idle(t), call' = call,
         \A u \in Task : solo'[u] => solo[u],
         solo'[t] => was' = was,
         solo[t] /\ ~solo'[t] => ~Idle(t)'
  PROVE  [Promise!Next]_Promise!vars
<1>1. \A u \in Task \ {t} : ~solo[u] /\ ~solo'[u]
  BY Busy
<1>2. CASE solo'[t]
  <2>1. Doing = call[t] /\ RadioSeen = was
    BY <1>2 DEF Seen
  <2>2. Doing' = call'[t] /\ RadioSeen' = was'
    BY <1>2 DEF Seen
  <2> QED  BY <1>2, <2>1, <2>2 DEF Promise!vars
<1>3. CASE solo[t] /\ ~solo'[t]
  <2>1. Doing = call[t] /\ call[t] \in Calls
    BY <1>3 DEF Seen
  <2>2. Doing' = "several" /\ RadioSeen' \in Promise!State
    <3>1. \A u \in Task : ~solo'[u]
      BY <1>1, <1>3
    <3> QED  BY <1>3, <3>1 DEF Seen
  <2>3. Promise!Interfere
    BY <2>1, <2>2 DEF Promise!Interfere, Promise!Key, Calls
  <2> QED  BY <2>3 DEF Promise!Next
<1>4. CASE ~solo[t] /\ ~solo'[t]
  <2>1. Doing = "several"
    <3>1. \A u \in Task : ~solo[u]
      BY <1>1, <1>4
    <3> QED  BY <3>1 DEF Seen
  <2>2. Doing' \in {"several", "nothing"} /\ RadioSeen' \in Promise!State
    <3>1. \A u \in Task : ~solo'[u]
      BY <1>1, <1>4
    <3> QED  BY <3>1 DEF Seen
  <2>3. Promise!Several
    BY <2>1, <2>2 DEF Promise!Several
  <2> QED  BY <2>3 DEF Promise!Next
<1> QED  BY <1>2, <1>3, <1>4

\* A refused action_webstation_set has something to follow: the return, at least.
LEMMA RefusedGoesOn ==
  ASSUME IInv, NEW t \in Task, solo[t], At(t, "web"), Goes(t, <<>>)
  PROVE  ~Idle(t)'
<1>1. /\ TypeOK /\ ~Idle(t) /\ Head(prog[t]).do = "web"
      /\ OnCourse(t, call[t], was, prog[t])
  BY SoloCourse DEF At, IInv
<1>2. PICK b, R : ComesTo(t, call[t], was, b, R)
  BY <1>1, Situation, FirstWorking, FirstReturning DEF Plain
<1>3. Tail(prog[t]) = R /\ prog'[t] = Tail(prog[t])
  BY <1>1, <1>2, FirstComesTo, GoesOn
<1>4. R # <<>>
  <2>1. b = "web"
    BY <1>1, <1>2, FirstComesTo
  <2>2. R \in {Do("return"), Do("toggle") \o Do("return")}
    BY <1>2, <2>1 DEF ComesTo, Completes
  <2>3. Do("return") # <<>> /\ Do("toggle") \o Do("return") # <<>>
    BY FirstOf, Ends DEF Do, Plain
  <2> QED  BY <2>2, <2>3
<1> QED  BY <1>3, <1>4 DEF Idle

\* A call that the display's task overtakes is in the middle of small steps.
LEMMA OvertakenGoesOn ==
  ASSUME IInv, NEW t \in Task, solo[t], Store(t)
  PROVE  ~Idle(t)'
<1>1. /\ TypeOK /\ ~Idle(t) /\ Head(prog[t]).do = "store" /\ Goes(t, <<>>)
      /\ OnCourse(t, call[t], was, prog[t])
  BY SoloCourse DEF Store, At, IInv
<1>2. Working(t, call[t], was)
  BY <1>1, Situation, FirstReturning, FirstComesTo DEF Expanding
<1>3. PICK F, K, h, l :
        /\ prog[t] = F \o K /\ K \in Seq(Step) /\ F # <<>>
        /\ Leads(Hi(t), Lo(t), F, h, l) /\ Rest(call[t], was, K, h, l)
  BY <1>2 DEF Working
<1>4. F \in Seq(Small) /\ Tail(F) \in Seq(Step)
  BY <1>3, First, SmallSteps DEF Leads
<1>5. prog'[t] = Tail(F) \o K
  BY <1>1, <1>3, <1>4, FirstOfSmall, GoesOn
<1>6. K # <<>>
  <2>1. Do("return") # <<>>
    BY DEF Do
  <2>2. \A b \in Expanding \cup {"web", "redirector_restore"} : \A R \in Seq(Step) :
          Do(b) \o R # <<>>
    BY FirstOf DEF Plain
  <2> QED  BY <1>3, <2>1, <2>2 DEF Rest
<1>7. Tail(F) \o K # <<>>
  BY <1>3, <1>4, <1>6
<1> QED  BY <1>5, <1>7 DEF Idle

\* What the display's task does is not seen, or it sends what was left unsent.
LEMMA LcdIsPromised ==
  ASSUME IInv, Seen, Seen', LcdStep
  PROVE  [Promise!Next]_Promise!vars
<1>1. /\ Fresh' /\ UNCHANGED <<flag, call, solo, was>>
      /\ \A u \in Task : prog'[u] = prog[u]
      /\ Fresh => /\ port_b' \ {LCD} = port_b \ {LCD}
                  /\ chip' \ {LCD} \in {chip \ {LCD}, port_b \ {LCD}}
  BY LcdTypes DEF IInv
<1>2. CASE \E t \in Task : solo[t]
  <2>1. PICK t \in Task : solo[t]
    BY <1>2
  <2>2. Doing = call[t] /\ RadioSeen = was
    BY <2>1 DEF Seen
  <2>3. Doing' = call[t] /\ RadioSeen' = was
    BY <1>1, <2>1 DEF Seen
  <2> QED  BY <2>2, <2>3 DEF Promise!vars
<1>3. CASE (\A t \in Task : ~solo[t]) /\ ~(Fresh /\ \A t \in Task : Idle(t))
  <2>1. Doing = "several"
    BY <1>3 DEF Seen
  <2>2. Doing' \in {"several", "nothing"} /\ RadioSeen' \in Promise!State
    BY <1>1, <1>3 DEF Seen
  <2>3. Promise!Several
    BY <2>1, <2>2 DEF Promise!Several
  <2> QED  BY <2>3 DEF Promise!Next
<1>4. CASE (\A t \in Task : ~solo[t]) /\ Fresh /\ \A t \in Task : Idle(t)
  <2>1. Doing = "nothing" /\ RadioSeen = RadioNow
    BY <1>4 DEF Seen
  <2>2. Doing' = "nothing" /\ RadioSeen' = RadioNow'
    BY <1>1, <1>4 DEF Seen, Idle
  <2>3. IsFm' = IsFm /\ action_is_running' = action_is_running
    BY <1>1 DEF IsFm, action_is_running
  <2>4. CASE Sent
    <3>1. chip' \ {LCD} = chip \ {LCD} /\ Sent'
      BY <1>1, <1>4, <2>4 DEF Sent
    <3>2. Heard' = Heard
      BY <1>1, <2>4, <3>1, SameSound DEF Heard
    <3> QED  BY <1>1, <2>1, <2>2, <2>3, <3>2 DEF RadioNow, Promise!vars
  <2>5. CASE ~Sent
    <3>1. RadioNow.sound = "unknown"
      BY <2>5 DEF RadioNow, Heard
    <3>2. RadioNow' = [RadioNow EXCEPT !.sound = Heard']
      BY <1>1, <2>3 DEF RadioNow
    <3>3. Heard' \in Promise!Sound
      BY DEF Heard, Promise!Sound, Promise!Source
    <3>4. Promise!Notice
      BY <2>1, <2>2, <3>1, <3>2, <3>3 DEF Promise!Notice
    <3> QED  BY <3>4 DEF Promise!Next
  <2> QED  BY <2>4, <2>5
<1> QED  BY <1>2, <1>3, <1>4

LEMMA StepIsPromised == IInv /\ Seen /\ Seen' /\ [Next]_vars => [Promise!Next]_Promise!vars
<1> SUFFICES ASSUME IInv, Seen, Seen', [Next]_vars PROVE [Promise!Next]_Promise!vars
  OBVIOUS
<1>1. CASE UNCHANGED vars
  <2>1. RadioNow' = RadioNow
    BY <1>1, NowKept DEF vars, ports
  <2>2. RadioSeen' = RadioSeen /\ Doing' = Doing
    BY <1>1, <2>1 DEF vars, RadioSeen, Doing, Alone, Idle, Fresh, Updating
  <2> QED  BY <2>2 DEF Promise!vars
<1>2. ASSUME NEW t \in Task, Call(t) \/ Return(t)
      PROVE  Promise!Next
  BY <1>2, CallIsPromised, ReturnIsPromised
<1>3. ASSUME NEW t \in Task,
             \/ Expand(t) \/ Simple(t) \/ i2s_redirector_stop(t) \/ i2s_redirector_restore(t)
      PROVE  [Promise!Next]_Promise!vars
  <2>1. CASE Simple(t)
    <3>1. /\ ~Idle(t) /\ call' = call /\ \A u \in Task : solo'[u] => solo[u]
          /\ solo'[t] => was' = was
      BY <2>1, SimpleTypes DEF IInv
    <3>2. solo[t] /\ ~solo'[t] => ~Idle(t)'
      <4>1. CASE Store(t)
        BY <4>1, OvertakenGoesOn
      <4>2. CASE ~Store(t)
        BY <2>1, <4>2 DEF Simple, Load, WriteIo, Talk, SetFlag, Toggle, history
      <4> QED  BY <4>1, <4>2
    <3> QED  BY <3>1, <3>2, WorkIsPromised
  <2>2. CASE ~Simple(t)
    <3>1. ~Idle(t) /\ UNCHANGED history
      BY <1>3, <2>2 DEF Expand, i2s_redirector_stop, i2s_redirector_restore, At
    <3> QED  BY <3>1, WorkIsPromised DEF history
  <2> QED  BY <2>1, <2>2
<1>4. ASSUME NEW t \in Task, WebstationSet(t)
      PROVE  [Promise!Next]_Promise!vars
  <2>1. ~Idle(t) /\ At(t, "web") /\ call' = call /\ TypeOK
    BY <1>4 DEF WebstationSet, At, IInv
  <2>2. CASE UNCHANGED <<solo, was>>
    BY <2>1, <2>2, WorkIsPromised
  <2>3. CASE Goes(t, <<>>) /\ solo' = [solo EXCEPT ![t] = FALSE]
    <3>1. \A u \in Task : solo'[u] => solo[u] /\ u # t
      BY <2>1, <2>3 DEF TypeOK
    <3>2. solo[t] => ~Idle(t)'
      BY <2>1, <2>3, RefusedGoesOn
    <3> QED  BY <2>1, <3>1, <3>2, WorkIsPromised
  <2> QED  BY <1>4, <2>2, <2>3 DEF WebstationSet
<1>5. CASE LcdStep
  BY <1>5, LcdIsPromised
<1> QED  BY <1>1, <1>2, <1>3, <1>4, <1>5 DEF Next, Simple, LcdStep, Writer

(***************************************************************************)
(* Of calls made one after another each takes the radio from the state it      *)
(* found to the one it is for, as if it were one step: the source that is     *)
(* chosen, on or off, asleep or not, and what is heard.  Updates of the        *)
(* display come and go unseen.  Nothing else is promised of a call that meets  *)
(* another one, that writes port_b in the middle of an update of the display,  *)
(* or that is refused; and however the pins, the flags and the redirector are  *)
(* left then, the next call that is alone does what it is for.  After a web    *)
(* station, "on" is open, since its server may not be found.                 *)
(***************************************************************************)
THEOREM ActsAtOnce == Spec => ImplementsRadio
BY View, InitIsUnasked, StepIsPromised, Invariance, PTL DEF Spec, ImplementsRadio, Promise!Spec

=============================================================================
