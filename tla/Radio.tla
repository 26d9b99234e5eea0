------------------------------- MODULE Radio -------------------------------
(***************************************************************************)
(* What the radio promises to who commands it.  A call that meets no other   *)
(* one has its effect as a whole, on the radio as it was when the call was     *)
(* made.  Of calls that meet, or meet an update of the display at the wrong    *)
(* moment, and of one that the radio cannot carry out, nothing is promised;   *)
(* the first call after them that is alone is again all that counts.         *)
(***************************************************************************)
VARIABLES
  radio,   \* the source that is chosen, whether it is on, whether the radio
           \* sleeps (the display is no part of it), and what is heard
  doing    \* the call that is being carried out, "nothing", or "several"

vars == <<radio, doing>>

Source == {"web", "fm"}
Sound  == Source \cup {"silence", "unknown"}
State  == [source : Source, on : BOOLEAN, asleep : BOOLEAN, sound : Sound]
Key    == {"web", "fm", "stop", "pause", "source", "volume", "power", "webstation_stop"}

-----------------------------------------------------------------------------
\* The way from the source is open.  A web station whose server is not found opens
\* it all the same, and is not on.
Tuned(s, asleep) == {x \in State : /\ x.source = s /\ x.asleep = asleep /\ x.sound = s
                                   /\ s = "fm" => x.on}
Stopped(s, on, asleep) == [source |-> s, on |-> on, asleep |-> asleep, sound |-> "silence"]
Other(s)               == IF s = "web" THEN "fm" ELSE "web"

\* What the radio r may be after the call.  The end of a web session silences the
\* FM radio too, and leaves it on.
After(key, r) ==
  CASE key \in Source -> Tuned(key, r.asleep)
    [] key = "stop"   -> {Stopped(r.source, FALSE, r.asleep)}
    [] key = "pause"  -> IF r.on THEN {Stopped(r.source, FALSE, r.asleep)}
                                 ELSE Tuned(r.source, r.asleep)
    [] key = "source" -> Tuned(Other(r.source), r.asleep)
    [] key = "power"  -> IF r.asleep THEN Tuned(r.source, FALSE)
                                     ELSE {Stopped(r.source, FALSE, TRUE)}
    [] key = "webstation_stop" -> {Stopped(r.source, r.on /\ r.source = "fm", r.asleep)}
    [] key = "volume" ->
         {x \in State : /\ x.source = r.source /\ x.on = r.on /\ x.asleep = r.asleep
                        /\ r.sound \in {x.sound, "unknown"}}

-----------------------------------------------------------------------------
Init ==
  /\ radio = [source |-> "web", on |-> FALSE, asleep |-> TRUE, sound |-> "unknown"]
  /\ doing = "nothing"

Begin ==
  /\ doing = "nothing" /\ doing' \in Key
  /\ UNCHANGED radio

End ==
  /\ doing \in Key /\ doing' = "nothing"
  /\ radio' \in After(doing, radio)

\* Another call begins before it ends, the display's update cuts in, or it cannot be
\* carried out.
Interfere ==
  /\ doing \in Key /\ doing' = "several"
  /\ radio' \in State

Several ==
  /\ doing = "several" /\ doing' \in {"several", "nothing"}
  /\ radio' \in State

\* The display's task writes the chip, and with it what calls that met left unwritten.
Notice ==
  /\ doing = "nothing" /\ radio.sound = "unknown"
  /\ \E sound \in Sound : radio' = [radio EXCEPT !.sound = sound]
  /\ UNCHANGED doing

Next == Begin \/ End \/ Interfere \/ Several \/ Notice

Spec == Init /\ [][Next]_vars
=============================================================================
