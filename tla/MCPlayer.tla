------------------------------ MODULE MCPlayer ------------------------------
(***************************************************************************)
(* Small instances of Player: two decoder slots, so that one task may still *)
(* be ending when the next is created, and one task that stops the player.  *)
(***************************************************************************)
EXTENDS Player, TLC

\* A decoder task has no name in the code: the slots are alike.
Slots == Permutations(Decoder)
=============================================================================
