------------------------------ MODULE MCIcyMeta ------------------------------
(***************************************************************************)
(* Small instance of IcyMeta: packets of up to 9 bytes hold several blocks, *)
(* or only a part of one.  Out of step the statics have no bound, so the     *)
(* model stops at Bound.                                                    *)
(***************************************************************************)
EXTENDS IcyMeta

CONSTANT Bound

Bounded == metadata <= Bound /\ due.meta >= -Bound
=============================================================================
