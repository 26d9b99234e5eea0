------------------------------ MODULE MCButtons ------------------------------
(***************************************************************************)
(* Small instance of Buttons: the four kinds of events of one button and    *)
(* the encoder over a pool of two nodes.                                    *)
(***************************************************************************)
EXTENDS Buttons

MCButtonOrder == <<"PLAY">>
=============================================================================
