---------------------------- MODULE MCKboTorLanes ----------------------------
(***************************************************************************)
(* KboTorLanes with a small pool.                                          *)
(***************************************************************************)
EXTENDS KboTorLanes, TLC

==============================================================================
