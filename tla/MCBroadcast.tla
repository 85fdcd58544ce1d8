---------------------------- MODULE MCBroadcast -----------------------------
(***************************************************************************)
(* An instance of Broadcast for TLC.                                       *)
(***************************************************************************)
EXTENDS Broadcast
CONSTANTS c1, c2
=============================================================================
