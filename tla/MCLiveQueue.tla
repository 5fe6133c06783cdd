----------------------------- MODULE MCLiveQueue -----------------------------
(***************************************************************************)
(* A small instance of LiveQueue: one case, which is created and changes once. *)
(***************************************************************************)
EXTENDS LiveQueue, TLC

CONSTANT c1

MCTwice == c1 :> 2
=============================================================================
