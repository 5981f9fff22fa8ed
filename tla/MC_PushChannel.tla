---------------------------- MODULE MC_PushChannel ----------------------------
(***************************************************************************)
(* One channel; the .cfg files choose its capacity and its receiver.       *)
(***************************************************************************)
EXTENDS PushChannel
=============================================================================
