----------------------------- MODULE MC_VaultSync -----------------------------
(***************************************************************************)
(* Two devices and one shared folder; the .cfg files choose what the       *)
(* folder does with racing writers and which calls fail.                   *)
(***************************************************************************)
EXTENDS VaultSync, TLC
CONSTANTS d1, d2
DeviceSymmetry == Permutations(Devices)
=============================================================================
