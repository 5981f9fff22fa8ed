---------------------------- MODULE MC_SessionHost ----------------------------
(***************************************************************************)
(* One daemon at a time, two hosts, one terminal.                          *)
(***************************************************************************)
EXTENDS SessionHost, TLC
CONSTANTS d1, h1, h2, t1
=============================================================================
