--------------------------- MODULE MC_SessionEngine ---------------------------
(***************************************************************************)
(* A few connections and the main thread at one or two sessions.           *)
(***************************************************************************)
EXTENDS SessionEngine, TLC
CONSTANTS c1, c2, s1, s2
=============================================================================
