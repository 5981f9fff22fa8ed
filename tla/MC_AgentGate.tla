----------------------------- MODULE MC_AgentGate -----------------------------
(***************************************************************************)
(* Model values and symmetry for checking AgentGate.                       *)
(***************************************************************************)
EXTENDS AgentGate, TLC

CONSTANTS a1, a2, o1, o2, s1, s2, h1, h2, e1, e2

OwnersSymmetry == Permutations(Owners)
SessionsSymmetry == Permutations(Agents) \cup Permutations(Sessions)
=============================================================================
