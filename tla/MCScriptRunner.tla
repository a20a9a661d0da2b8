--------------------------- MODULE MCScriptRunner ---------------------------
(* Model checking of ScriptRunner: small sets of everything. *)
EXTENDS ScriptRunner, TLC

CONSTANTS a1, a2, c1, c2, j1, j2

AllSymmetry == Permutations(Agents) \cup Permutations(Clients) \cup Permutations(Jobs)

EveryDay == {{}, Positions}
=============================================================================
