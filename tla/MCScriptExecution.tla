------------------------- MODULE MCScriptExecution -------------------------
(* Model checking of ScriptExecution. *)
EXTENDS ScriptExecution, TLC
=============================================================================
