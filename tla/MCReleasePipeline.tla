-------------------------- MODULE MCReleasePipeline --------------------------
(***************************************************************************)
(* Two commits: `good` passes every check, `bad` fails one of them.  The   *)
(* cfg says which job that is, so that the gate has something to refuse.   *)
(***************************************************************************)
EXTENDS ReleasePipeline

CONSTANTS good, bad

MCPassing == [j \in Validating |-> IF j = "formal" THEN {good} ELSE {good, bad}]
=============================================================================
