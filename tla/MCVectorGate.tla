----------------------------- MODULE MCVectorGate -----------------------------
(***************************************************************************)
(* Three tables: one whose rungs share a trigger, one whose rungs do not,  *)
(* so that Lean cannot prove its order load-bearing, and one the generator *)
(* refuses, whose rung lists the reserved trigger.                         *)
(***************************************************************************)
EXTENDS VectorGate

CONSTANTS a, b

MCTable(ts) ==
  [hatch |-> [reserved |-> {1}, action |-> 0],
   rungs |-> <<[claimant |-> a, triggers |-> ts, action |-> 1],
               [claimant |-> b, triggers |-> {2}, action |-> 2]>>,
   fallthrough |-> {2}]

MCTables == {MCTable({2}), MCTable({}), MCTable({1})}
=============================================================================
