---------------------------- MODULE MCResolveScan ----------------------------
(***************************************************************************)
(* Every table of up to MCRungs rungs over two triggers and two claimants. *)
(* A rung's label is its position, so that two rungs of one claimant are   *)
(* told apart, and the hatch's label differs from all of them.             *)
(***************************************************************************)
EXTENDS ResolveScan

CONSTANT MCRungs

MCRungSeqs ==
  UNION {{[i \in 1 .. n |-> [claimant |-> c[i], triggers |-> t[i], action |-> i]] :
            c \in [1 .. n -> Claimant], t \in [1 .. n -> SUBSET Trigger]} :
         n \in 0 .. MCRungs}

MCTables ==
  [hatch : [reserved : (SUBSET Trigger) \ {{}}, action : {0}],
   rungs : MCRungSeqs,
   fallthrough : SUBSET Trigger]
=============================================================================
