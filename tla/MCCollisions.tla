---------------------------- MODULE MCCollisions ----------------------------
(***************************************************************************)
(* The lint on every table of up to MCRungs rungs over two triggers and    *)
(* two claimants, so that a pair can be repeated twice, with another       *)
(* claimant's row between, reserved or not.                                *)
(***************************************************************************)
EXTENDS Collisions

CONSTANT MCRungs

MCRungSeqs ==
  UNION {{[i \in 1 .. n |-> [claimant |-> c[i], triggers |-> t[i], action |-> i]] :
            c \in [1 .. n -> Claimant], t \in [1 .. n -> SUBSET Trigger]} :
         n \in 0 .. MCRungs}

MCTables ==
  [hatch : [reserved : (SUBSET Trigger) \ {{}}, action : {0}],
   rungs : MCRungSeqs,
   fallthrough : SUBSET Trigger]
=============================================================================
