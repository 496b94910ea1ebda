------------------------------- MODULE MCSession -------------------------------
(***************************************************************************)
(* A session on every table of up to MCRungs rungs over two triggers and   *)
(* two claimants, with two units of work, so that one can end while the    *)
(* other runs.  A rung's label is its position, the hatch's is 0.          *)
(***************************************************************************)
EXTENDS Session

CONSTANT MCRungs

MCRungSeqs ==
  UNION {{[i \in 1 .. n |-> [claimant |-> c[i], triggers |-> t[i], action |-> i]] :
            c \in [1 .. n -> Claimant], t \in [1 .. n -> SUBSET Trigger]} :
         n \in 0 .. MCRungs}

MCTables ==
  [hatch : [reserved : (SUBSET Trigger) \ {{}}, action : {0}],
   rungs : MCRungSeqs,
   fallthrough : SUBSET Trigger]
=============================================================================
