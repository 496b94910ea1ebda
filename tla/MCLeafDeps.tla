------------------------------ MODULE MCLeafDeps ------------------------------
(***************************************************************************)
(* All graphs over the core (1) and three packages, cycles and all, with   *)
(* each choice of what comes from the registry; and metadata that cannot   *)
(* be used, with two packages of the crate's name, none, or no graph.      *)
(***************************************************************************)
EXTENDS LeafDeps, Integers

MCDeps ==
  {[p \in Package |-> SetToSortSeq(succ[p], <)] :
     succ \in {f \in [Package -> SUBSET Package] : \A p \in Package : p \notin f[p]}}

MCLine == [p \in Package |-> IF p + 1 \in Package THEN <<p + 1>> ELSE <<>>]

MCMetadatas ==
  [resolved : {TRUE}, named : {{1}}, deps : MCDeps, registry : {{2, 3, 4}, {2, 3}, {2, 4}, {}}]
  \cup [resolved : BOOLEAN, named : {{}, {1, 2}, {1}}, deps : {MCLine}, registry : {{2, 3, 4}}]
=============================================================================
