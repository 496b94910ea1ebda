----------------------------- MODULE MCGenVectors -----------------------------
(***************************************************************************)
(* Demo tables of up to two rungs, clean or not, with the names the        *)
(* program brings along (rogue, zz, the probe) in use or not, and tables   *)
(* of three claimants, one too many once the rogue is added.               *)
(***************************************************************************)
EXTENDS GenVectors

CONSTANTS a, b, third

MCRung(claimant, ts, i) == [claimant |-> claimant, triggers |-> ts, action |-> i]

MCTriggerSets == {{}, {1}, {2}, {ZZ}, {2, ZZ}, {Probe}}

MCRungSeqs ==
  {<<>>}
  \cup {<<MCRung(x, ts, 1)>> : x \in {a, b, Rogue}, ts \in MCTriggerSets}
  \cup {<<MCRung(x, ts, 1), MCRung(y, us, 2)>> :
          x \in {a, Rogue}, y \in {a, b, Rogue}, ts \in MCTriggerSets, us \in MCTriggerSets}
  \cup {<<MCRung(a, {2}, 1), MCRung(b, {2}, 2), MCRung(third, ts, 3)>> : ts \in {{2}, {ZZ}}}
  \cup {<<MCRung(a, {2}, 1), MCRung(b, {2}, 2), MCRung(a, ts, 3)>> : ts \in {{2}, {ZZ}}}

MCTables ==
  [hatch : [reserved : {{1}, {ZZ}, {1, ZZ}}, action : {0}],
   rungs : MCRungSeqs,
   fallthrough : {{}, {2}, {1}}]
=============================================================================
