---------------------------- MODULE MCLadderTable ----------------------------
(***************************************************************************)
(* Every source over two triggers: any schema from -1 to past the limit,   *)
(* any reserved list of up to three triggers (repeats included), any       *)
(* fallthrough set or none, and a few rung lists, one of them colliding.   *)
(***************************************************************************)
EXTENDS LadderTable

CONSTANTS a, b

MCRung(c, t, l) == [claimant |-> c, triggers |-> t, action |-> l]

MCReserved == UNION {[1 .. n -> Trigger] : n \in 0 .. 3}

MCRungLists ==
  {<<>>, <<MCRung(a, {1}, 1)>>,
   <<MCRung(a, {1, 2}, 1), MCRung(b, {1}, 2)>>,
   <<MCRung(b, {1}, 2), MCRung(a, {1, 2}, 1)>>,
   <<MCRung(a, {1}, 1), MCRung(a, {1}, 2)>>}

Optional(S) == {{}} \cup {{x} : x \in S}

MCSources ==
  [is_toml : BOOLEAN, unknown_key : BOOLEAN,
   schema : Optional(-1 .. SchemaLimit + SCHEMA),
   fallthrough : Optional(SUBSET Trigger),
   hatch : Optional([action : {0}, reserved : MCReserved]),
   rung : Optional(MCRungLists)]

MCTables == {}
=============================================================================
