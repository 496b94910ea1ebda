------------------------------ MODULE MCGuardScan ------------------------------
(***************************************************************************)
(* Files of up to three items, as rustfmt lays them out: a function, a     *)
(* `use`, a test module, a `use` for tests only.                           *)
(***************************************************************************)
EXTENDS GuardScan, SequencesExt

MCLine(attr, opens, closes, production) ==
  [attr |-> attr, opens |-> opens, closes |-> closes, production |-> production]

MCItems ==
  {<<MCLine(FALSE, 1, 0, TRUE), MCLine(FALSE, 0, 0, TRUE), MCLine(FALSE, 0, 1, TRUE)>>,
   <<MCLine(FALSE, 0, 0, TRUE)>>,
   <<MCLine(TRUE, 0, 0, FALSE), MCLine(FALSE, 1, 0, FALSE), MCLine(FALSE, 1, 1, FALSE),
     MCLine(FALSE, 0, 1, FALSE)>>,
   <<MCLine(TRUE, 0, 0, FALSE), MCLine(FALSE, 0, 0, FALSE)>>}

MCSources == {FlattenSeq(items) : items \in SeqOf(MCItems, 3)}
=============================================================================
