---------------------------- MODULE LadderContract ----------------------------
(***************************************************************************)
(* What a caller of Ladder::resolve may rely on: a call on any table, in   *)
(* any situation, is answered once, with the verdict that PrecedenceLadder *)
(* defines, and the answer is never revised.                               *)
(***************************************************************************)
EXTENDS PrecedenceLadder

VARIABLES
  ladder,      \* the table the call is made on
  trigger,     \* the trigger asked about
  situation,   \* what is live, and whether work runs
  verdict      \* the answer, Pending until there is one

vars == <<ladder, trigger, situation, verdict>>

Pending == [kind |-> "Pending"]

Init ==
  /\ ladder \in Tables
  /\ trigger \in Trigger
  /\ situation \in Situation
  /\ verdict = Pending

Answer ==
  /\ verdict = Pending
  /\ verdict' = Resolve(ladder, trigger, situation)
  /\ UNCHANGED <<ladder, trigger, situation>>

Next == Answer

Spec == Init /\ [][Next]_vars
=============================================================================
