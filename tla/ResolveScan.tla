----------------------------- MODULE ResolveScan -----------------------------
(***************************************************************************)
(* Ladder::resolve as it runs (src/src/lib.rs): the hatch test, then the   *)
(* loop over the rungs, one iteration per step, then the fallthrough test. *)
(* The table and the situation are borrowed immutably for the call, so     *)
(* nothing else can step in between.                                       *)
(***************************************************************************)
EXTENDS PrecedenceLadder

VARIABLES
  ladder,      \* &self
  trigger,     \* the argument `trigger`
  situation,   \* the argument `s`
  pc,          \* "hatch", "rungs" or "returned"
  next,        \* index of the rung the loop looks at next
  verdict      \* the value returned

vars == <<ladder, trigger, situation, pc, next, verdict>>

inputs == <<ladder, trigger, situation>>

Contract == INSTANCE LadderContract

Pending == Contract!Pending

Init ==
  /\ ladder \in Tables
  /\ trigger \in Trigger
  /\ situation \in Situation
  /\ pc = "hatch"
  /\ next = 1
  /\ verdict = Pending

Return(v) ==
  /\ verdict' = v
  /\ pc' = "returned"
  /\ UNCHANGED <<inputs, next>>

LoopEnded == pc = "rungs" /\ next \notin DOMAIN ladder.rungs

-----------------------------------------------------------------------------
(* Slips a change of the function could make, and that the properties      *)
(* below catch: the hatch branch below the scan, an iteration that skips a *)
(* rung, a rung asked without its claimant, and a fallthrough without the  *)
(* work test.  No part of the specification.                               *)

EnterLoopUntested ==
  pc = "hatch" /\ pc' = "rungs" /\ UNCHANGED <<inputs, next, verdict>>

RungDeclinesForTwo ==
  /\ pc = "rungs" /\ next \in DOMAIN ladder.rungs
  /\ ~Owns(ladder.rungs[next], trigger, situation)
  /\ next' = next + 2
  /\ UNCHANGED <<inputs, pc, verdict>>

RungClaimsUnasked ==
  /\ pc = "rungs" /\ next \in DOMAIN ladder.rungs
  /\ trigger \in ladder.rungs[next].triggers
  /\ Return(Claimed(ladder.rungs[next]))

EscapeByFallthroughIdle ==
  LoopEnded /\ trigger \in ladder.fallthrough /\ Return(Escape(ladder))

-----------------------------------------------------------------------------
(* The branches.                                                           *)

EscapeByHatch ==
  /\ pc = "hatch"
  /\ HatchFires(ladder, trigger, situation)
  /\ Return(Escape(ladder))

EnterLoop ==
  /\ pc = "hatch"
  /\ ~HatchFires(ladder, trigger, situation)
  /\ pc' = "rungs"
  /\ UNCHANGED <<inputs, next, verdict>>

RungClaims ==
  /\ pc = "rungs"
  /\ next \in DOMAIN ladder.rungs
  /\ Owns(ladder.rungs[next], trigger, situation)
  /\ Return(Claimed(ladder.rungs[next]))

RungDeclines ==
  /\ pc = "rungs"
  /\ next \in DOMAIN ladder.rungs
  /\ ~Owns(ladder.rungs[next], trigger, situation)
  /\ next' = next + 1
  /\ UNCHANGED <<inputs, pc, verdict>>

EscapeByFallthrough ==
  /\ LoopEnded
  /\ FallsThrough(ladder, trigger, situation)
  /\ Return(Escape(ladder))

NothingBound ==
  /\ LoopEnded
  /\ ~FallsThrough(ladder, trigger, situation)
  /\ Return(Unbound)

Next ==
  \/ EscapeByHatch
  \/ EnterLoop
  \/ RungClaims
  \/ RungDeclines
  \/ EscapeByFallthrough
  \/ NothingBound

Spec == Init /\ [][Next]_vars

-----------------------------------------------------------------------------
(* The loop: what holds between two iterations.                            *)

TypeOK ==
  /\ ladder \in Ladder
  /\ trigger \in Trigger
  /\ situation \in Situation
  /\ pc \in {"hatch", "rungs", "returned"}
  /\ next \in 1 .. Len(ladder.rungs) + 1
  /\ verdict \in Verdict \cup {Pending}

\* Why the scan is right: past the hatch test the hatch did not fire, every
\* rung already passed declined, and a returned verdict is the promised one.
ScanInv ==
  /\ pc = "hatch" => next = 1
  /\ pc = "rungs" =>
       /\ ~HatchFires(ladder, trigger, situation)
       /\ \A i \in 1 .. next - 1 : ~Owns(ladder.rungs[i], trigger, situation)
  /\ pc = "returned" =>
       /\ verdict = Resolve(ladder, trigger, situation)
       /\ HatchFires(ladder, trigger, situation) => next = 1
  /\ pc # "returned" => verdict = Pending

-----------------------------------------------------------------------------
(* Properties.                                                             *)

Returned == pc = "returned"

\* The escape-hatch invariant of the crate documentation: while work runs a
\* reserved trigger is answered by the hatch, whatever the rungs are, and no
\* rung has been looked at to find that out.
EscapeHatch ==
  Returned /\ situation.work_running /\ trigger \in ladder.hatch.reserved
    => verdict = Escape(ladder) /\ next = 1

\* First match wins.  A claimed verdict comes from a rung that is live and
\* lists the trigger, every rung above it declined, and taking the rungs below
\* it away would not change the answer.
FirstMatch ==
  Returned /\ verdict.kind = "Claimed" =>
    \E i \in DOMAIN ladder.rungs :
      /\ verdict = Claimed(ladder.rungs[i])
      /\ Owns(ladder.rungs[i], trigger, situation)
      /\ \A j \in 1 .. i - 1 : ~Owns(ladder.rungs[j], trigger, situation)
      /\ verdict = Resolve(WithRungs(ladder, SubSeq(ladder.rungs, 1, i)),
                           trigger, situation)

\* A rung that does not own the trigger in this situation can be added at any
\* place in the table without changing the answer: declining is transparent.
DecliningRungIsTransparent ==
  Returned =>
    \A k \in 1 .. Len(ladder.rungs) + 1, r \in Rung :
      ~Owns(r, trigger, situation) =>
        Resolve(Inserted(ladder, k, r), trigger, situation) = verdict

\* The call is one step of the contract: its iterations are invisible to the
\* caller and the answer, once given, is the promised one and never changes.
ImplementsContract == Contract!Spec
=============================================================================
