------------------------------- MODULE Session -------------------------------
(***************************************************************************)
(* A host at work with one ladder: claimants come and go in its ClaimSet,  *)
(* units of work start and stop, nested or side by side, and now and then  *)
(* a hint is drawn from Ladder::describe.  The host is not in this crate;  *)
(* it follows what src/src/lib.rs asks of one: a claim is added with       *)
(* `claiming` and there is no call to take it back, only a set built anew; *)
(* and, as work_running is one flat flag, the host counts its units and    *)
(* passes `depth > 0`.                                                     *)
(***************************************************************************)
EXTENDS PrecedenceLadder

CONSTANT Unit   \* the units of work there can be

ASSUME UnitAssumption == IsFiniteSet(Unit)

VARIABLES
  ladder,    \* the table, fixed once loaded
  claims,    \* the host's ClaimSet
  units,     \* the units of work that run
  depth,     \* the host's count of them
  hint,      \* the hint on the screen: its trigger and label
  current    \* whether work neither began nor ended since it was drawn

vars == <<ladder, claims, units, depth, hint, current>>

NoHint == [kind |-> "NoHint"]

Hint(t, label) == [kind |-> "Hint", trigger |-> t, label |-> label]

Now == [claiming |-> claims, work_running |-> depth > 0]

Answer(t) == Resolve(ladder, t, Now)

Init ==
  /\ ladder \in Tables
  /\ claims = {}
  /\ units = {} /\ depth = 0
  /\ hint = NoHint /\ current = FALSE

-----------------------------------------------------------------------------
(* Slips of a host, no part of the specification: a count set to zero when *)
(* one unit ends, a count that goes down when none does, and a hint drawn  *)
(* as if no work ran.                                                      *)

EndResettingDepth(u) ==
  /\ u \in units
  /\ units' = units \ {u}
  /\ depth' = 0
  /\ current' = FALSE
  /\ UNCHANGED <<ladder, claims, hint>>

DrawHintForRest(t) ==
  /\ hint' = Hint(t, Describe(ladder, t, [Now EXCEPT !.work_running = FALSE]))
  /\ current' = TRUE
  /\ UNCHANGED <<ladder, claims, units, depth>>

EndAgain(u) ==
  /\ units' = units \ {u}
  /\ depth' = depth - 1
  /\ current' = FALSE
  /\ UNCHANGED <<ladder, claims, hint>>

-----------------------------------------------------------------------------
(* The steps.                                                              *)

\* ClaimSet::claiming.
Claiming(c) ==
  /\ claims' = claims \cup {c}
  /\ UNCHANGED <<ladder, units, depth, hint, current>>

\* A ClaimSet collected anew from the names that are live.
Collect(names) ==
  /\ claims' = names
  /\ UNCHANGED <<ladder, units, depth, hint, current>>

Begin(u) ==
  /\ u \notin units
  /\ units' = units \cup {u}
  /\ depth' = depth + 1
  /\ current' = (current /\ depth > 0)
  /\ UNCHANGED <<ladder, claims, hint>>

End(u) ==
  /\ u \in units
  /\ units' = units \ {u}
  /\ depth' = depth - 1
  /\ current' = (current /\ depth > 1)
  /\ UNCHANGED <<ladder, claims, hint>>

DrawHint(t) ==
  /\ hint' = Hint(t, Describe(ladder, t, Now))
  /\ current' = TRUE
  /\ UNCHANGED <<ladder, claims, units, depth>>

Next ==
  \/ \E c \in Claimant : Claiming(c)
  \/ \E names \in ClaimSet : Collect(names)
  \/ \E u \in Unit : Begin(u)
  \/ \E u \in Unit : End(u)
  \/ \E t \in Trigger : DrawHint(t)

Spec == Init /\ [][Next]_vars

-----------------------------------------------------------------------------
(* Properties.                                                             *)

TypeOK ==
  /\ ladder \in Ladder
  /\ claims \in ClaimSet
  /\ units \subseteq Unit /\ depth \in Nat
  /\ hint.kind \in {"NoHint", "Hint"}
  /\ hint.kind = "Hint" => hint.trigger \in Trigger /\ hint.label \subseteq Action
  /\ current \in BOOLEAN

\* The escape of lib.rs, for a host that nests its work: as long as any unit
\* runs, each reserved trigger escapes, whoever claims what; and when none
\* does, nothing is answered with an interrupt no unit would perform.
EscapeExactlyWhileWorking ==
  /\ units # {} => \A t \in ladder.hatch.reserved : Answer(t) = Escape(ladder)
  /\ units = {} => \A t \in Trigger : Answer(t).kind # "Escape"

\* A hint drawn for a reserved trigger while work runs cannot go stale before
\* the work ends: no claim that comes or goes in between makes it a lie.
ReservedHintKept ==
  /\ current /\ units # {} /\ hint.kind = "Hint"
  /\ hint.trigger \in ladder.hatch.reserved
  => hint.label = VerdictAction(Answer(hint.trigger))

\* Whose doing a change is: a claim added, with the work as it was, leaves each
\* answer alone or gives it to the newcomer.  It never unbinds a trigger, and
\* never hands one from one claimant of old to another.
ClaimingOnlyWins ==
  [][claims \subseteq claims' /\ (depth > 0) = (depth' > 0) =>
       \A t \in Trigger :
         \/ Answer(t)' = Answer(t)
         \/ Answer(t)'.kind = "Claimed" /\ Answer(t)'.claimant \in claims' \ claims]_vars

\* Work that begins only turns answers into escapes, and only for the triggers
\* the table names as such: every other trigger does what it did at rest.
WorkOnlyAddsEscapes ==
  [][depth = 0 /\ depth' > 0 =>
       \A t \in Trigger :
         IF t \in ladder.hatch.reserved
              \/ (t \in ladder.fallthrough /\ Answer(t) = Unbound)
         THEN Answer(t)' = Escape(ladder)
         ELSE Answer(t)' = Answer(t)]_vars
=============================================================================
