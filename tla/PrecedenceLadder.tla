--------------------------- MODULE PrecedenceLadder ---------------------------
(***************************************************************************)
(* The data of the crate (src/src/lib.rs) and its one decision as a pure   *)
(* function.  A ladder is an ordered table of rungs beside a hatch; given  *)
(* a trigger and a situation it answers with a verdict.                    *)
(*                                                                         *)
(* Triggers, claimants and action labels are opaque strings in the code.   *)
(* Only two things about them matter: equality, and for triggers the byte  *)
(* order in which a BTreeSet iterates.  So triggers are natural numbers    *)
(* (their rank in that order) and the other two are arbitrary sets.        *)
(***************************************************************************)
EXTENDS Integers, Sequences, FiniteSets, FiniteSetsExt

CONSTANTS
  Trigger,    \* the trigger strings in use, by rank in string order
  Claimant,   \* the claimant names in use
  Action,     \* the action labels in use
  Tables      \* the ladders under consideration

-----------------------------------------------------------------------------
(* Values.                                                                 *)

\* A hatch cannot be built with an empty reserved set.
Hatch == [reserved : (SUBSET Trigger) \ {{}}, action : Action]

Rung == [claimant : Claimant, triggers : SUBSET Trigger, action : Action]

Ladder == [hatch : Hatch, rungs : Seq(Rung), fallthrough : SUBSET Trigger]

ClaimSet == SUBSET Claimant

Situation == [claiming : ClaimSet, work_running : BOOLEAN]

Claimed(r) == [kind |-> "Claimed", claimant |-> r.claimant, action |-> r.action]

Escape(l) == [kind |-> "Escape", action |-> l.hatch.action]

Unbound == [kind |-> "Unbound"]

Verdict == [kind : {"Claimed"}, claimant : Claimant, action : Action]
             \cup [kind : {"Escape"}, action : Action]
             \cup {Unbound}

ASSUME TriggerAssumption == Trigger \subseteq Nat
ASSUME TablesAssumption == Tables \subseteq Ladder

-----------------------------------------------------------------------------
(* Construction.                                                           *)

\* Hatch::new takes a first trigger and the rest, never a bare set.
NewHatch(action, first, rest) ==
  [reserved |-> {first} \cup {rest[i] : i \in DOMAIN rest}, action |-> action]

\* Rung::new collects the triggers it is given.
NewRung(claimant, triggers, action) ==
  [claimant |-> claimant, triggers |-> {triggers[i] : i \in DOMAIN triggers},
   action |-> action]

NewLadder(hatch, rungs, fallthrough) ==
  [hatch |-> hatch, rungs |-> rungs, fallthrough |-> fallthrough]

-----------------------------------------------------------------------------
(* The decision.                                                           *)

\* The hatch branch: tried before any rung.
HatchFires(l, t, s) == s.work_running /\ t \in l.hatch.reserved

\* A rung answers when it lists the trigger and its claimant is live.
Owns(r, t, s) == t \in r.triggers /\ r.claimant \in s.claiming

Owners(l, t, s) == {i \in DOMAIN l.rungs : Owns(l.rungs[i], t, s)}

FallsThrough(l, t, s) == s.work_running /\ t \in l.fallthrough

\* Two slips, no part of the model: the first live claimant decides even if it
\* does not list the trigger, and the fallthrough branch comes before the rungs.
ResolveModal(l, t, s) ==
  LET live == {i \in DOMAIN l.rungs : l.rungs[i].claimant \in s.claiming}
  IN  IF HatchFires(l, t, s) THEN Escape(l)
      ELSE IF live # {} /\ t \in l.rungs[Min(live)].triggers
      THEN Claimed(l.rungs[Min(live)])
      ELSE IF live = {} /\ FallsThrough(l, t, s) THEN Escape(l) ELSE Unbound

ResolveFallthroughFirst(l, t, s) ==
  LET owners == Owners(l, t, s)
  IN  IF HatchFires(l, t, s) \/ FallsThrough(l, t, s) THEN Escape(l)
      ELSE IF owners # {} THEN Claimed(l.rungs[Min(owners)]) ELSE Unbound

\* What the documentation of Ladder::resolve promises: the hatch, then the
\* first live owner in table order, then fallthrough, else nothing.
Resolve(l, t, s) ==
  LET owners == Owners(l, t, s) IN
  IF HatchFires(l, t, s) THEN Escape(l)
  ELSE IF owners # {} THEN Claimed(l.rungs[Min(owners)])
  ELSE IF FallsThrough(l, t, s) THEN Escape(l)
  ELSE Unbound

\* Verdict::action, as a set: the label, or no label for Unbound.
VerdictAction(v) == IF v.kind = "Unbound" THEN {} ELSE {v.action}

\* Ladder::describe: the hint is the label of what resolve answers.
Describe(l, t, s) == VerdictAction(Resolve(l, t, s))

\* Ladder::claimants: one name per rung, in table order, repeats kept.
Claimants(l) == [i \in DOMAIN l.rungs |-> l.rungs[i].claimant]

-----------------------------------------------------------------------------
(* What Ladder::collisions is to find: the rows, as pairs of a position    *)
(* and a trigger, and the fallthrough triggers.                            *)

Pairs(l) == {p \in (DOMAIN l.rungs) \X Trigger : p[2] \in l.rungs[p[1]].triggers}

ReservedPairs(l) == {p \in Pairs(l) : p[2] \in l.hatch.reserved}

RepeatedPairs(l) ==
  {p \in Pairs(l) : \E f \in 1 .. p[1] - 1 :
     /\ l.rungs[f].claimant = l.rungs[p[1]].claimant
     /\ p[2] \in l.rungs[f].triggers}

CollisionCount(l) ==
  Cardinality(ReservedPairs(l)) + Cardinality(RepeatedPairs(l))
    + Cardinality(l.fallthrough \cap l.hatch.reserved)

-----------------------------------------------------------------------------
(* A rung's chances, and edits of a table: what the properties speak of.   *)

\* Rung k is the one that answers t in s.
Wins(l, k, t, s) ==
  /\ ~HatchFires(l, t, s)
  /\ k \in Owners(l, t, s)
  /\ \A i \in Owners(l, t, s) : k <= i

\* The same table with other rungs.
WithRungs(l, rungs) == NewLadder(l.hatch, rungs, l.fallthrough)

\* The table with rung r put in front of position k.
Inserted(l, k, r) ==
  WithRungs(l, SubSeq(l.rungs, 1, k - 1) \o <<r>> \o SubSeq(l.rungs, k, Len(l.rungs)))
=============================================================================
