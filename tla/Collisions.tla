------------------------------ MODULE Collisions ------------------------------
(***************************************************************************)
(* Ladder::collisions as it runs (src/src/collide.rs): the authoring lint  *)
(* walks the rungs in table order and each rung's triggers in string       *)
(* order, remembers the first row of every (claimant, trigger) pair, then  *)
(* walks the fallthrough set.  Rows are positions counted from 1.          *)
(***************************************************************************)
EXTENDS PrecedenceLadder

VARIABLES
  ladder,   \* &self
  pc,       \* "rungs", "fallthrough" or "done"
  index,    \* the row the outer loop is at, 0 before the first
  todo,     \* the triggers the current loop has not come to yet
  seen,     \* first row of each pair met so far, 0 for none
  found     \* the reports, in the order they are pushed

vars == <<ladder, pc, index, todo, seen, found>>

ReservedByHatch(c, t) ==
  [kind |-> "ReservedByHatch", claimant |-> c, trigger |-> t]

DeadRung(c, t, first) ==
  [kind |-> "DeadRung", claimant |-> c, trigger |-> t, shadowed_by |-> first]

ReservedFallthrough(t) == [kind |-> "ReservedFallthrough", trigger |-> t]

Collision ==
  [kind : {"ReservedByHatch"}, claimant : Claimant, trigger : Trigger]
    \cup [kind : {"DeadRung"}, claimant : Claimant, trigger : Trigger,
          shadowed_by : Nat]
    \cup [kind : {"ReservedFallthrough"}, trigger : Trigger]

Init ==
  /\ ladder \in Tables
  /\ pc = "rungs"
  /\ index = 0
  /\ todo = {}
  /\ seen = [p \in Claimant \X Trigger |-> 0]
  /\ found = <<>>

\* BTreeSet iteration: the next trigger is the least one left.
NextTrigger(t) == t \in todo /\ \A u \in todo : t <= u

Reserved(t) == t \in ladder.hatch.reserved

ReportIf(condition, report) == IF condition THEN <<report>> ELSE <<>>

-----------------------------------------------------------------------------
(* Slips a change of the lint could make: a first row that is one off,     *)
(* pairs told apart by their trigger alone, one report where two are due,  *)
(* and a fallthrough trigger reported untested.  No part of the            *)
(* specification.                                                          *)

VisitPairWith(t, first, again, row) ==
  LET c == ladder.rungs[index].claimant IN
  /\ pc = "rungs" /\ NextTrigger(t)
  /\ todo' = todo \ {t}
  /\ found' = found \o ReportIf(Reserved(t), ReservedByHatch(c, t))
                    \o ReportIf(again, DeadRung(c, t, first))
  /\ seen' = [seen EXCEPT ![<<c, t>>] = row]
  /\ UNCHANGED <<ladder, pc, index>>

SeenHere(t) == seen[<<ladder.rungs[index].claimant, t>>]

FirstOr(row, t) == IF SeenHere(t) = 0 THEN row ELSE SeenHere(t)

VisitPairOneOff(t) ==
  VisitPairWith(t, SeenHere(t), SeenHere(t) # 0, FirstOr(index + 1, t))

VisitPairOfAnyone(t) ==
  LET rows == {seen[<<c, t>>] : c \in Claimant} \ {0} IN
  VisitPairWith(t, IF rows = {} THEN 0 ELSE Min(rows), rows # {}, FirstOr(index, t))

VisitPairReportingOne(t) ==
  VisitPairWith(t, SeenHere(t), SeenHere(t) # 0 /\ ~Reserved(t), FirstOr(index, t))

VisitFallthroughUntested(t) ==
  /\ pc = "fallthrough" /\ NextTrigger(t)
  /\ todo' = todo \ {t}
  /\ found' = found \o <<ReservedFallthrough(t)>>
  /\ UNCHANGED <<ladder, pc, index, seen>>

-----------------------------------------------------------------------------
(* The loops.                                                              *)

NextRung ==
  /\ pc = "rungs" /\ todo = {}
  /\ index < Len(ladder.rungs)
  /\ index' = index + 1
  /\ todo' = ladder.rungs[index + 1].triggers
  /\ UNCHANGED <<ladder, pc, seen, found>>

\* One trigger of one rung: both tests, in this order, may each report it.
VisitPair(t) ==
  LET c     == ladder.rungs[index].claimant
      first == seen[<<c, t>>]
  IN  /\ pc = "rungs" /\ NextTrigger(t)
      /\ todo' = todo \ {t}
      /\ found' = found \o ReportIf(Reserved(t), ReservedByHatch(c, t))
                         \o ReportIf(first # 0, DeadRung(c, t, first))
      /\ seen' = IF first = 0 THEN [seen EXCEPT ![<<c, t>>] = index] ELSE seen
      /\ UNCHANGED <<ladder, pc, index>>

EnterFallthrough ==
  /\ pc = "rungs" /\ todo = {}
  /\ index = Len(ladder.rungs)
  /\ pc' = "fallthrough"
  /\ todo' = ladder.fallthrough
  /\ UNCHANGED <<ladder, index, seen, found>>

VisitFallthrough(t) ==
  /\ pc = "fallthrough" /\ NextTrigger(t)
  /\ todo' = todo \ {t}
  /\ found' = found \o ReportIf(Reserved(t), ReservedFallthrough(t))
  /\ UNCHANGED <<ladder, pc, index, seen>>

Finish ==
  /\ pc = "fallthrough" /\ todo = {}
  /\ pc' = "done"
  /\ UNCHANGED <<ladder, index, todo, seen, found>>

Next ==
  \/ NextRung
  \/ \E t \in Trigger : VisitPair(t)
  \/ EnterFallthrough
  \/ \E t \in Trigger : VisitFallthrough(t)
  \/ Finish

Spec == Init /\ [][Next]_vars

-----------------------------------------------------------------------------
(* The loop: what holds between two iterations.                            *)

TypeOK ==
  /\ ladder \in Ladder
  /\ pc \in {"rungs", "fallthrough", "done"}
  /\ index \in 0 .. Len(ladder.rungs)
  /\ todo \subseteq Trigger
  /\ seen \in [Claimant \X Trigger -> 0 .. Len(ladder.rungs)]
  /\ found \in Seq(Collision)

\* Row k lists the pair.
Lists(k, c, t) ==
  /\ k \in DOMAIN ladder.rungs
  /\ ladder.rungs[k].claimant = c
  /\ t \in ladder.rungs[k].triggers

\* Row k has been walked as far as trigger t.
Visited(k, t) == k < index \/ (k = index /\ (pc = "rungs" => t \notin todo))

Reports == Range(found)

Reported(r) == r \in Reports

\* The rows walked so far that list the pair.
Walked(c, t) == {k \in DOMAIN ladder.rungs : Lists(k, c, t) /\ Visited(k, t)}

\* `seen` holds, for each pair, the first such row, and 0 when there is none.
SeenInv ==
  \A c \in Claimant, t \in Trigger :
    /\ seen[<<c, t>>] = 0 => Walked(c, t) = {}
    /\ seen[<<c, t>>] # 0 => seen[<<c, t>>] \in Walked(c, t)
    /\ \A k \in Walked(c, t) : seen[<<c, t>>] <= k

\* What a report says is so.
IsTrue(r) ==
  /\ r.kind = "ReservedByHatch" => Reserved(r.trigger)
  /\ r.kind = "DeadRung" =>
       /\ r.shadowed_by # 0
       /\ r.shadowed_by = seen[<<r.claimant, r.trigger>>]
       /\ \E k \in Walked(r.claimant, r.trigger) : r.shadowed_by < k
  /\ r.kind = "ReservedFallthrough" =>
       Reserved(r.trigger) /\ r.trigger \in ladder.fallthrough

SoundInv == \A r \in Reports : IsTrue(r)

\* What is so of the pairs and the fallthrough triggers walked is reported.
CompleteInv ==
  /\ \A c \in Claimant, t \in Trigger : \A k \in Walked(c, t) :
       /\ Reserved(t) => Reported(ReservedByHatch(c, t))
       /\ seen[<<c, t>>] < k => Reported(DeadRung(c, t, seen[<<c, t>>]))
  /\ \A t \in ladder.fallthrough :
       Reserved(t) /\ pc # "rungs" /\ t \notin todo
         => Reported(ReservedFallthrough(t))

\* Where the two walks are.
WalkInv ==
  /\ pc # "rungs" => index = Len(ladder.rungs)
  /\ pc = "rungs" => IF index = 0 THEN todo = {}
                                  ELSE todo \subseteq ladder.rungs[index].triggers
  /\ pc = "fallthrough" => todo \subseteq ladder.fallthrough
  /\ pc = "done" => todo = {}

LintInv == WalkInv /\ SeenInv /\ SoundInv /\ CompleteInv

\* The rows and triggers a walk has come to, of a set of them.
WalkedPairs(pairs) ==
  {p \in pairs : p[1] \in Walked(ladder.rungs[p[1]].claimant, p[2])}

WalkedFallthrough ==
  {t \in ladder.fallthrough \cap ladder.hatch.reserved : pc # "rungs" /\ t \notin todo}

\* The places of the dead reports of a pair among the reports q.
DeadReports(q, c, t) ==
  {n \in DOMAIN q : q[n].kind = "DeadRung" /\ q[n].claimant = c /\ q[n].trigger = t}

\* As many reports as there are collisions walked.
CountInv ==
  /\ IsFiniteSet(WalkedPairs(ReservedPairs(ladder)))
  /\ IsFiniteSet(WalkedPairs(RepeatedPairs(ladder)))
  /\ IsFiniteSet(WalkedFallthrough)
  /\ Len(found) = Cardinality(WalkedPairs(ReservedPairs(ladder)))
                    + Cardinality(WalkedPairs(RepeatedPairs(ladder)))
                    + Cardinality(WalkedFallthrough)

\* Every row walked that lists a pair, but for the first, has its dead report.
RepeatInv ==
  \A c \in Claimant, t \in Trigger :
    /\ IsFiniteSet(Walked(c, t)) /\ IsFiniteSet(DeadReports(found, c, t))
    /\ Cardinality(DeadReports(found, c, t)) =
         IF Walked(c, t) = {} THEN 0 ELSE Cardinality(Walked(c, t)) - 1

-----------------------------------------------------------------------------
(* Properties.  The lint says nothing about resolution in its code: these  *)
(* say what its reports mean for Ladder::resolve.                          *)

Done == pc = "done"

CanWin(k, t) == \E s \in Situation : Wins(ladder, k, t, s)

CanWinWhileRunning(k, t) ==
  \E s \in Situation : s.work_running /\ Wins(ladder, k, t, s)

\* A DeadRung report is never a false alarm: some row below the one it names
\* repeats the pair, and no row below it that does can answer in any situation.
DeadRungsAreDead ==
  \A r \in Reports :
    r.kind = "DeadRung" =>
      LET c == r.claimant
          t == r.trigger
          f == r.shadowed_by
      IN  /\ Lists(f, c, t)
          /\ \E k \in DOMAIN ladder.rungs : f < k /\ Lists(k, c, t)
          /\ \A k \in DOMAIN ladder.rungs :
               f < k /\ Lists(k, c, t) => ~CanWin(k, t)

\* The lint misses no pair: one that no report names can answer while work
\* runs, and one that can answer in no situation at all is named a DeadRung.
UnreportedPairsCanFire ==
  Done =>
    \A k \in DOMAIN ladder.rungs : \A t \in ladder.rungs[k].triggers :
      LET c == ladder.rungs[k].claimant IN
      /\ CanWinWhileRunning(k, t)
           \/ Reported(ReservedByHatch(c, t))
           \/ \E f \in 1 .. k - 1 : Reported(DeadRung(c, t, f))
      /\ CanWin(k, t) \/ \E f \in 1 .. k - 1 : Reported(DeadRung(c, t, f))

\* Every collision is reported once, so that counting the reports counts the
\* collisions (which examples/gen_vectors.rs does): as many reports of a dead
\* pair as it has repeats, and as many in all as the table has collisions.
EveryCollisionReportedOnce ==
  Done =>
    \A c \in Claimant, t \in Trigger :
      LET rows == {k \in DOMAIN ladder.rungs : Lists(k, c, t)}
      IN  /\ Cardinality(DeadReports(found, c, t)) =
               IF rows = {} THEN 0 ELSE Cardinality(rows) - 1
          /\ Len(found) = CollisionCount(ladder)

\* The table without the dead pairs and the dead fallthrough triggers.
Pruned ==
  NewLadder(ladder.hatch,
            [k \in DOMAIN ladder.rungs |->
               [ladder.rungs[k] EXCEPT !.triggers =
                  {t \in @ : \A f \in 1 .. k - 1 :
                     ~Reported(DeadRung(ladder.rungs[k].claimant, t, f))}]],
            {t \in ladder.fallthrough : ~Reported(ReservedFallthrough(t))})

\* The table that also drops the reserved triggers the lint found in rungs.
PrunedOfReserved ==
  NewLadder(Pruned.hatch,
            [k \in DOMAIN Pruned.rungs |->
               [Pruned.rungs[k] EXCEPT !.triggers =
                  {t \in @ : ~Reported(ReservedByHatch(Pruned.rungs[k].claimant, t))}]],
            Pruned.fallthrough)

\* A reported row is harmless: an author who deletes the dead pairs and the
\* dead fallthrough triggers changes no answer, and one who also deletes the
\* reserved triggers from the rungs changes no answer given while work runs.
PruningIsHarmless ==
  Done =>
    \A t \in Trigger, s \in Situation :
      /\ Resolve(Pruned, t, s) = Resolve(ladder, t, s)
      /\ s.work_running => Resolve(PrunedOfReserved, t, s) = Resolve(ladder, t, s)
=============================================================================
