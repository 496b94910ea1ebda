------------------------------ MODULE GenVectors ------------------------------
(***************************************************************************)
(* The golden-vector generator (src/examples/gen_vectors.rs): it takes the *)
(* demo table, refuses one with collisions, puts a rogue rung on top of it *)
(* for a second, hostile table, and walks the whole input space of both    *)
(* through Ladder::resolve.  An assertion that fails ends the program.     *)
(*                                                                         *)
(* The vectors are the one tie between the Lean proofs and the Rust, so    *)
(* what matters is what they leave undecided.                              *)
(***************************************************************************)
EXTENDS Vectors

CONSTANT MaxClaimants   \* MAX_CLAIMANTS, 8 in the code

ASSUME MaxClaimantsAssumption == MaxClaimants \in Nat

VARIABLES
  demo,      \* the table of spec/vectors/newt_ladder.toml
  pc,        \* "demo", "rogue", "grid", "walk", "lean", "written" or "panicked"
  rogue,     \* the hostile table, the demo table before it is made
  grids,     \* the grids that are done
  claimants, \* the walk: the names whose subsets are walked
  triggers,  \* the walk: the triggers, in order
  bits,      \* the walk: the subset of the claimants, as a number
  at,        \* the walk: the position of the trigger
  cases      \* the walk: the cases so far

walk == <<claimants, triggers, bits, at, cases>>

genVars == <<demo, pc, rogue, grids, walk>>

-----------------------------------------------------------------------------
(* The program.                                                            *)

\* The demo table has been read: where from_toml refuses it, the program panics
\* before it comes here (LadderTable says which sources those are).
GenInit ==
  /\ demo \in Tables
  /\ pc = "demo"
  /\ rogue = demo
  /\ grids = <<>>
  /\ claimants = <<>> /\ triggers = <<>>
  /\ bits = 0 /\ at = 1 /\ cases = <<>>

Panic ==
  /\ pc' = "panicked"
  /\ UNCHANGED <<demo, rogue, grids, walk>>

RefuseDemo == pc = "demo" /\ CollisionCount(demo) # 0 /\ Panic

MakeRogue ==
  /\ pc = "demo" /\ CollisionCount(demo) = 0
  /\ rogue' = WithRogue(demo)
  /\ pc' = "rogue"
  /\ UNCHANGED <<demo, grids, walk>>

RefuseRogue == pc = "rogue" /\ CollisionCount(rogue) # 1 /\ Panic

AcceptRogue ==
  /\ pc = "rogue" /\ CollisionCount(rogue) = 1
  /\ pc' = "grid"
  /\ UNCHANGED <<demo, rogue, grids, walk>>

\* The table of the grid that comes next, and of each grid done.
TableOf(g) == IF g = 1 THEN demo ELSE rogue

Table == TableOf(Len(grids) + 1)

\* A slip, no part of the model: the limit itself is refused.
WalkableBelowLimit ==
  /\ Len(ClaimantsOf(Table)) < MaxClaimants
  /\ Probe \notin Named(Table)

Walkable ==
  /\ Len(ClaimantsOf(Table)) <= MaxClaimants
  /\ Probe \notin Named(Table)

RefuseGrid == pc = "grid" /\ Len(grids) < 2 /\ ~Walkable /\ Panic

BeginGrid ==
  /\ pc = "grid" /\ Len(grids) < 2 /\ Walkable
  /\ pc' = "walk"
  /\ claimants' = ClaimantsOf(Table) /\ triggers' = TriggersOf(Table)
  /\ bits' = 0 /\ at' = 1 /\ cases' = <<>>
  /\ UNCHANGED <<demo, rogue, grids>>

Subsets == 2^Len(claimants)

Record(t, s) == Case(t, s, Resolve(Table, t, s))

\* The two inner loops: a trigger, at work and then at rest.
ResolveNext ==
  LET s(w) == [claiming |-> Live(claimants, bits), work_running |-> w]
  IN  /\ pc = "walk" /\ bits < Subsets /\ at <= Len(triggers)
      /\ cases' = cases \o <<Record(triggers[at], s(TRUE)), Record(triggers[at], s(FALSE))>>
      /\ at' = at + 1
      /\ UNCHANGED <<demo, pc, rogue, grids, claimants, triggers, bits>>

\* A slip, no part of the specification: every other subset is left out.
NextSubsetButOne ==
  /\ pc = "walk" /\ bits < Subsets /\ at > Len(triggers)
  /\ bits' = bits + 2 /\ at' = 1
  /\ UNCHANGED <<demo, pc, rogue, grids, claimants, triggers, cases>>

NextSubset ==
  /\ pc = "walk" /\ bits < Subsets /\ at > Len(triggers)
  /\ bits' = bits + 1 /\ at' = 1
  /\ UNCHANGED <<demo, pc, rogue, grids, claimants, triggers, cases>>

WalkEnded == pc = "walk" /\ bits = Subsets

\* The assertion that the walk covered the input.  There is no step for its
\* failure: GridsDecideTheTable says that it holds whenever it is reached.
CoversAll == Len(cases) = Subsets * Len(triggers) * 2

EndGrid ==
  /\ WalkEnded /\ CoversAll
  /\ grids' = Append(grids, Grid(Table, claimants, triggers, cases))
  /\ pc' = "grid"
  /\ UNCHANGED <<demo, rogue, walk>>

\* The two artifacts, one after the other, of the one document Doc(grids).
WriteJson ==
  /\ pc = "grid" /\ Len(grids) = 2
  /\ pc' = "lean"
  /\ UNCHANGED <<demo, rogue, grids, walk>>

WriteLean ==
  /\ pc = "lean"
  /\ pc' = "written"
  /\ UNCHANGED <<demo, rogue, grids, walk>>

GenNext ==
  \/ RefuseDemo \/ MakeRogue
  \/ RefuseRogue \/ AcceptRogue
  \/ RefuseGrid \/ BeginGrid
  \/ ResolveNext \/ NextSubset
  \/ EndGrid
  \/ WriteJson \/ WriteLean

GenSpec == GenInit /\ [][GenNext]_genVars

-----------------------------------------------------------------------------
(* Properties.                                                             *)

GenTypeOK ==
  /\ {demo, rogue} \subseteq Ladder
  /\ pc \in {"demo", "rogue", "grid", "walk", "lean", "written", "panicked"}
  /\ Len(grids) \in 0 .. 2
  /\ claimants \in Seq(Claimant) /\ triggers \in Seq(Trigger)
  /\ bits \in 0 .. Subsets /\ at \in 1 .. Len(triggers) + 1
  /\ \A i \in DOMAIN cases :
       /\ cases[i].trigger \in Trigger /\ cases[i].claiming \in ClaimSet
       /\ \E v \in Verdict : cases[i].verdict = VerdictRec(v)

\* Finite vectors pin the function down: whatever else is claimed and whatever
\* other trigger is asked about, the answer is the one of exactly one recorded
\* case (the probe standing for the triggers the table does not name), though
\* rows may repeat a claimant and a trigger may be named in several places; and
\* the program's own count of the cases is never wrong.
GridsDecideTheTable ==
  /\ WalkEnded => CoversAll
  /\ pc = "written" => \A g \in DOMAIN grids :
       LET l == TableOf(g) IN
       \A t \in Trigger, s \in Situation :
         LET matches(c) ==
               /\ c.trigger = IF t \in Named(l) THEN t ELSE Probe
               /\ c.claiming = s.claiming \cap Range(Claimants(l))
               /\ c.work_running = s.work_running
             hits == {i \in DOMAIN grids[g].cases : matches(grids[g].cases[i])}
         IN  /\ Cardinality(hits) = 1
             /\ \A i \in hits : grids[g].cases[i].verdict = VerdictRec(Resolve(l, t, s))

Exposes(g) ==
  \E i \in DOMAIN grids[g].cases :
    LET c == grids[g].cases[i] IN
    c.verdict # VerdictRec(HatchLast(TableOf(g), c.trigger,
                  [claiming |-> c.claiming, work_running |-> c.work_running]))

\* Why there are two grids: the demo table's shows nothing of the order of the
\* branches, for any demo table the program accepts, and the rogue table's
\* always does; and its rogue rung is no dud, it wins its own trigger over any
\* claimant whenever it is live.  (Unless that trigger is the one the hatch
\* reserves: the program accepts such a demo table, and then its rogue rung has no
\* trigger of its own and wins at rest only.)
RogueGridExposesTheOrder ==
  pc = "written" =>
    /\ ~Exposes(1) /\ Exposes(2)
    /\ LET wins(c) == c.verdict = VerdictRec(Claimed(RogueRung(Min(demo.hatch.reserved))))
           tries   == {i \in DOMAIN grids[2].cases :
                         /\ grids[2].cases[i].trigger = ZZ
                         /\ Rogue \in grids[2].cases[i].claiming}
       IN  /\ tries # {}
           /\ \A i \in tries :
                \/ wins(grids[2].cases[i])
                \/ ZZ \in demo.hatch.reserved /\ grids[2].cases[i].work_running

\* A demo table with no collision is refused only for a clash with the names
\* the program brings along, or for its size.
CleanTablesAreAccepted ==
  pc = "panicked" /\ CollisionCount(demo) = 0 =>
    \/ ZZ \in demo.hatch.reserved
    \/ \E i \in DOMAIN demo.rungs :
         demo.rungs[i].claimant = Rogue /\ ZZ \in demo.rungs[i].triggers
    \/ Probe \in Named(demo)
    \/ Cardinality(Range(Claimants(demo)) \cup {Rogue}) > MaxClaimants

\* When the theorems generated for Lean hold: the recorded verdicts, carried
\* over into Lean, agree with its model and have the counts quoted, always; that
\* the order of the rungs is load-bearing is a theorem of exactly the demo
\* tables in which two rungs list a common trigger, and the generator does not
\* ask for one.
LeanProvesTablesWithAConflict ==
  pc = "written" =>
    LET lean == Lean(Doc(grids)) IN
    /\ \A g \in DOMAIN lean.grids :
         /\ VectorsAgree("resolve", lean.grids[g])
         /\ VerdictDistribution("resolve", lean.grids[g])
    /\ LakeBuild("resolve", lean) <=>
         \E i, j \in DOMAIN demo.rungs :
           i < j /\ demo.rungs[i].triggers \cap demo.rungs[j].triggers # {}
=============================================================================
