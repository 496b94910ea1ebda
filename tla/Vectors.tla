-------------------------------- MODULE Vectors --------------------------------
(***************************************************************************)
(* The golden vectors as data (src/examples/gen_vectors.rs): the hostile   *)
(* table made from the demo table, the inputs of a grid, the recorded      *)
(* cases, the document and its rendering for Lean; and what Lean is asked  *)
(* to prove of it with its own model of resolve (src/formal/Precedence).   *)
(*                                                                         *)
(* Both artifacts are read back as the data they render, so a file is the  *)
(* value it holds.                                                         *)
(***************************************************************************)
EXTENDS PrecedenceLadder, SequencesExt

CONSTANTS
  Rogue,     \* the claimant "rogue"
  ZZ,        \* the rogue rung's own trigger, "zz"
  Swallow,   \* its label
  Probe      \* UNBOUND_PROBE, "ctrl-x"

ASSUME RogueAssumption == Rogue \in Claimant /\ Swallow \in Action
ASSUME ProbeAssumption == {ZZ, Probe} \subseteq Trigger /\ ZZ # Probe

-----------------------------------------------------------------------------
(* Reading a table.                                                        *)

RogueRung(reserved) == NewRung(Rogue, <<reserved, ZZ>>, Swallow)

\* A slip, no part of the model: the rogue rung at the bottom.
WithRogueBelow(l) ==
  NewLadder(l.hatch, Append(l.rungs, RogueRung(Min(l.hatch.reserved))), l.fallthrough)

\* The first reserved trigger of a BTreeSet is its least.
WithRogue(l) ==
  NewLadder(l.hatch, <<RogueRung(Min(l.hatch.reserved))>> \o l.rungs, l.fallthrough)

\* A slip, no part of the model: names repeated as often as they have rows.
ClaimantsRepeated(l) == Claimants(l)

\* The elements of a finite set of numbers from the least to the greatest.
Ascending(S) ==
  [n \in 1 .. Cardinality(S) |-> CHOOSE x \in S : Cardinality({y \in S : y <= x}) = n]

\* The rungs whose claimant no rung above them has.
FirstRows(l) ==
  {i \in DOMAIN l.rungs : \A j \in 1 .. i - 1 : l.rungs[j].claimant # l.rungs[i].claimant}

\* The claimant names without repeats, in the order of their first rows.
ClaimantsOf(l) ==
  LET rows == Ascending(FirstRows(l))
  IN  [n \in DOMAIN rows |-> Claimants(l)[rows[n]]]

Named(l) ==
  l.hatch.reserved \cup l.fallthrough
    \cup UNION {l.rungs[i].triggers : i \in DOMAIN l.rungs}

\* The sets of a table have been built, so they are finite.
ASSUME NamedAssumption == \A l \in Tables : IsFiniteSet(Named(l))

\* The set of all named triggers as it iterates, and the probe after them.
TriggersOf(l) == Append(Ascending(Named(l)), Probe)

\* The names whose bit is set.
Live(names, b) == {names[i] : i \in {j \in DOMAIN names : (b \div 2^(j - 1)) % 2 = 1}}

\* The change of Ladder::resolve the vectors are there to expose: the hatch
\* branch below the rung scan.
HatchLast(l, t, s) ==
  IF Owners(l, t, s) # {} THEN Claimed(l.rungs[Min(Owners(l, t, s))])
  ELSE IF HatchFires(l, t, s) \/ FallsThrough(l, t, s) THEN Escape(l) ELSE Unbound

\* Ladder::resolve as the code at hand has it, "resolve" as it is or "hatch last"
\* after that change.
Answer(code, l, t, s) ==
  IF code = "hatch last" THEN HatchLast(l, t, s) ELSE Resolve(l, t, s)

-----------------------------------------------------------------------------
(* What is recorded.                                                       *)

\* A verdict as three flat fields, of which two are optional.
VerdictRec(v) ==
  [kind |-> v.kind, claimant |-> IF v.kind = "Claimed" THEN {v.claimant} ELSE {},
   action |-> VerdictAction(v)]

Case(t, s, v) ==
  [trigger |-> t, claiming |-> s.claiming, work_running |-> s.work_running,
   verdict |-> VerdictRec(v)]

\* The identity of a ladder or of the vectors; distinct values have distinct
\* ones, since the canonical form keeps every field and the order of the rungs.
ContentId(value) == [cid |-> value]

Grid(l, claimants, triggers, cases) ==
  [ladder |-> l, ladder_content_id |-> ContentId(l),
   claimants |-> claimants, triggers |-> triggers, cases |-> cases]

SCHEMA == 1

Doc(grids) ==
  LET vectors == [schema |-> SCHEMA, grids |-> grids] IN
  [content_id |-> ContentId(vectors), vectors |-> vectors]

\* The grid of a table under a code, each case at its input: what the walk comes
\* to.
GridUnder(code, l) ==
  LET inputs == Range(TriggersOf(l)) \X
                  [claiming : SUBSET Range(ClaimantsOf(l)), work_running : BOOLEAN]
  IN  Grid(l, ClaimantsOf(l), TriggersOf(l),
           [x \in inputs |-> Case(x[1], x[2], Answer(code, l, x[1], x[2]))])

-----------------------------------------------------------------------------
(* Vectors.lean.                                                           *)

\* The value of an optional field that is there.
Given(field) == CHOOSE x \in field : TRUE

\* "unrenderable verdict": the generator panics, so no file holds it.
Unrenderable == [kind |-> "Unrenderable"]

\* A slip, no part of the model: the two arguments of a claim, swapped.
LeanVerdictSwapped(r) ==
  CASE r.kind = "Claimed" /\ r.claimant # {} /\ r.action # {} ->
         [kind |-> "Claimed", claimant |-> Given(r.action), action |-> Given(r.claimant)]
    [] r.kind = "Escape" /\ r.action # {} -> [kind |-> "Escape", action |-> Given(r.action)]
    [] r.kind = "Unbound" -> Unbound
    [] OTHER -> Unrenderable

\* The match on the three flat fields, arm by arm.
LeanVerdict(r) ==
  CASE r.kind = "Claimed" /\ r.claimant # {} /\ r.action # {} ->
         [kind |-> "Claimed", claimant |-> Given(r.claimant), action |-> Given(r.action)]
    [] r.kind = "Escape" /\ r.action # {} -> [kind |-> "Escape", action |-> Given(r.action)]
    [] r.kind = "Unbound" -> Unbound
    [] OTHER -> Unrenderable

Kinds == {"Claimed", "Escape", "Unbound"}

Tally(cases) ==
  [k \in Kinds |-> Cardinality({i \in DOMAIN cases : cases[i].verdict.kind = k})]

\* The three definitions of a grid, and the counts its second theorem quotes.
LeanGrid(g) ==
  [ladder |-> g.ladder,
   reversed |-> WithRungs(g.ladder, Reverse(g.ladder.rungs)),
   cases |-> [i \in DOMAIN g.cases |->
                [situation |-> [claiming |-> g.cases[i].claiming,
                                work_running |-> g.cases[i].work_running],
                 trigger |-> g.cases[i].trigger,
                 expected |-> LeanVerdict(g.cases[i].verdict)]],
   distribution |-> Tally(g.cases)]

Lean(doc) ==
  [content_id |-> doc.content_id,
   grids |-> [i \in DOMAIN doc.vectors.grids |-> LeanGrid(doc.vectors.grids[i])]]

-----------------------------------------------------------------------------
(* Precedence.Basic, the model in Lean, and what `lake build` decides.     *)

FirstClaim(rungs, t, s) == SelectInSeq(rungs, LAMBDA r : Owns(r, t, s))

LeanResolve(l, t, s) ==
  LET first == FirstClaim(l.rungs, t, s) IN
  IF HatchFires(l, t, s) THEN Escape(l)
  ELSE IF first # 0 THEN Claimed(l.rungs[first])
  ELSE IF FallsThrough(l, t, s) THEN Escape(l) ELSE Unbound

\* The model at hand, after the same change or without it.
ModelAnswer(model, l, t, s) ==
  IF model = "hatch last" THEN HatchLast(l, t, s) ELSE LeanResolve(l, t, s)

Outcomes(model, l, cases) ==
  [i \in DOMAIN cases |-> ModelAnswer(model, l, cases[i].trigger, cases[i].situation)]

VectorsAgree(model, g) ==
  Outcomes(model, g.ladder, g.cases) = [i \in DOMAIN g.cases |-> g.cases[i].expected]

VerdictDistribution(model, g) ==
  LET answers == Outcomes(model, g.ladder, g.cases) IN
  g.distribution =
    [k \in Kinds |-> Cardinality({i \in DOMAIN answers : answers[i].kind = k})]

OrderIsLoadBearing(model, g) ==
  Outcomes(model, g.ladder, g.cases) # Outcomes(model, g.reversed, g.cases)

\* The theorems generated for the vectors.  Basic.lean has theorems of its own
\* about the model; whoever changes the model changes them with it, or the build
\* is red more often than here.
LakeBuild(model, lean) ==
  \A i \in DOMAIN lean.grids :
    /\ VectorsAgree(model, lean.grids[i])
    /\ VerdictDistribution(model, lean.grids[i])
    /\ OrderIsLoadBearing(model, lean.grids[i])
=============================================================================
