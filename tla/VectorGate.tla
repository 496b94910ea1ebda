------------------------------ MODULE VectorGate ------------------------------
(***************************************************************************)
(* How the two generated artifacts are kept in step with the code: a       *)
(* working tree in which the code, the table, the Lean model and the       *)
(* artifacts are edited and the generator is run, and may die between its  *)
(* two writes or inside one; the drift check of every push to main         *)
(* (src/scripts/check-vectors.sh, job `vectors` of ci.yml); and the Lean   *)
(* build of the pushes that touch formal/ (formal.yml).                    *)
(*                                                                         *)
(* What an edit makes of the code is one of three things: Ladder::resolve  *)
(* as it is, with the hatch branch below the rungs, or a generator that    *)
(* prints no grid.                                                         *)
(***************************************************************************)
EXTENDS Vectors

Codes == {"resolve", "hatch last", "no grid"}

Models == {"resolve", "hatch last"}

Files == {"json", "lean"}

\* What an artifact can hold: what some code prints for some table, the
\* output of a generator that prints no grid, or the beginning of a file.
NoGrid == [kind |-> "no grid"]
Torn == [kind |-> "torn"]
Output(code, table) == [kind |-> "printed", code |-> code, table |-> table]

\* The tables the generator does not refuse, of those whose names, the rogue's
\* included, are within its limit.
Accepted ==
  {l \in Tables : /\ CollisionCount(l) = 0 /\ CollisionCount(WithRogue(l)) = 1
                  /\ Probe \notin Named(l)}

Artifact ==
  {NoGrid, Torn} \cup [kind : {"printed"}, code : Codes \ {"no grid"}, table : Accepted]

VARIABLES
  tree,     \* the working tree
  gen,      \* the artifact the generator writes next, "idle" when it is not running
  pushed,   \* whether the tree is what was pushed to main last
  formal,   \* whether the last run of formal.yml was green
  head      \* formal/ as it was pushed last: the model and Vectors.lean

vars == <<tree, gen, pushed, formal, head>>

-----------------------------------------------------------------------------
(* What is in a file.                                                      *)

Document(x) == Doc(<<GridUnder(x.code, x.table), GridUnder(x.code, WithRogue(x.table))>>)

\* The text of an artifact, by what it says.
Text(f, x) ==
  IF x.kind # "printed" THEN x
  ELSE IF f = "json" THEN Document(x) ELSE Lean(Document(x))

\* The pairs that `diff` finds no difference between, as that file.  (TLC
\* evaluates a set of this form once, before it explores.)
Alike ==
  {p \in {<<f, x, y>> : f \in Files, x \in Artifact, y \in Artifact} :
     Text(p[1], p[2]) = Text(p[1], p[3])}

\* The models and the files with which Lean proves what the file states.
Proved ==
  {p \in {<<m, x>> : m \in Models, x \in Artifact \ {NoGrid, Torn}} :
     LakeBuild(p[1], Lean(Document(p[2])))}

Fresh(t) == IF t.code = "no grid" THEN NoGrid ELSE Output(t.code, t.table)

-----------------------------------------------------------------------------
(* The checks.                                                             *)

Differs(t, f) == <<f, t.art[f], Fresh(t)>> \notin Alike

\* A slip, no part of the specification: the lines are not counted.
CheckAnyLength(t) ==
  LET runs  == t.table \in Accepted
      stale == IF runs THEN {f \in Files : Differs(t, f)} ELSE {}
  IN  [passed |-> runs /\ stale = {}, named |-> stale]

\* A generator that panics or prints under 100 lines ends the check before
\* anything is compared; otherwise both files are, whatever the first one shows.
CheckVectors(t) ==
  LET whole == t.table \in Accepted /\ Fresh(t) # NoGrid
      stale == IF whole THEN {f \in Files : Differs(t, f)} ELSE {}
  IN  [passed |-> whole /\ stale = {}, named |-> stale]

\* What a push changes under formal/ is the model, Vectors.lean, or both.
Formal(t) == [model |-> t.model, lean |-> t.art["lean"]]

\* A slip, no part of the specification: a filter without the generated file.
FormalRunsForTheModel == tree.model # head.model

\* formal.yml has a paths filter, and ci.yml has none: its job `vectors` runs
\* CheckVectors whatever a push to main has changed.
FormalRuns == Formal(tree) # head

\* A beginning of Vectors.lean may build, or not.
LakeOutcomes(t) ==
  CASE t.art["lean"] = NoGrid -> {TRUE}
    [] t.art["lean"] = Torn -> BOOLEAN
    [] OTHER -> {(<<t.model, t.art["lean"]>> \in Proved)}

-----------------------------------------------------------------------------
(* The tree.                                                               *)

\* A repository that has passed its checks.
Init ==
  /\ \E l \in Accepted :
       LET x == Output("resolve", l) IN
       /\ <<"resolve", x>> \in Proved
       /\ tree = [code |-> "resolve", model |-> "resolve", table |-> l,
                  art |-> [f \in Files |-> x]]
  /\ gen = "idle"
  /\ pushed = TRUE /\ formal = TRUE
  /\ head = Formal(tree)

Edit ==
  /\ gen = "idle"
  /\ \/ \E c \in Codes : tree' = [tree EXCEPT !.code = c]
     \/ \E m \in Models : tree' = [tree EXCEPT !.model = m]
     \/ \E l \in Tables : tree' = [tree EXCEPT !.table = l]
     \/ \E f \in Files, x \in Artifact : tree' = [tree EXCEPT !.art[f] = x]
  /\ pushed' = FALSE
  /\ UNCHANGED <<gen, formal, head>>

\* `just gen-vectors`, on a table that is not refused: it writes the JSON
\* first.
Generate ==
  /\ gen = "idle" /\ tree.table \in Accepted
  /\ gen' = "json"
  /\ UNCHANGED <<tree, pushed, formal, head>>

\* A slip, no part of the specification: the generator does not come to an end.
WriteAgain ==
  /\ gen \in Files
  /\ tree' = [tree EXCEPT !.art[gen] = Fresh(tree)]
  /\ gen' = IF gen = "json" THEN "lean" ELSE "json, again"
  /\ pushed' = FALSE
  /\ UNCHANGED <<formal, head>>

Write ==
  /\ gen \in Files
  /\ tree' = [tree EXCEPT !.art[gen] = Fresh(tree)]
  /\ gen' = IF gen = "json" THEN "lean" ELSE "idle"
  /\ pushed' = FALSE
  /\ UNCHANGED <<formal, head>>

\* It dies before it opens the file, or with the file truncated.
Die ==
  /\ gen \in Files
  /\ tree' \in {tree, [tree EXCEPT !.art[gen] = Torn]}
  /\ gen' = "idle"
  /\ pushed' = FALSE
  /\ UNCHANGED <<formal, head>>

\* A push to main, of which both workflows hear.  (ci.yml hears of no other
\* branch, and of a pull request against main both hear.)
Push ==
  /\ IF FormalRuns THEN formal' \in LakeOutcomes(tree) ELSE formal' = formal
  /\ head' = Formal(tree)
  /\ pushed' = TRUE
  /\ UNCHANGED <<tree, gen>>

Next == Edit \/ Generate \/ Write \/ Die \/ Push

Spec == Init /\ [][Next]_vars

-----------------------------------------------------------------------------
(* Properties.                                                             *)

Tree == [code : Codes, model : Models, table : Tables, art : [Files -> Artifact]]

TypeOK ==
  /\ tree \in Tree
  /\ gen \in Files \cup {"idle"}
  /\ {pushed, formal} \subseteq BOOLEAN
  /\ head \in [model : Models, lean : Artifact]

\* The drift check, in any tree: green means that both files, to the last line,
\* are the output of one run of the tree's code on the tree's table, and that it
\* holds a grid.  A generator that died, a file put back, or one that prints
\* nothing and agrees with itself never is; and when the generator works, a red
\* check names each file that is stale and no other.
CheckIsExact ==
  LET whole(f) == /\ tree.art[f].kind = "printed" /\ tree.art[f].table = tree.table
                  /\ \A l \in {tree.table, WithRogue(tree.table)},
                        t \in Trigger, s \in Situation :
                       Answer(tree.art[f].code, l, t, s) = Answer(tree.code, l, t, s)
      works == tree.code # "no grid" /\ tree.table \in Accepted
      check == CheckVectors(tree)
  IN  /\ check.passed <=> works /\ \A f \in Files : whole(f)
      /\ works => check.named = {f \in Files : ~whole(f)}

\* What the vectors are for: when a push has a green drift check and the last
\* Lean build was green, the pushed code and the pushed model answer alike on
\* both tables, whatever is asked.  The Lean build was perhaps that of an
\* earlier push, of other code.
GreenTiesTheProofsToTheCode ==
  pushed /\ CheckVectors(tree).passed /\ formal =>
    \A l \in {tree.table, WithRogue(tree.table)}, t \in Trigger, s \in Situation :
      ModelAnswer(tree.model, l, t, s) = Answer(tree.code, l, t, s)
=============================================================================
