----------------------------- MODULE VectorProofs -----------------------------
(***************************************************************************)
(* The golden vectors, for any tables, triggers and claimants.  The        *)
(* generator's walk records every input of a table once; what it records   *)
(* decides the table's answers everywhere, and the hostile grid exposes    *)
(* the order of the branches.  The drift check is exact and, with the Lean *)
(* build, ties the proofs to the code.  GenVectors and VectorGate rest on  *)
(* the same facts about tables and their grids, and are proved together.   *)
(***************************************************************************)
EXTENDS GenVectors, VectorGate, TLAPS, FiniteSetTheorems, SequenceTheorems, WellFoundedInduction

USE TriggerAssumption, TablesAssumption, RogueAssumption, ProbeAssumption, NamedAssumption,
    MaxClaimantsAssumption

-----------------------------------------------------------------------------
(* Listing a finite set of numbers.                                        *)

\* Numbers are well-ordered: a set of them that is not empty has a least one.
LEMMA MinExists ==
  ASSUME NEW S, S \subseteq Nat, S # {}
  PROVE  Min(S) \in S /\ \A x \in S : Min(S) <= x
<1>1. PICK m \in S : \A x \in S : ~(<<x, m>> \in OpToRel(<, Nat))
  BY NatLessThanWellFounded, WFMin
<1>2. ASSUME NEW x \in S, x < m
      PROVE  <<x, m>> \in OpToRel(<, Nat)
  <2>1. <<x, m>> \in Nat \X Nat /\ <<x, m>>[1] < <<x, m>>[2]
    BY <1>2
  <2> QED BY <2>1, Zenon DEF OpToRel
<1>3. \A x \in S : ~(x < m)
  BY <1>1, <1>2, Zenon
<1>4. \A x \in S : m <= x
  BY <1>3
<1>5. \A x \in S : (\A y \in S : x <= y) => x = m
  BY <1>4
<1> QED BY <1>4, <1>5 DEF Min

\* How many elements of S there are up to x.
Rank(S, x) == Cardinality({y \in S : y <= x})

\* Ranks run from one to the size of the set, and each is of one element.
LEMMA RankIsBijective ==
  ASSUME NEW S, S \subseteq Nat, IsFiniteSet(S)
  PROVE  /\ Cardinality(S) \in Nat
         /\ \A x \in S : Rank(S, x) \in 1 .. Cardinality(S)
         /\ \A x, y \in S : Rank(S, x) = Rank(S, y) => x = y
         /\ \A n \in 1 .. Cardinality(S) : \E x \in S : Rank(S, x) = n
<1> DEFINE n == Cardinality(S)
           upTo(x) == {y \in S : y <= x}
           rank == [x \in S |-> Cardinality(upTo(x))]
<1>1. n \in Nat
  BY FS_CardinalityType
<1>2. ASSUME NEW x \in S
      PROVE  /\ IsFiniteSet(upTo(x)) /\ Cardinality(upTo(x)) \in 1 .. n
             /\ rank[x] = Rank(S, x) /\ rank[x] = Cardinality(upTo(x))
  <2>1. upTo(x) \in SUBSET S /\ x \in upTo(x)
    OBVIOUS
  <2>2. IsFiniteSet(upTo(x)) /\ Cardinality(upTo(x)) <= n
    BY <2>1, FS_Subset
  <2>3. Cardinality(upTo(x)) \in Nat /\ Cardinality(upTo(x)) # 0
    BY <2>1, <2>2, FS_EmptySet, FS_CardinalityType
  <2> QED BY <1>1, <2>2, <2>3 DEF Rank
<1>3. ASSUME NEW x \in S, NEW y \in S, x < y
      PROVE  rank[x] # rank[y]
  <2>1. \A z \in S : z <= x => z <= y
    BY <1>3
  <2>3. y <= y /\ ~(y <= x)
    BY <1>3
  <2>4. upTo(x) \in SUBSET upTo(y) /\ y \in upTo(y) /\ y \notin upTo(x)
    BY <2>1, <2>3, Zenon
  <2>2. Cardinality(upTo(x)) # Cardinality(upTo(y))
    BY <1>2, <2>4, FS_Subset
  <2> QED BY <1>2, <2>2
<1>4. \A x, y \in S : rank[x] = rank[y] => x = y
  BY <1>3
<1>5. rank \in Injection(S, 1 .. n)
  <2>1. rank \in [S -> 1 .. n]
    BY <1>2
  <2> QED BY <1>4, <2>1 DEF Injection, IsInjective
<1>6. IsFiniteSet(1 .. n) /\ Cardinality(1 .. n) = n
  BY <1>1, FS_Interval
<1>7. rank \in Surjection(S, 1 .. n)
  BY <1>5, <1>6, FS_Injection
<1>8. \A k \in 1 .. n : \E x \in S : rank[x] = k
  BY <1>7 DEF Surjection
<1>9. \A x \in S : rank[x] = Rank(S, x) /\ rank[x] \in 1 .. n
  BY <1>2
<1> HIDE DEF rank
<1> QED BY <1>1, <1>4, <1>8, <1>9

\* A finite set in order lists its elements, each once, and no others.
LEMMA AscendingLists ==
  ASSUME NEW S, S \subseteq Nat, IsFiniteSet(S)
  PROVE  /\ Ascending(S) \in Seq(S) /\ DOMAIN Ascending(S) = 1 .. Cardinality(S)
         /\ Len(Ascending(S)) = Cardinality(S)
         /\ \A x \in S : \E n \in DOMAIN Ascending(S) : Ascending(S)[n] = x
         /\ \A m, n \in DOMAIN Ascending(S) : Ascending(S)[m] = Ascending(S)[n] => m = n
<1> DEFINE D == 1 .. Cardinality(S)
           nth(n) == CHOOSE x \in S : Rank(S, x) = n
<1>1. Cardinality(S) \in Nat /\ Ascending(S) = [n \in D |-> nth(n)]
  BY RankIsBijective DEF Ascending, Rank
<1>2. \A n \in D : nth(n) \in S /\ Rank(S, nth(n)) = n
  <2>1. \A n \in D : \E x \in S : Rank(S, x) = n
    BY RankIsBijective
  <2> QED BY <2>1, Zenon
<1>3. \A x \in S : Rank(S, x) \in D /\ nth(Rank(S, x)) = x
  BY <1>2, RankIsBijective
<1> HIDE DEF nth
<1> QED BY <1>1, <1>2, <1>3

-----------------------------------------------------------------------------
(* The two lists of a grid hold what they are read from.                   *)

\* The rungs of a table, one by one.
LEMMA RungsAreRungs ==
  ASSUME NEW l \in Ladder
  PROVE  /\ l.rungs \in Seq(Rung) /\ Len(l.rungs) \in Nat
         /\ DOMAIN l.rungs = 1 .. Len(l.rungs) /\ IsFiniteSet(DOMAIN l.rungs)
         /\ \A i \in DOMAIN l.rungs :
              /\ l.rungs[i] \in Rung /\ l.rungs[i].claimant \in Claimant
              /\ l.rungs[i].triggers \in SUBSET Trigger
<1>1. l.rungs \in Seq(Rung)
  BY DEF Ladder
<1>2. Len(l.rungs) \in Nat /\ DOMAIN l.rungs = 1 .. Len(l.rungs)
  BY <1>1
<1>3. IsFiniteSet(1 .. Len(l.rungs))
  BY <1>2, FS_Interval
<1>4. \A i \in DOMAIN l.rungs : l.rungs[i] \in Rung
  BY <1>1
<1> QED BY <1>1, <1>2, <1>3, <1>4 DEF Rung

\* Leaving out the repeats of a claimant leaves out no claimant.
LEMMA ClaimantsOfNamesAll ==
  ASSUME NEW l \in Ladder
  PROVE  Range(ClaimantsOf(l)) = {l.rungs[i].claimant : i \in DOMAIN l.rungs}
<1> DEFINE firsts == FirstRows(l)
           rows == Ascending(firsts)
           name(i) == l.rungs[i].claimant
<1>1. firsts \in SUBSET (DOMAIN l.rungs) /\ firsts \subseteq Nat /\ IsFiniteSet(firsts)
  <2>1. firsts \subseteq DOMAIN l.rungs
    BY DEF FirstRows
  <2> QED BY <2>1, RungsAreRungs, FS_Subset
<1>2. /\ rows \in Seq(firsts)
      /\ \A n \in DOMAIN rows : rows[n] \in firsts
      /\ \A i \in firsts : \E n \in DOMAIN rows : rows[n] = i
  <2>1. rows \in Seq(firsts) /\ \A i \in firsts : \E n \in DOMAIN rows : rows[n] = i
    BY <1>1, AscendingLists
  <2> QED BY <2>1
<1>3. \A i \in DOMAIN l.rungs : \E f \in firsts : name(f) = name(i)
  <2> SUFFICES ASSUME NEW i \in DOMAIN l.rungs
               PROVE  \E f \in firsts : name(f) = name(i)
    OBVIOUS
  <2> DEFINE same == {j \in DOMAIN l.rungs : name(j) = name(i)}
  <2>1. same \subseteq Nat /\ same # {}
    BY RungsAreRungs
  <2>2. Min(same) \in same /\ \A j \in same : Min(same) <= j
    BY <2>1, MinExists
  <2>3. ASSUME NEW j \in 1 .. Min(same) - 1
        PROVE  name(j) # name(Min(same))
    <3>1. j \in DOMAIN l.rungs /\ ~(Min(same) <= j)
      BY <2>2, RungsAreRungs
    <3> QED BY <3>1, <2>2
  <2>4. Min(same) \in firsts
    BY <2>2, <2>3 DEF FirstRows
  <2> QED BY <2>2, <2>4
<1>4. ClaimantsOf(l) = [n \in DOMAIN rows |-> Claimants(l)[rows[n]]]
  BY DEF ClaimantsOf
<1>5. \A i \in DOMAIN l.rungs : Claimants(l)[i] = name(i)
  BY DEF Claimants
<1> HIDE DEF firsts, rows, name
<1>6. Range(ClaimantsOf(l)) = {name(rows[n]) : n \in DOMAIN rows}
  <2>1. DOMAIN ClaimantsOf(l) = DOMAIN rows
    BY <1>4
  <2>2. \A n \in DOMAIN rows : ClaimantsOf(l)[n] = name(rows[n])
    BY <1>1, <1>2, <1>4, <1>5
  <2> QED BY <2>1, <2>2 DEF Range
<1>7. {name(rows[n]) : n \in DOMAIN rows} = {name(i) : i \in DOMAIN l.rungs}
  BY <1>1, <1>2, <1>3
<1> QED BY <1>6, <1>7 DEF name

\* The listed triggers are the named ones and the probe.
LEMMA TriggersOfNamesAll ==
  ASSUME NEW l \in Ladder, IsFiniteSet(Named(l))
  PROVE  Named(l) \subseteq Trigger /\ Range(TriggersOf(l)) = Named(l) \cup {Probe}
<1> DEFINE list == Ascending(Named(l))
<1>1. Named(l) \subseteq Trigger
  <2>1. l.hatch.reserved \subseteq Trigger /\ l.fallthrough \subseteq Trigger
    BY DEF Ladder, Hatch
  <2>2. \A i \in DOMAIN l.rungs : l.rungs[i].triggers \subseteq Trigger
    BY RungsAreRungs
  <2> QED BY <2>1, <2>2 DEF Named
<1>2. /\ list \in Seq(Named(l))
      /\ \A x \in Named(l) : \E n \in DOMAIN list : list[n] = x
  BY <1>1, AscendingLists
<1> HIDE DEF list
<1>3. /\ Len(list) \in Nat /\ DOMAIN list = 1 .. Len(list)
      /\ \A n \in DOMAIN list : list[n] \in Named(l)
  BY <1>2
<1>4. TriggersOf(l) = Append(list, Probe)
  BY DEF TriggersOf, list
<1>5. /\ DOMAIN TriggersOf(l) = 1 .. Len(list) + 1
      /\ TriggersOf(l)[Len(list) + 1] = Probe
      /\ \A n \in 1 .. Len(list) : TriggersOf(l)[n] = list[n]
  <2>1. list \in Seq(Trigger) /\ Probe \in Trigger
    BY <1>1, <1>2
  <2> QED BY <1>4, <2>1
<1>6. \A n \in DOMAIN TriggersOf(l) : TriggersOf(l)[n] \in Named(l) \cup {Probe}
  BY <1>3, <1>5
<1>7. \A x \in Named(l) \cup {Probe} : \E n \in DOMAIN TriggersOf(l) : TriggersOf(l)[n] = x
  BY <1>2, <1>3, <1>5
<1> QED BY <1>1, <1>6, <1>7 DEF Range

\* The hostile table is the table with one rung on top: of the rogue, and listing
\* its trigger and the least reserved one.
LEMMA WithRogueShape ==
  ASSUME NEW l \in Ladder
  PROVE  LET m == Min(l.hatch.reserved)
             r == RogueRung(m)
             w == WithRogue(l)
         IN  /\ m \in l.hatch.reserved /\ m \in Trigger /\ m \in Nat
             /\ \A n \in l.hatch.reserved : m <= n
             /\ r \in Rung /\ r.claimant = Rogue /\ r.triggers = {m, ZZ} /\ r.action = Swallow
             /\ w \in Ladder /\ w.hatch = l.hatch /\ w.fallthrough = l.fallthrough
             /\ Len(w.rungs) = Len(l.rungs) + 1 /\ w.rungs[1] = r
             /\ \A i \in DOMAIN l.rungs : w.rungs[i + 1] = l.rungs[i]
             /\ \A i \in DOMAIN w.rungs : i # 1 => i - 1 \in DOMAIN l.rungs
<1> DEFINE m == Min(l.hatch.reserved)
           r == RogueRung(m)
           w == WithRogue(l)
<1>1. l.hatch \in Hatch /\ l.fallthrough \in SUBSET Trigger
  BY DEF Ladder
<1>2. m \in l.hatch.reserved /\ m \in Trigger /\ \A n \in l.hatch.reserved : m <= n
  BY <1>1, MinExists DEF Hatch
<1>3. r.triggers = {m, ZZ} /\ r.claimant = Rogue /\ r.action = Swallow
  BY DEF RogueRung, NewRung
<1>4. r \in Rung
  <2>1. r = [claimant |-> r.claimant, triggers |-> r.triggers, action |-> r.action]
    BY DEF RogueRung, NewRung
  <2> QED BY <1>2, <1>3, <2>1 DEF Rung
<1> HIDE DEF m, r
<1>5. w = [hatch |-> l.hatch, rungs |-> <<r>> \o l.rungs, fallthrough |-> l.fallthrough]
  BY DEF WithRogue, NewLadder, m, r
<1>6. l.rungs \in Seq(Rung) /\ <<r>> \in Seq(Rung) /\ Len(l.rungs) \in Nat
      /\ DOMAIN l.rungs = 1 .. Len(l.rungs)
  BY <1>4, RungsAreRungs
<1>7. <<r>> \o l.rungs \in Seq(Rung)
  BY <1>6
<1>8. w \in Ladder
  BY <1>1, <1>5, <1>7 DEF Ladder
<1>9. /\ Len(<<r>> \o l.rungs) = Len(l.rungs) + 1 /\ (<<r>> \o l.rungs)[1] = r
      /\ \A i \in 1 .. Len(l.rungs) : (<<r>> \o l.rungs)[i + 1] = l.rungs[i]
  BY <1>6
<1>10. w.hatch = l.hatch /\ w.fallthrough = l.fallthrough /\ w.rungs = <<r>> \o l.rungs
  BY <1>5
<1> HIDE DEF w
<1>11. DOMAIN w.rungs = 1 .. Len(l.rungs) + 1
  BY <1>6, <1>7, <1>9, <1>10
<1>12. \A i \in DOMAIN w.rungs : i # 1 => i - 1 \in DOMAIN l.rungs
  BY <1>6, <1>11
<1>13. /\ Len(w.rungs) = Len(l.rungs) + 1 /\ w.rungs[1] = r
       /\ \A i \in DOMAIN l.rungs : w.rungs[i + 1] = l.rungs[i]
  BY <1>6, <1>9, <1>10
<1>14. m \in Nat
  BY <1>2
<1> QED BY <1>2, <1>3, <1>4, <1>8, <1>10, <1>12, <1>13, <1>14, Zenon DEF m, r, w

\* The hostile table names finitely many triggers when the table does, and it does
\* not name the probe when the table does not.
LEMMA WithRogueNames ==
  ASSUME NEW l \in Ladder, IsFiniteSet(Named(l))
  PROVE  /\ IsFiniteSet(Named(WithRogue(l))) /\ ZZ \in Named(WithRogue(l))
         /\ Named(l) \subseteq Named(WithRogue(l))
         /\ Named(WithRogue(l)) \subseteq Named(l) \cup {ZZ}
<1> DEFINE m == Min(l.hatch.reserved)
           w == WithRogue(l)
<1>1. /\ w \in Ladder /\ w.hatch = l.hatch /\ w.fallthrough = l.fallthrough
      /\ m \in l.hatch.reserved /\ Len(w.rungs) = Len(l.rungs) + 1
      /\ w.rungs[1].triggers = {m, ZZ}
      /\ \A i \in DOMAIN l.rungs : w.rungs[i + 1] = l.rungs[i]
      /\ \A i \in DOMAIN w.rungs : i # 1 => i - 1 \in DOMAIN l.rungs
  BY WithRogueShape
<1> HIDE DEF m, w
<1>2. /\ DOMAIN w.rungs = 1 .. Len(l.rungs) + 1 /\ DOMAIN l.rungs = 1 .. Len(l.rungs)
      /\ Len(l.rungs) \in Nat
  BY <1>1, RungsAreRungs
<1>3. /\ l.hatch.reserved \subseteq Named(l) /\ l.fallthrough \subseteq Named(l)
      /\ \A i \in DOMAIN l.rungs : l.rungs[i].triggers \subseteq Named(l)
  BY DEF Named
<1>4. ASSUME NEW i \in DOMAIN w.rungs
      PROVE  w.rungs[i].triggers \subseteq Named(l) \cup {ZZ}
  <2>1. CASE i = 1
    BY <1>1, <1>3, <2>1
  <2>2. CASE i # 1
    <3>1. i - 1 \in DOMAIN l.rungs /\ (i - 1) + 1 = i
      BY <1>1, <1>2, <2>2
    <3>2. w.rungs[i] = l.rungs[i - 1]
      BY <1>1, <3>1
    <3> QED BY <1>3, <3>1, <3>2
  <2> QED BY <2>1, <2>2
<1>5. Named(w) = l.hatch.reserved \cup l.fallthrough
                   \cup UNION {w.rungs[i].triggers : i \in DOMAIN w.rungs}
  BY <1>1 DEF Named
<1>6. Named(w) \subseteq Named(l) \cup {ZZ}
  BY <1>3, <1>4, <1>5
<1>7. ZZ \in Named(w)
  <2>1. 1 \in DOMAIN w.rungs
    BY <1>2
  <2> QED BY <1>1, <1>5, <2>1
<1>8. ASSUME NEW i \in DOMAIN l.rungs
      PROVE  l.rungs[i].triggers \subseteq Named(w)
  <2>1. i + 1 \in DOMAIN w.rungs /\ w.rungs[i + 1] = l.rungs[i]
    BY <1>1, <1>2
  <2> QED BY <1>5, <2>1
<1>9. Named(l) \subseteq Named(w)
  BY <1>5, <1>8 DEF Named
<1>10. IsFiniteSet(Named(l) \cup {ZZ})
  BY FS_AddElement
<1> QED BY <1>6, <1>7, <1>9, <1>10, FS_Subset DEF w

-----------------------------------------------------------------------------
(* What an answer depends on.                                              *)

\* The first rung that owns the trigger is a rung of the table that does.
LEMMA FirstOwner ==
  ASSUME NEW l \in Ladder, NEW t, NEW s, Owners(l, t, s) # {}
  PROVE  Min(Owners(l, t, s)) \in DOMAIN l.rungs
<1>1. Owners(l, t, s) \subseteq DOMAIN l.rungs /\ Owners(l, t, s) \subseteq Nat
  BY RungsAreRungs DEF Owners
<1> QED BY <1>1, MinExists

\* Every answer is a verdict.
LEMMA AnswerIsAVerdict ==
  ASSUME NEW code, NEW l \in Ladder, NEW t, NEW s
  PROVE  Answer(code, l, t, s) \in Verdict
<1> DEFINE i == Min(Owners(l, t, s))
<1>1. Escape(l) \in Verdict
  <2>1. l.hatch.action \in Action
    BY DEF Ladder, Hatch
  <2> QED BY <2>1 DEF Escape, Verdict
<1>2. Unbound \in Verdict
  BY DEF Verdict
<1>3. ASSUME Owners(l, t, s) # {}
      PROVE  Claimed(l.rungs[i]) \in Verdict
  <2>1. l.rungs[i] \in Rung
    BY <1>3, FirstOwner, RungsAreRungs
  <2>2. l.rungs[i].claimant \in Claimant /\ l.rungs[i].action \in Action
    BY <2>1 DEF Rung
  <2> QED BY <2>2 DEF Claimed, Verdict
<1> HIDE DEF i
<1>4. Resolve(l, t, s) \in Verdict
  BY <1>1, <1>2, <1>3 DEF Resolve, i
<1>5. HatchLast(l, t, s) \in Verdict
  BY <1>1, <1>2, <1>3 DEF HatchLast, i
<1> QED BY <1>4, <1>5 DEF Answer

\* Two inputs under which the hatch, the fallthrough and each rung are asked the
\* same are answered alike.
LEMMA SameQuestionsSameAnswer ==
  ASSUME NEW l, NEW t, NEW s, NEW t2, NEW s2,
         HatchFires(l, t, s) <=> HatchFires(l, t2, s2),
         FallsThrough(l, t, s) <=> FallsThrough(l, t2, s2),
         Owners(l, t, s) = Owners(l, t2, s2)
  PROVE  \A code : Answer(code, l, t, s) = Answer(code, l, t2, s2)
BY DEF Answer, Resolve, HatchLast

\* The inputs of a grid.
Inputs(l) ==
  Range(TriggersOf(l)) \X [claiming : SUBSET Range(ClaimantsOf(l)), work_running : BOOLEAN]

\* The input of the grid that stands for what is asked.
Recorded(l, t, s) ==
  <<IF t \in Named(l) THEN t ELSE Probe,
    [claiming |-> s.claiming \cap Range(ClaimantsOf(l)), work_running |-> s.work_running]>>

\* The finite grid of a table decides it: whatever is asked, an input of the grid
\* is answered the same way under every code.  A trigger the table does not name
\* is like the probe, and a claimant without a rung is like one that is idle.
LEMMA GridIsEnough ==
  ASSUME NEW l \in Ladder, IsFiniteSet(Named(l)), Probe \notin Named(l),
         NEW t \in Trigger, NEW s \in Situation
  PROVE  LET x == Recorded(l, t, s)
         IN  x \in Inputs(l) /\ \A code : Answer(code, l, t, s) = Answer(code, l, x[1], x[2])
<1> DEFINE names == {l.rungs[i].claimant : i \in DOMAIN l.rungs}
           t2 == IF t \in Named(l) THEN t ELSE Probe
           s2 == [claiming |-> s.claiming \cap names, work_running |-> s.work_running]
<1>1. t2 \in Named(l) \cup {Probe} /\ (t2 \in Named(l) <=> t \in Named(l))
      /\ (t \in Named(l) => t2 = t)
  OBVIOUS
<1>2. s2 \in [claiming : SUBSET names, work_running : BOOLEAN]
  BY DEF Situation
<1>3. s2.claiming = s.claiming \cap names /\ s2.work_running = s.work_running
  OBVIOUS
<1>4. <<t2, s2>> \in Inputs(l)
  BY <1>1, <1>2, ClaimantsOfNamesAll, TriggersOfNamesAll DEF Inputs
<1> HIDE DEF t2, s2
<1>5. \A U : U \subseteq Named(l) => (t \in U <=> t2 \in U)
  BY <1>1
<1>6. l.hatch.reserved \subseteq Named(l) /\ l.fallthrough \subseteq Named(l)
      /\ \A i \in DOMAIN l.rungs : l.rungs[i].triggers \subseteq Named(l)
  BY DEF Named
<1>7. HatchFires(l, t, s) <=> HatchFires(l, t2, s2)
  BY <1>3, <1>5, <1>6 DEF HatchFires
<1>8. FallsThrough(l, t, s) <=> FallsThrough(l, t2, s2)
  BY <1>3, <1>5, <1>6 DEF FallsThrough
<1>9. Owners(l, t, s) = Owners(l, t2, s2)
  <2>1. ASSUME NEW i \in DOMAIN l.rungs
        PROVE  Owns(l.rungs[i], t, s) <=> Owns(l.rungs[i], t2, s2)
    <3>1. t \in l.rungs[i].triggers <=> t2 \in l.rungs[i].triggers
      BY <1>5, <1>6
    <3>2. l.rungs[i].claimant \in s.claiming <=> l.rungs[i].claimant \in s2.claiming
      BY <1>3
    <3> QED BY <3>1, <3>2 DEF Owns
  <2> QED BY <2>1 DEF Owners
<1>10. \A code : Answer(code, l, t, s) = Answer(code, l, t2, s2)
  BY <1>7, <1>8, <1>9, SameQuestionsSameAnswer
<1>11. Recorded(l, t, s) = <<t2, s2>>
  BY ClaimantsOfNamesAll DEF Recorded, t2, s2
<1> QED BY <1>4, <1>10, <1>11

\* The model in Lean looks for the first rung with a search of its own, and finds
\* the one the code stops at.
LEMMA ModelAnswersAsCode ==
  ASSUME NEW l \in Ladder, NEW t, NEW s, NEW model
  PROVE  ModelAnswer(model, l, t, s) = Answer(model, l, t, s)
<1> DEFINE first == FirstClaim(l.rungs, t, s)
           owners == Owners(l, t, s)
<1>1. owners = {i \in 1 .. Len(l.rungs) : Owns(l.rungs[i], t, s)}
  BY RungsAreRungs DEF Owners
<1>2. first = IF owners # {} THEN Min(owners) ELSE 0
  BY <1>1 DEF FirstClaim, SelectInSeq
<1>3. owners # {} => Min(owners) \in DOMAIN l.rungs
  BY FirstOwner
<1> HIDE DEF first, owners
<1>4. (first # 0 <=> owners # {}) /\ (owners # {} => first = Min(owners))
  BY <1>2, <1>3, RungsAreRungs
<1>5. LeanResolve(l, t, s) = Resolve(l, t, s)
  BY <1>4 DEF LeanResolve, Resolve, first, owners
<1> QED BY <1>5 DEF ModelAnswer, Answer

-----------------------------------------------------------------------------
(* What can be read back from what is recorded.                            *)

\* The three flat fields tell every two verdicts apart, and Lean gets back the
\* verdict that was printed.
LEMMA VerdictsReadBack ==
  /\ \A v, w \in Verdict : VerdictRec(v) = VerdictRec(w) => v = w
  /\ \A v \in Verdict : LeanVerdict(VerdictRec(v)) = v
<1>1. ASSUME NEW v \in Verdict, NEW w \in Verdict, VerdictRec(v) = VerdictRec(w)
      PROVE  v = w
  <2>1. /\ v.kind = w.kind /\ VerdictAction(v) = VerdictAction(w)
        /\ (IF v.kind = "Claimed" THEN {v.claimant} ELSE {})
             = (IF w.kind = "Claimed" THEN {w.claimant} ELSE {})
    BY <1>1 DEF VerdictRec
  <2>2. CASE v \in [kind : {"Claimed"}, claimant : Claimant, action : Action]
    BY <2>1, <2>2 DEF VerdictAction, Verdict, Unbound
  <2>3. CASE v \in [kind : {"Escape"}, action : Action]
    BY <2>1, <2>3 DEF VerdictAction, Verdict, Unbound
  <2>4. CASE v = Unbound
    BY <2>1, <2>4 DEF Verdict, Unbound
  <2> QED BY <2>2, <2>3, <2>4 DEF Verdict
<1>2. ASSUME NEW v \in Verdict
      PROVE  LeanVerdict(VerdictRec(v)) = v
  <2> DEFINE r == VerdictRec(v)
  <2>1. \A x : Given({x}) = x
    BY DEF Given
  <2>2. CASE v \in [kind : {"Claimed"}, claimant : Claimant, action : Action]
    <3>1. r.kind = "Claimed" /\ r.claimant = {v.claimant} /\ r.action = {v.action}
      BY <2>2 DEF VerdictRec, VerdictAction
    <3>2. v = [kind |-> "Claimed", claimant |-> v.claimant, action |-> v.action]
      BY <2>2
    <3> HIDE DEF r
    <3>3. LeanVerdict(r) = [kind |-> "Claimed", claimant |-> v.claimant, action |-> v.action]
      BY <2>1, <3>1 DEF LeanVerdict
    <3> QED BY <3>2, <3>3 DEF r
  <2>3. CASE v \in [kind : {"Escape"}, action : Action]
    <3>1. r.kind = "Escape" /\ r.action = {v.action}
      BY <2>3 DEF VerdictRec, VerdictAction
    <3>2. v = [kind |-> "Escape", action |-> v.action]
      BY <2>3
    <3> HIDE DEF r
    <3>3. LeanVerdict(r) = [kind |-> "Escape", action |-> v.action]
      BY <2>1, <3>1 DEF LeanVerdict
    <3> QED BY <3>2, <3>3 DEF r
  <2>4. CASE v = Unbound
    <3>1. r.kind = "Unbound"
      BY <2>4 DEF VerdictRec, Unbound
    <3> HIDE DEF r
    <3>2. LeanVerdict(r) = Unbound
      BY <3>1 DEF LeanVerdict
    <3> QED BY <2>4, <3>2 DEF r
  <2> QED BY <2>2, <2>3, <2>4 DEF Verdict
<1> QED BY <1>1, <1>2

\* A table of which a grid can be printed.
Printable(l) == l \in Ladder /\ IsFiniteSet(Named(l)) /\ Probe \notin Named(l)

\* The generator prints grids of tables it accepts, and of no others.
LEMMA AcceptedIsPrintable ==
  ASSUME NEW l \in Accepted
  PROVE  l \in Tables /\ Printable(l) /\ Printable(WithRogue(l))
<1>1. l \in Tables /\ l \in Ladder /\ IsFiniteSet(Named(l)) /\ Probe \notin Named(l)
  BY DEF Accepted
<1> QED BY <1>1, WithRogueShape, WithRogueNames DEF Printable

\* Two codes answer alike, whatever is asked of the table.
AnswerAlike(c, d, l) ==
  \A t \in Trigger, s \in Situation : Answer(c, l, t, s) = Answer(d, l, t, s)

\* The inputs of a grid are inputs.
LEMMA InputsAreInputs ==
  ASSUME NEW l, Printable(l), NEW x \in Inputs(l)
  PROVE  /\ x[1] \in Trigger /\ x[2] \in Situation
         /\ x[2] = [claiming |-> x[2].claiming, work_running |-> x[2].work_running]
<1>1. l \in Ladder /\ IsFiniteSet(Named(l))
  BY DEF Printable
<1>2. Range(TriggersOf(l)) \subseteq Trigger
  BY <1>1, TriggersOfNamesAll
<1>3. Range(ClaimantsOf(l)) \subseteq Claimant
  BY <1>1, ClaimantsOfNamesAll, RungsAreRungs
<1>4. /\ x[1] \in Range(TriggersOf(l))
      /\ x[2] \in [claiming : SUBSET Range(ClaimantsOf(l)), work_running : BOOLEAN]
  BY DEF Inputs
<1>5. x[2].claiming \subseteq Claimant /\ x[2].work_running \in BOOLEAN
      /\ x[2] = [claiming |-> x[2].claiming, work_running |-> x[2].work_running]
  BY <1>3, <1>4
<1> QED BY <1>2, <1>4, <1>5 DEF Situation, ClaimSet

\* What is recorded at an input.
LEMMA GridRecords ==
  ASSUME NEW l, NEW c
  PROVE  /\ GridUnder(c, l).ladder = l
         /\ DOMAIN GridUnder(c, l).cases = Inputs(l)
         /\ \A x \in Inputs(l) :
              GridUnder(c, l).cases[x] = Case(x[1], x[2], Answer(c, l, x[1], x[2]))
<1> DEFINE recorded == [x \in Inputs(l) |-> Case(x[1], x[2], Answer(c, l, x[1], x[2]))]
<1>1. GridUnder(c, l) = Grid(l, ClaimantsOf(l), TriggersOf(l), recorded)
  BY DEF GridUnder, Inputs
<1>2. GridUnder(c, l).ladder = l /\ GridUnder(c, l).cases = recorded
  BY <1>1 DEF Grid
<1> QED BY <1>2

\* Two grids of a table are the same exactly when the codes answer alike.
LEMMA GridsTellCodesApart ==
  ASSUME NEW l, Printable(l), NEW c, NEW d
  PROVE  GridUnder(c, l) = GridUnder(d, l) <=> AnswerAlike(c, d, l)
<1>1. ASSUME GridUnder(c, l) = GridUnder(d, l), NEW t \in Trigger, NEW s \in Situation
      PROVE  Answer(c, l, t, s) = Answer(d, l, t, s)
  <2>1. PICK x \in Inputs(l) : \A code : Answer(code, l, t, s) = Answer(code, l, x[1], x[2])
    BY GridIsEnough, Zenon DEF Printable
  <2> DEFINE v == Answer(c, l, x[1], x[2])
             w == Answer(d, l, x[1], x[2])
  <2>2. Case(x[1], x[2], v) = Case(x[1], x[2], w)
    BY <1>1, GridRecords
  <2>3. v \in Verdict /\ w \in Verdict
    BY AnswerIsAVerdict DEF Printable
  <2> HIDE DEF v, w
  <2>4. VerdictRec(v) = VerdictRec(w)
    BY <2>2 DEF Case
  <2>5. v = w
    BY <2>3, <2>4, VerdictsReadBack
  <2> QED BY <2>1, <2>5 DEF v, w
<1>2. ASSUME AnswerAlike(c, d, l)
      PROVE  GridUnder(c, l) = GridUnder(d, l)
  <2>1. \A x \in Inputs(l) : Answer(c, l, x[1], x[2]) = Answer(d, l, x[1], x[2])
    BY <1>2, InputsAreInputs DEF AnswerAlike
  <2>2. [x \in Inputs(l) |-> Case(x[1], x[2], Answer(c, l, x[1], x[2]))]
          = [x \in Inputs(l) |-> Case(x[1], x[2], Answer(d, l, x[1], x[2]))]
    BY <2>1
  <2> QED BY <2>2 DEF GridUnder, Inputs
<1> QED BY <1>1, <1>2 DEF AnswerAlike

\* Two documents are the same exactly when they are of one table and the codes
\* answer alike on it and on the hostile one.
LEMMA DocumentsTellOutputsApart ==
  ASSUME NEW c, NEW d, NEW l \in Accepted, NEW k \in Accepted
  PROVE  Document(Output(c, l)) = Document(Output(d, k))
           <=> l = k /\ AnswerAlike(c, d, l) /\ AnswerAlike(c, d, WithRogue(l))
<1> DEFINE g(code, table) == <<GridUnder(code, table), GridUnder(code, WithRogue(table))>>
<1>1. Document(Output(c, l)) = Doc(g(c, l)) /\ Document(Output(d, k)) = Doc(g(d, k))
  BY DEF Document, Output
<1>2. ASSUME NEW p, NEW q
      PROVE  Doc(p) = Doc(q) <=> p = q
  <2>1. Doc(p).vectors.grids = p /\ Doc(q).vectors.grids = q
    BY DEF Doc
  <2> QED BY <2>1
<1>3. g(c, l) = g(d, k) <=> /\ GridUnder(c, l) = GridUnder(d, k)
                            /\ GridUnder(c, WithRogue(l)) = GridUnder(d, WithRogue(k))
  OBVIOUS
<1>4. GridUnder(c, l) = GridUnder(d, k) => l = k
  BY GridRecords
<1>5. Printable(l) /\ Printable(WithRogue(l))
  BY AcceptedIsPrintable
<1> HIDE DEF g
<1> QED BY <1>1, <1>2, <1>3, <1>4, <1>5, GridsTellCodesApart

-----------------------------------------------------------------------------
(* What `diff` and `lake build` come to.                                   *)

\* What an artifact holds, if neither no grid nor a beginning, some code printed.
LEMMA SomeCodePrinted ==
  ASSUME NEW x \in Artifact, x \notin {NoGrid, Torn}
  PROVE  \E c \in Codes, l \in Accepted : x = Output(c, l)
BY DEF Artifact, Output

\* A file that holds no grid is told from any that holds one, and two that hold
\* one differ unless one run of the generator could have written both.
LEMMA TextsTellFilesApart ==
  ASSUME NEW f \in Files, NEW c \in Codes, NEW k \in Accepted, NEW x \in Artifact
  PROVE  Text(f, x) = Text(f, Output(c, k))
           <=> /\ x.kind = "printed" /\ x.table = k
               /\ AnswerAlike(x.code, c, k) /\ AnswerAlike(x.code, c, WithRogue(k))
<1> DEFINE y == Output(c, k)
           printed(doc) == IF f = "json" THEN doc ELSE Lean(doc)
<1>1. Text(f, y) = printed(Document(y))
  BY DEF Text, Output
<1>2. ASSUME NEW p, NEW q
      PROVE  printed(Doc(p)) = printed(Doc(q)) <=> Doc(p) = Doc(q)
  <2>1. Lean(Doc(p)).content_id = Doc(p).content_id /\ Lean(Doc(q)).content_id = Doc(q).content_id
    BY DEF Lean
  <2>2. Doc(p).content_id = [cid |-> Doc(p).vectors] /\ Doc(q).content_id = [cid |-> Doc(q).vectors]
    BY DEF Doc, ContentId
  <2>3. Doc(p).content_id = Doc(q).content_id => Doc(p).vectors = Doc(q).vectors
    <3>1. Doc(p).content_id.cid = Doc(p).vectors /\ Doc(q).content_id.cid = Doc(q).vectors
      BY <2>2
    <3> QED BY <3>1
  <2>4. Doc(p).vectors = Doc(q).vectors => Doc(p) = Doc(q)
    BY DEF Doc
  <2> QED BY <2>1, <2>3, <2>4
<1>3. CASE x \in {NoGrid, Torn}
  <2>1. x.kind # "printed" /\ Text(f, x) = x /\ DOMAIN x = {"kind"}
    <3>1. NoGrid.kind # "printed" /\ DOMAIN NoGrid = {"kind"}
      BY DEF NoGrid
    <3>2. Torn.kind # "printed" /\ DOMAIN Torn = {"kind"}
      BY DEF Torn
    <3>3. x.kind # "printed" /\ DOMAIN x = {"kind"}
      BY <1>3, <3>1, <3>2
    <3> QED BY <3>3 DEF Text
  <2>2. "content_id" \in DOMAIN printed(Document(y))
    BY DEF Document, Doc, Lean
  <2>3. "content_id" \notin {"kind"}
    OBVIOUS
  <2> QED BY <1>1, <2>1, <2>2, <2>3
<1>4. CASE x \notin {NoGrid, Torn}
  <2>1. PICK d \in Codes, l \in Accepted : x = Output(d, l)
    BY <1>4, SomeCodePrinted
  <2>2. x.kind = "printed" /\ x.code = d /\ x.table = l
    BY <2>1 DEF Output
  <2>3. Text(f, x) = printed(Document(x))
    BY <2>2 DEF Text
  <2>4. printed(Document(x)) = printed(Document(y)) <=> Document(x) = Document(y)
    BY <1>2 DEF Document
  <2>5. Document(x) = Document(y)
          <=> l = k /\ AnswerAlike(d, c, l) /\ AnswerAlike(d, c, WithRogue(l))
    BY <2>1, DocumentsTellOutputsApart
  <2> QED BY <1>1, <2>2, <2>3, <2>4, <2>5
<1> QED BY <1>3, <1>4

\* A model with which the vectors of a grid agree answers everywhere as the code
\* that printed the grid.
LEMMA VectorsAgreeEverywhere ==
  ASSUME NEW l, Printable(l), NEW c, NEW m, VectorsAgree(m, LeanGrid(GridUnder(c, l)))
  PROVE  AnswerAlike(m, c, l)
<1> DEFINE g == GridUnder(c, l)
           lean == LeanGrid(g)
           row(x) == [situation |-> [claiming |-> g.cases[x].claiming,
                                     work_running |-> g.cases[x].work_running],
                      trigger |-> g.cases[x].trigger,
                      expected |-> LeanVerdict(g.cases[x].verdict)]
<1>1. lean.ladder = l /\ lean.cases = [x \in Inputs(l) |-> row(x)]
  BY GridRecords DEF LeanGrid
<1>2. ASSUME NEW x \in Inputs(l)
      PROVE  /\ lean.cases[x].trigger = x[1] /\ lean.cases[x].situation = x[2]
             /\ lean.cases[x].expected = Answer(c, l, x[1], x[2])
  <2>1. g.cases[x] = Case(x[1], x[2], Answer(c, l, x[1], x[2]))
    BY GridRecords
  <2>2. /\ g.cases[x].trigger = x[1] /\ g.cases[x].claiming = x[2].claiming
        /\ g.cases[x].work_running = x[2].work_running
        /\ g.cases[x].verdict = VerdictRec(Answer(c, l, x[1], x[2]))
    BY <2>1 DEF Case
  <2>3. LeanVerdict(VerdictRec(Answer(c, l, x[1], x[2]))) = Answer(c, l, x[1], x[2])
    BY VerdictsReadBack, AnswerIsAVerdict DEF Printable
  <2>4. lean.cases[x] = row(x)
    BY <1>1
  <2> HIDE DEF lean, g
  <2> QED BY <2>2, <2>3, <2>4, InputsAreInputs
<1> HIDE DEF lean, g
<1>3. DOMAIN lean.cases = Inputs(l)
  BY <1>1
<1>4. Outcomes(m, l, lean.cases) = [x \in Inputs(l) |-> lean.cases[x].expected]
  BY <1>1, <1>3 DEF VectorsAgree, lean, g
<1>5. \A x \in Inputs(l) : ModelAnswer(m, l, x[1], x[2]) = Answer(c, l, x[1], x[2])
  <2>1. Outcomes(m, l, lean.cases) = [x \in Inputs(l) |-> ModelAnswer(m, l, x[1], x[2])]
    BY <1>2, <1>3 DEF Outcomes
  <2> QED BY <1>2, <1>4, <2>1
<1>6. \A x \in Inputs(l) : Answer(m, l, x[1], x[2]) = Answer(c, l, x[1], x[2])
  BY <1>5, ModelAnswersAsCode DEF Printable
<1>7. ASSUME NEW t \in Trigger, NEW s \in Situation
      PROVE  Answer(m, l, t, s) = Answer(c, l, t, s)
  <2>1. PICK x \in Inputs(l) : \A code : Answer(code, l, t, s) = Answer(code, l, x[1], x[2])
    BY GridIsEnough, Zenon DEF Printable
  <2> QED BY <1>6, <2>1
<1> QED BY <1>7 DEF AnswerAlike

\* A file with which Lean proves a model's theorems is the output of a code that
\* the model answers alike, on both tables.
LEMMA ProvedAnswersAlike ==
  ASSUME NEW m, NEW x, <<m, x>> \in Proved
  PROVE  /\ x \in Artifact /\ x.kind = "printed" /\ x.table \in Accepted
         /\ AnswerAlike(m, x.code, x.table) /\ AnswerAlike(m, x.code, WithRogue(x.table))
<1>1. x \in Artifact \ {NoGrid, Torn} /\ LakeBuild(m, Lean(Document(x)))
  BY DEF Proved
<1>2. PICK c \in Codes, l \in Accepted : x = Output(c, l)
  BY <1>1, SomeCodePrinted
<1>3. x.kind = "printed" /\ x.code = c /\ x.table = l
  BY <1>2 DEF Output
<1> DEFINE both == <<GridUnder(c, l), GridUnder(c, WithRogue(l))>>
<1>4. Lean(Document(x)).grids = [i \in DOMAIN both |-> LeanGrid(both[i])]
  BY <1>3 DEF Lean, Document, Doc
<1>5. VectorsAgree(m, LeanGrid(GridUnder(c, l)))
      /\ VectorsAgree(m, LeanGrid(GridUnder(c, WithRogue(l))))
  <2>1. 1 \in DOMAIN both /\ 2 \in DOMAIN both
        /\ both[1] = GridUnder(c, l) /\ both[2] = GridUnder(c, WithRogue(l))
    OBVIOUS
  <2> HIDE DEF both
  <2> QED BY <1>1, <1>4, <2>1 DEF LakeBuild
<1>6. AnswerAlike(m, c, l) /\ AnswerAlike(m, c, WithRogue(l))
  BY <1>5, AcceptedIsPrintable, VectorsAgreeEverywhere
<1> QED BY <1>1, <1>3, <1>6

\* `diff` finds no difference between two files when their texts are the same.
LEMMA AlikeIsSameText ==
  ASSUME NEW f \in Files, NEW x \in Artifact, NEW y \in Artifact
  PROVE  <<f, x, y>> \in Alike <=> Text(f, x) = Text(f, y)
<1>1. <<f, x, y>> \in {<<h, v, w>> : h \in Files, v \in Artifact, w \in Artifact}
  OBVIOUS
<1> QED BY <1>1 DEF Alike

\* A file is whole: it holds a grid, of the tree's table, and answers as the
\* tree's code does.
Whole(t, f) ==
  /\ t.art[f].kind = "printed" /\ t.art[f].table = t.table
  /\ AnswerAlike(t.art[f].code, t.code, t.table)
  /\ AnswerAlike(t.art[f].code, t.code, WithRogue(t.table))

\* The files of a tree are artifacts.
LEMMA TreeFields ==
  ASSUME NEW t \in Tree
  PROVE  /\ t.code \in Codes /\ t.model \in Models /\ t.table \in Tables
         /\ t.art \in [Files -> Artifact] /\ \A f \in Files : t.art[f] \in Artifact
         /\ t = [code |-> t.code, model |-> t.model, table |-> t.table, art |-> t.art]
BY DEF Tree

\* Where the generator can print, a file differs from what it prints exactly when
\* it is not whole.
LEMMA DiffersIsExact ==
  ASSUME NEW t \in Tree, t.code # "no grid", t.table \in Accepted, NEW f \in Files
  PROVE  Differs(t, f) <=> ~Whole(t, f)
<1>1. t.code \in Codes /\ t.art[f] \in Artifact
  BY TreeFields
<1>2. Fresh(t) = Output(t.code, t.table)
  BY DEF Fresh
<1>3. Output(t.code, t.table) \in Artifact
  BY <1>1 DEF Output, Artifact
<1>4. Differs(t, f) <=> Text(f, t.art[f]) # Text(f, Output(t.code, t.table))
  BY <1>1, <1>2, <1>3, AlikeIsSameText DEF Differs
<1> DEFINE x == t.art[f]
<1> HIDE DEF x
<1>5. x \in Artifact
  BY <1>1 DEF x
<1>6. Text(f, x) = Text(f, Output(t.code, t.table))
        <=> /\ x.kind = "printed" /\ x.table = t.table
            /\ AnswerAlike(x.code, t.code, t.table)
            /\ AnswerAlike(x.code, t.code, WithRogue(t.table))
  BY <1>1, <1>5, TextsTellFilesApart
<1> QED BY <1>4, <1>6 DEF Whole, x

\* The drift check, in a tree of any kind.
LEMMA CheckFindsTheStale ==
  ASSUME NEW t \in Tree
  PROVE  LET works == t.code # "no grid" /\ t.table \in Accepted
         IN  /\ CheckVectors(t).passed <=> works /\ \A f \in Files : Whole(t, f)
             /\ works => CheckVectors(t).named = {f \in Files : ~Whole(t, f)}
<1> DEFINE works == t.code # "no grid" /\ t.table \in Accepted
           stale == {f \in Files : Differs(t, f)}
<1>1. t.table \in Accepted /\ Fresh(t) # NoGrid <=> works
  <2>1. Output(t.code, t.table).kind # NoGrid.kind
    BY DEF Output, NoGrid
  <2> QED BY <2>1 DEF Fresh
<1>2. CASE works
  <2>1. stale = {f \in Files : ~Whole(t, f)}
    BY <1>2, DiffersIsExact
  <2>2. CheckVectors(t) = [passed |-> stale = {}, named |-> stale]
    BY <1>1, <1>2 DEF CheckVectors
  <2>3. CheckVectors(t).passed = (stale = {}) /\ CheckVectors(t).named = stale
    BY <2>2
  <2> HIDE DEF stale
  <2>4. stale = {} <=> \A f \in Files : Whole(t, f)
    BY <2>1
  <2> QED BY <1>2, <2>1, <2>3, <2>4
<1>3. CASE ~works
  <2>1. CheckVectors(t).passed = FALSE
    BY <1>1, <1>3 DEF CheckVectors
  <2> QED BY <1>3, <2>1
<1> QED BY <1>2, <1>3

-----------------------------------------------------------------------------
(* The tree, the generator and the pushes.                                 *)

\* A generator that has begun runs on a table it accepts; what a green Lean build
\* was of is proved, unless the file holds no grid or is torn; and what was
\* pushed last is what the build saw last.
GateInv ==
  /\ TypeOK
  /\ gen \in Files => tree.table \in Accepted
  /\ formal => head.lean \in {NoGrid, Torn} \/ <<head.model, head.lean>> \in Proved
  /\ pushed => head = Formal(tree)

\* What a generator writes is an artifact.
LEMMA FreshIsAnArtifact ==
  ASSUME NEW t \in Tree, t.table \in Accepted
  PROVE  Fresh(t) \in Artifact
<1>1. t.code \in Codes
  BY TreeFields
<1>2. t.code # "no grid" => Output(t.code, t.table) \in Artifact
  BY <1>1 DEF Artifact, Output
<1> QED BY <1>2 DEF Fresh, Artifact

\* Writing one file leaves the rest of the tree as it is.
LEMMA WritingAFile ==
  ASSUME NEW t \in Tree, NEW f \in Files, NEW x \in Artifact
  PROVE  [t EXCEPT !.art[f] = x] \in Tree
<1> DEFINE art == [t.art EXCEPT ![f] = x]
<1>1. art \in [Files -> Artifact]
  BY TreeFields
<1>2. [t EXCEPT !.art[f] = x] = [t EXCEPT !.art = art]
  OBVIOUS
<1> HIDE DEF art
<1>3. [t EXCEPT !.art = art] = [code |-> t.code, model |-> t.model, table |-> t.table, art |-> art]
  BY TreeFields
<1>4. t.code \in Codes /\ t.model \in Models /\ t.table \in Tables
  BY TreeFields
<1> QED BY <1>1, <1>2, <1>3, <1>4 DEF Tree

\* What is pushed under formal/ is a model and an artifact.
LEMMA FormalIsTyped ==
  ASSUME NEW t \in Tree
  PROVE  /\ Formal(t) \in [model : Models, lean : Artifact]
         /\ Formal(t).model = t.model /\ Formal(t).lean = t.art["lean"]
<1>1. t.model \in Models /\ t.art["lean"] \in Artifact
  BY TreeFields DEF Files
<1> QED BY <1>1 DEF Formal

\* The tree the project starts from has passed its checks.
LEMMA InitEstablishesGateInv == Init => GateInv
<1> SUFFICES ASSUME Init
             PROVE  GateInv
  OBVIOUS
<1>1. PICK l \in Accepted :
        LET x == Output("resolve", l) IN
        /\ <<"resolve", x>> \in Proved
        /\ tree = [code |-> "resolve", model |-> "resolve", table |-> l,
                   art |-> [f \in Files |-> x]]
  BY DEF Init
<1> DEFINE x == Output("resolve", l)
<1>2. x \in Artifact
  BY DEF Artifact, Output, Codes
<1>3. l \in Tables /\ "resolve" \in Codes /\ "resolve" \in Models
  BY AcceptedIsPrintable DEF Codes, Models
<1> HIDE DEF x
<1>4. <<"resolve", x>> \in Proved
      /\ tree = [code |-> "resolve", model |-> "resolve", table |-> l, art |-> [f \in Files |-> x]]
  BY <1>1 DEF x
<1>5. [f \in Files |-> x] \in [Files -> Artifact]
  BY <1>2
<1>6. tree \in Tree
  BY <1>3, <1>4, <1>5 DEF Tree
<1>7. head = Formal(tree) /\ gen = "idle" /\ pushed = TRUE /\ formal = TRUE
  BY DEF Init
<1>8. gen \notin Files /\ TypeOK
  BY <1>6, <1>7, FormalIsTyped DEF TypeOK, Files
<1>9. head.model = "resolve" /\ head.lean = x
  <2>1. tree.model = "resolve" /\ tree.art["lean"] = x
    BY <1>4 DEF Files
  <2> QED BY <1>6, <1>7, <2>1, FormalIsTyped
<1> QED BY <1>4, <1>7, <1>8, <1>9 DEF GateInv

\* Every step keeps the invariant.
LEMMA NextKeepsGateInv == GateInv /\ [Next]_vars => GateInv'
<1> SUFFICES ASSUME GateInv, [Next]_vars
             PROVE  GateInv'
  OBVIOUS
<1>1. /\ tree \in Tree /\ gen \in Files \cup {"idle"}
      /\ pushed \in BOOLEAN /\ formal \in BOOLEAN
      /\ head \in [model : Models, lean : Artifact]
  BY DEF GateInv, TypeOK
<1>2. ASSUME tree' \in Tree, gen' = "idle", pushed' = FALSE, UNCHANGED <<formal, head>>
      PROVE  GateInv'
  <2>1. TypeOK'
    BY <1>1, <1>2 DEF TypeOK
  <2>2. gen' \notin Files
    BY <1>2 DEF Files
  <2> QED BY <1>2, <2>1, <2>2 DEF GateInv
<1>3. CASE Edit
  <2>1. gen' = "idle" /\ pushed' = FALSE /\ UNCHANGED <<formal, head>>
    BY <1>3 DEF Edit
  <2>2. ASSUME NEW c \in Codes, tree' = [tree EXCEPT !.code = c]
        PROVE  tree' \in Tree
    BY <1>1, <2>2 DEF Tree
  <2>3. ASSUME NEW m \in Models, tree' = [tree EXCEPT !.model = m]
        PROVE  tree' \in Tree
    BY <1>1, <2>3 DEF Tree
  <2>4. ASSUME NEW l \in Tables, tree' = [tree EXCEPT !.table = l]
        PROVE  tree' \in Tree
    BY <1>1, <2>4 DEF Tree
  <2>5. ASSUME NEW f \in Files, NEW x \in Artifact, tree' = [tree EXCEPT !.art[f] = x]
        PROVE  tree' \in Tree
    BY <1>1, <2>5, WritingAFile
  <2>6. tree' \in Tree
    BY <1>3, <2>2, <2>3, <2>4, <2>5 DEF Edit
  <2> QED BY <1>2, <2>1, <2>6
<1>4. CASE Generate
  BY <1>1, <1>4 DEF Generate, GateInv, TypeOK, Files
<1>5. CASE Write
  <2>1. gen \in Files /\ tree.table \in Accepted
    BY <1>5 DEF Write, GateInv
  <2>2. tree' = [tree EXCEPT !.art[gen] = Fresh(tree)]
        /\ pushed' = FALSE /\ UNCHANGED <<formal, head>>
        /\ gen' = IF gen = "json" THEN "lean" ELSE "idle"
    BY <1>5 DEF Write
  <2>3. tree' \in Tree
    BY <1>1, <2>1, <2>2, FreshIsAnArtifact, WritingAFile
  <2>4. tree'.table = tree.table
    BY <1>1, <2>2 DEF Tree
  <2>5. TypeOK'
    BY <1>1, <2>2, <2>3 DEF TypeOK, Files
  <2> QED BY <2>1, <2>2, <2>4, <2>5 DEF GateInv
<1>6. CASE Die
  <2>1. gen \in Files /\ gen' = "idle" /\ pushed' = FALSE /\ UNCHANGED <<formal, head>>
        /\ (tree' = tree \/ tree' = [tree EXCEPT !.art[gen] = Torn])
    BY <1>6 DEF Die
  <2>2. Torn \in Artifact
    BY DEF Artifact
  <2>3. tree' \in Tree
    BY <1>1, <2>1, <2>2, WritingAFile
  <2> QED BY <1>2, <2>1, <2>3
<1>7. CASE Push
  <2>1. head' = Formal(tree) /\ pushed' = TRUE /\ tree' = tree /\ gen' = gen
        /\ IF FormalRuns THEN formal' \in LakeOutcomes(tree) ELSE formal' = formal
    BY <1>7 DEF Push
  <2>2. head' = Formal(tree') /\ tree' \in Tree
    BY <1>1, <2>1
  <2>3. formal' \in BOOLEAN
    <3> DEFINE built == <<tree.model, tree.art["lean"]>> \in Proved
    <3>2. built \in BOOLEAN
      OBVIOUS
    <3>3. LakeOutcomes(tree) \in {{TRUE}, BOOLEAN, {built}}
      BY Zenon DEF LakeOutcomes
    <3> HIDE DEF built
    <3>1. LakeOutcomes(tree) \subseteq BOOLEAN
      BY <3>2, <3>3, Zenon
    <3> QED BY <1>1, <2>1, <3>1
  <2>4. TypeOK'
    BY <1>1, <2>1, <2>3, FormalIsTyped DEF TypeOK
  <2>5. head'.lean = tree.art["lean"] /\ head'.model = tree.model
    BY <1>1, <2>1, FormalIsTyped
  <2>6. ASSUME formal'
        PROVE  head'.lean \in {NoGrid, Torn} \/ <<head'.model, head'.lean>> \in Proved
    <3>1. CASE FormalRuns
      BY <2>1, <2>5, <2>6, <3>1 DEF LakeOutcomes
    <3>2. CASE ~FormalRuns
      BY <2>1, <2>6, <3>2 DEF FormalRuns, GateInv
    <3> QED BY <3>1, <3>2
  <2> QED BY <2>1, <2>2, <2>4, <2>6 DEF GateInv
<1>8. CASE UNCHANGED vars
  BY <1>8 DEF vars, GateInv, TypeOK, Formal
<1> QED BY <1>3, <1>4, <1>5, <1>6, <1>7, <1>8 DEF Next

\* A green Lean build is of the pair of model and vectors that was pushed then, and
\* every file holds what some run of the generator left there.
THEOREM GateInvariant == Spec => []GateInv
<1> QED BY InitEstablishesGateInv, NextKeepsGateInv, PTL DEF Spec

-----------------------------------------------------------------------------
(* The theorems on the drift check.                                        *)

\* Every tree that edits, the generator and its deaths lead to is a tree, with
\* artifacts that some code could have printed.
THEOREM TypeCorrect == Spec => []TypeOK
<1>1. GateInv => TypeOK
  BY DEF GateInv
<1> QED BY <1>1, GateInvariant, PTL

\* scripts/check-vectors.sh is green exactly when the generator works on the tree
\* and both files are, to the last answer on either table, what it prints; and
\* red it names the stale files and no other.
THEOREM DriftCheckIsExact == Spec => []CheckIsExact
<1>1. TypeOK => CheckIsExact
  <2> SUFFICES ASSUME tree \in Tree
               PROVE  CheckIsExact
    BY DEF TypeOK
  <2> DEFINE whole(f) == /\ tree.art[f].kind = "printed" /\ tree.art[f].table = tree.table
                         /\ \A l \in {tree.table, WithRogue(tree.table)},
                               t \in Trigger, s \in Situation :
                              Answer(tree.art[f].code, l, t, s) = Answer(tree.code, l, t, s)
             works == tree.code # "no grid" /\ tree.table \in Accepted
             check == CheckVectors(tree)
  <2>1. \A f \in Files : whole(f) <=> Whole(tree, f)
    BY DEF Whole, AnswerAlike
  <2>2. /\ check.passed <=> works /\ \A f \in Files : Whole(tree, f)
        /\ works => check.named = {f \in Files : ~Whole(tree, f)}
    BY CheckFindsTheStale
  <2> HIDE DEF whole, works, check
  <2>3. {f \in Files : ~Whole(tree, f)} = {f \in Files : ~whole(f)}
    BY <2>1
  <2>4. /\ check.passed <=> works /\ \A f \in Files : whole(f)
        /\ works => check.named = {f \in Files : ~whole(f)}
    BY <2>1, <2>2, <2>3
  <2> QED BY <2>4 DEF CheckIsExact, whole, works, check
<1> QED BY <1>1, TypeCorrect, PTL

\* With a green drift check on the push and a green last Lean build, the model
\* that Lean proves things of answers as the pushed code does, to everything that
\* can be asked: although the build saw only the finite grids, and may have been
\* that of an earlier push.
THEOREM GreenTies == Spec => []GreenTiesTheProofsToTheCode
<1>1. GateInv => GreenTiesTheProofsToTheCode
  <2> SUFFICES ASSUME GateInv, pushed, CheckVectors(tree).passed, formal
               PROVE  \A l \in {tree.table, WithRogue(tree.table)},
                         t \in Trigger, s \in Situation :
                        ModelAnswer(tree.model, l, t, s) = Answer(tree.code, l, t, s)
    BY DEF GreenTiesTheProofsToTheCode
  <2>1. tree \in Tree /\ head = Formal(tree)
    BY DEF GateInv, TypeOK
  <2>2. head.model = tree.model /\ head.lean = tree.art["lean"]
    BY <2>1, FormalIsTyped
  <2> DEFINE x == tree.art["lean"]
  <2> HIDE DEF x
  <2>3. /\ x.kind = "printed" /\ x.table = tree.table
        /\ AnswerAlike(x.code, tree.code, tree.table)
        /\ AnswerAlike(x.code, tree.code, WithRogue(tree.table))
    BY <2>1, CheckFindsTheStale DEF Whole, Files, x
  <2>4. NoGrid.kind # "printed" /\ Torn.kind # "printed"
    BY DEF NoGrid, Torn
  <2>5. <<tree.model, x>> \in Proved
    BY <2>2, <2>3, <2>4 DEF GateInv, x
  <2>6. AnswerAlike(tree.model, x.code, x.table)
        /\ AnswerAlike(tree.model, x.code, WithRogue(x.table))
    BY <2>5, ProvedAnswersAlike
  <2>7. tree.table \in Ladder /\ WithRogue(tree.table) \in Ladder
    BY <2>1, CheckFindsTheStale, AcceptedIsPrintable DEF Printable
  <2> QED BY <2>3, <2>6, <2>7, ModelAnswersAsCode DEF AnswerAlike
<1> QED BY <1>1, GateInvariant, PTL

-----------------------------------------------------------------------------
(* Subsets as numbers.                                                     *)

\* What the quotient is, in products.
LEMMA Quotient ==
  ASSUME NEW b \in Nat, NEW d \in Nat, d >= 1
  PROVE  /\ b \div d \in Nat /\ (b \div d) * d \in Nat
         /\ (b \div d) * d <= b /\ b < (b \div d) * d + d
<1>1. b \div d \in Nat /\ (b \div d) * d <= b /\ b < (b \div d) * d + d
  OBVIOUS
<1> DEFINE q == b \div d
<1> HIDE DEF q
<1>2. q \in Nat => q * d \in Nat
  OBVIOUS
<1> QED BY <1>1, <1>2 DEF q

\* There is only one quotient.
LEMMA QuotientIsUnique ==
  ASSUME NEW b \in Nat, NEW d \in Nat, NEW q \in Nat, q * d <= b, b < q * d + d
  PROVE  b \div d = q
<1> DEFINE r == b \div d
<1>1. \A m, n \in Nat : m < n => m * d + d <= n * d
  <2> SUFFICES ASSUME NEW m \in Nat, NEW n \in Nat, m < n
               PROVE  m * d + d <= n * d
    OBVIOUS
  <2>1. (m + 1) * d <= n * d
    OBVIOUS
  <2> QED BY <2>1
<1>2. d >= 1 /\ q * d \in Nat
  OBVIOUS
<1>3. r \in Nat /\ r * d \in Nat /\ r * d <= b /\ b < r * d + d
  BY <1>2, Quotient
<1> HIDE DEF r
<1>4. ~(r < q) /\ ~(q < r)
  BY <1>1, <1>2, <1>3
<1> QED BY <1>3, <1>4 DEF r

\* To divide by twice a number is to halve and then to divide by it.
LEMMA HalvingFirst ==
  ASSUME NEW b \in Nat, NEW d \in Nat, d >= 1
  PROVE  b \div (2 * d) = (b \div 2) \div d
<1> DEFINE h == b \div 2
           q == h \div d
<1>1. h \in Nat /\ h * 2 <= b /\ b < h * 2 + 2
  OBVIOUS
<1> HIDE DEF h
<1>2. q \in Nat /\ q * d \in Nat /\ q * d <= h /\ h < q * d + d
  BY <1>1, Quotient
<1> HIDE DEF q
<1>3. q * (2 * d) = 2 * (q * d)
  BY <1>2
<1>4. q * (2 * d) <= b /\ b < q * (2 * d) + 2 * d
  BY <1>1, <1>2, <1>3
<1>5. 2 * d \in Nat
  OBVIOUS
<1>6. b \div (2 * d) = q
  BY <1>2, <1>4, <1>5, QuotientIsUnique
<1> QED BY <1>6 DEF q, h

\* Each name doubles the number of subsets.
LEMMA PowersOfTwo ==
  ASSUME NEW n \in Nat
  PROVE  2^n \in Nat /\ 2^n >= 1 /\ 2^(n + 1) = 2 * 2^n
<1> DEFINE S == 1 .. n
           T == 1 .. n + 1
           Old == SUBSET S
           New == {U \cup {n + 1} : U \in Old}
           add == [U \in Old |-> U \cup {n + 1}]
<1>1. IsFiniteSet(S) /\ Cardinality(S) = n /\ IsFiniteSet(T) /\ Cardinality(T) = n + 1
  BY FS_Interval
<1>2. /\ IsFiniteSet(Old) /\ Cardinality(Old) = 2^n
      /\ Cardinality(SUBSET T) = 2^(n + 1)
  BY <1>1, FS_SUBSET
<1>3. Cardinality(Old) \in Nat /\ Cardinality(Old) # 0
  <2>1. {} \in Old
    OBVIOUS
  <2> QED BY <1>2, <2>1, FS_CardinalityType, FS_EmptySet
<1>4. n + 1 \notin S /\ T = S \cup {n + 1}
  OBVIOUS
<1> HIDE DEF S, T
<1>5. SUBSET T = Old \cup New
  <2>1. ASSUME NEW U \in SUBSET T, U \notin Old
        PROVE  U \in New
    <3>1. U \ {n + 1} \in Old /\ U = (U \ {n + 1}) \cup {n + 1}
      BY <1>4, <2>1
    <3> QED BY <3>1
  <2>2. Old \cup New \subseteq SUBSET T
    BY <1>4
  <2> QED BY <2>1, <2>2
<1>6. Old \cap New = {}
  BY <1>4
<1>7. add \in Bijection(Old, New)
  <2>1. add \in [Old -> New] /\ \A V \in New : \E U \in Old : add[U] = V
    OBVIOUS
  <2>2. \A U, V \in Old : add[U] = add[V] => U = V
    <3> SUFFICES ASSUME NEW U \in Old, NEW V \in Old, U \cup {n + 1} = V \cup {n + 1}
                 PROVE  U = V
      OBVIOUS
    <3>1. U = (U \cup {n + 1}) \ {n + 1} /\ V = (V \cup {n + 1}) \ {n + 1}
      BY <1>4
    <3> QED BY <3>1
  <2> QED BY <2>1, <2>2 DEF Bijection, Injection, Surjection, IsInjective
<1>8. IsFiniteSet(New) /\ Cardinality(New) = Cardinality(Old)
  BY <1>2, <1>7, FS_Bijection DEF ExistsBijection
<1> HIDE DEF Old, New, add
<1>9. Cardinality(SUBSET T) = Cardinality(Old) + Cardinality(Old)
  <2>1. Cardinality(Old \cup New) = Cardinality(Old) + Cardinality(New) - Cardinality({})
    BY <1>2, <1>6, <1>8, FS_Union
  <2>2. Cardinality({}) = 0
    BY FS_EmptySet
  <2>3. Cardinality(SUBSET T) = Cardinality(Old \cup New)
    BY <1>5, Zenon
  <2> QED BY <1>3, <1>8, <2>1, <2>2, <2>3
<1> QED BY <1>2, <1>3, <1>9

\* The bit at place k of a number.
Bit(b, k) == (b \div 2^k) % 2

\* The lowest bit is the remainder, and the others are those of the half.
LEMMA BitsOfTheHalf ==
  ASSUME NEW b \in Nat
  PROVE  /\ b \div 2 \in Nat /\ Bit(b, 0) \in 0 .. 1 /\ b = 2 * (b \div 2) + Bit(b, 0)
         /\ \A k \in Nat : Bit(b, k + 1) = Bit(b \div 2, k)
<1>1. b \div 2^0 = b
  <2>1. 2^0 = 1 /\ b * 1 = b
    OBVIOUS
  <2> QED BY <2>1, QuotientIsUnique
<1>2. b \div 2 \in Nat /\ b % 2 \in 0 .. 1 /\ b = 2 * (b \div 2) + (b % 2)
  OBVIOUS
<1>3. ASSUME NEW k \in Nat
      PROVE  Bit(b, k + 1) = Bit(b \div 2, k)
  <2>1. 2^k \in Nat /\ 2^k >= 1 /\ 2^(k + 1) = 2 * 2^k
    BY PowersOfTwo
  <2>2. b \div 2^(k + 1) = (b \div 2) \div 2^k
    BY <2>1, HalvingFirst
  <2> QED BY <2>2 DEF Bit
<1> QED BY <1>1, <1>2, <1>3 DEF Bit

\* Numbers below a power of two that have the same bits are the same.
LEMMA BitsDecide ==
  \A n \in Nat : \A b, c \in 0 .. 2^n - 1 :
    (\A k \in 0 .. n - 1 : Bit(b, k) = Bit(c, k)) => b = c
<1> DEFINE Decided(n) == \A b, c \in 0 .. 2^n - 1 :
                           (\A k \in 0 .. n - 1 : Bit(b, k) = Bit(c, k)) => b = c
           bad == {n \in Nat : ~Decided(n)}
<1> SUFFICES ASSUME bad # {}
             PROVE  FALSE
  OBVIOUS
<1>1. PICK m \in bad : \A k \in bad : m <= k
  <2>1. bad \subseteq Nat
    OBVIOUS
  <2> HIDE DEF bad
  <2> QED BY <2>1, MinExists
<1>2. Decided(0)
  <2>1. 2^0 = 1
    OBVIOUS
  <2> QED BY <2>1
<1>3. m \in Nat /\ ~Decided(m) /\ \A k \in Nat : ~Decided(k) => m <= k
  BY <1>1
<1> HIDE DEF bad, Decided
<1>4. PICK n \in Nat : n + 1 = m
  <2>1. m # 0
    BY <1>2, <1>3
  <2> QED BY <1>3, <2>1
<1>5. ~(m <= n)
  BY <1>3, <1>4
<1>6. Decided(n) /\ ~Decided(n + 1)
  BY <1>3, <1>4, <1>5
<1> USE DEF Decided
<1>7. PICK b \in 0 .. 2^(n + 1) - 1, c \in 0 .. 2^(n + 1) - 1 :
        (\A k \in 0 .. (n + 1) - 1 : Bit(b, k) = Bit(c, k)) /\ b # c
  BY <1>6
<1>8. 2^n \in Nat /\ 2^(n + 1) = 2 * 2^n
  BY PowersOfTwo
<1>9. b \in Nat /\ c \in Nat /\ b < 2 * 2^n /\ c < 2 * 2^n
  BY <1>8
<1>10. b \div 2 \in 0 .. 2^n - 1 /\ c \div 2 \in 0 .. 2^n - 1
  BY <1>8, <1>9
<1>11. \A k \in 0 .. n - 1 : Bit(b \div 2, k) = Bit(c \div 2, k)
  <2> SUFFICES ASSUME NEW k \in 0 .. n - 1
               PROVE  Bit(b \div 2, k) = Bit(c \div 2, k)
    OBVIOUS
  <2>1. k + 1 \in 0 .. (n + 1) - 1 /\ k \in Nat
    OBVIOUS
  <2>2. Bit(b, k + 1) = Bit(c, k + 1)
    BY <1>7, <2>1
  <2> QED BY <1>9, <2>1, <2>2, BitsOfTheHalf
<1>12. b \div 2 = c \div 2
  BY <1>10, <1>11, <1>6
<1>13. Bit(b, 0) = Bit(c, 0)
  BY <1>7
<1>14. b = 2 * (b \div 2) + Bit(b, 0) /\ c = 2 * (c \div 2) + Bit(c, 0)
  BY <1>9, BitsOfTheHalf
<1> QED BY <1>7, <1>12, <1>13, <1>14

\* A list without repeats has as many subsets as there are numbers with a bit for
\* each place, and each number is of one of them.
LEMMA LiveIsBijective ==
  ASSUME NEW X, NEW names \in Seq(X),
         \A i, j \in DOMAIN names : names[i] = names[j] => i = j
  PROVE  /\ 2^Len(names) \in Nat /\ 2^Len(names) >= 1
         /\ IsFiniteSet(Range(names)) /\ Cardinality(Range(names)) = Len(names)
         /\ \A b \in 0 .. 2^Len(names) - 1 : Live(names, b) \subseteq Range(names)
         /\ \A b, c \in 0 .. 2^Len(names) - 1 : Live(names, b) = Live(names, c) => b = c
         /\ \A U \in SUBSET Range(names) : \E b \in 0 .. 2^Len(names) - 1 : Live(names, b) = U
<1> DEFINE n == Len(names)
           N == 2^n
           D == 0 .. N - 1
           live == [b \in D |-> Live(names, b)]
<1>1. n \in Nat /\ DOMAIN names = 1 .. n
  OBVIOUS
<1> HIDE DEF n
<1>2. N \in Nat /\ N >= 1
  BY <1>1, PowersOfTwo
<1>3. IsFiniteSet(Range(names)) /\ Cardinality(Range(names)) = n
  <2>1. names \in Bijection(1 .. n, Range(names))
    BY <1>1 DEF Range, Bijection, Injection, Surjection, IsInjective
  <2>2. IsFiniteSet(1 .. n) /\ Cardinality(1 .. n) = n
    BY <1>1, FS_Interval
  <2> QED BY <2>1, <2>2, FS_Bijection DEF ExistsBijection
<1>4. ASSUME NEW b \in D
      PROVE  /\ Live(names, b) = {names[i] : i \in {j \in 1 .. n : Bit(b, j - 1) = 1}}
             /\ \A k \in Nat : Bit(b, k) \in 0 .. 1
  <2>1. Live(names, b) = {names[i] : i \in {j \in 1 .. n : Bit(b, j - 1) = 1}}
    BY <1>1 DEF Live, Bit
  <2>2. ASSUME NEW k \in Nat
        PROVE  Bit(b, k) \in 0 .. 1
    <3>1. b \in Nat /\ 2^k \in Nat /\ 2^k >= 1
      BY <1>2, PowersOfTwo
    <3>2. b \div 2^k \in Nat
      BY <3>1, Quotient
    <3> QED BY <3>2 DEF Bit
  <2> QED BY <2>1, <2>2
<1>5. \A b \in D : Live(names, b) \subseteq Range(names)
  BY <1>1, <1>4 DEF Range
<1>6. ASSUME NEW b \in D, NEW c \in D, Live(names, b) = Live(names, c)
      PROVE  b = c
  <2>1. ASSUME NEW j \in 1 .. n
        PROVE  /\ Bit(b, j - 1) = 1 <=> names[j] \in Live(names, b)
               /\ Bit(c, j - 1) = 1 <=> names[j] \in Live(names, c)
    BY <1>1, <1>4
  <2>2. ASSUME NEW k \in 0 .. n - 1
        PROVE  Bit(b, k) = Bit(c, k)
    <3>1. k + 1 \in 1 .. n /\ (k + 1) - 1 = k /\ k \in Nat
      BY <1>1
    <3>2. Bit(b, k) = 1 <=> Bit(c, k) = 1
      BY <1>6, <2>1, <3>1
    <3>3. Bit(b, k) \in 0 .. 1 /\ Bit(c, k) \in 0 .. 1
      BY <1>4, <3>1
    <3> QED BY <3>2, <3>3
  <2> QED BY <1>1, <2>2, BitsDecide
<1>7. live \in Injection(D, SUBSET Range(names))
  <2>1. live \in [D -> SUBSET Range(names)]
    BY <1>5
  <2>2. \A b, c \in D : live[b] = live[c] => b = c
    BY <1>6
  <2> HIDE DEF live, D
  <2> QED BY <2>1, <2>2 DEF Injection, IsInjective
<1>8. IsFiniteSet(D) /\ Cardinality(D) = N
  <2> HIDE DEF N
  <2>1. \A k \in Nat : k >= 1 => IsFiniteSet(0 .. k - 1) /\ Cardinality(0 .. k - 1) = k
    BY FS_Interval
  <2> QED BY <1>2, <2>1
<1>9. IsFiniteSet(SUBSET Range(names)) /\ Cardinality(SUBSET Range(names)) = N
  BY <1>3, FS_SUBSET
<1>10. live \in Surjection(D, SUBSET Range(names))
  BY <1>7, <1>8, <1>9, FS_Injection
<1>11. \A U \in SUBSET Range(names) : \E b \in D : live[b] = U
  BY <1>10 DEF Surjection
<1>12. \A U \in SUBSET Range(names) : \E b \in D : Live(names, b) = U
  BY <1>11
<1> QED BY <1>2, <1>3, <1>5, <1>6, <1>12 DEF n

\* The names of a table are listed once each.
LEMMA ClaimantsOfIsAList ==
  ASSUME NEW l \in Ladder
  PROVE  /\ ClaimantsOf(l) \in Seq(Claimant)
         /\ \A m, n \in DOMAIN ClaimantsOf(l) : ClaimantsOf(l)[m] = ClaimantsOf(l)[n] => m = n
<1> DEFINE firsts == FirstRows(l)
           rows == Ascending(firsts)
           name(i) == l.rungs[i].claimant
<1>1. firsts \subseteq DOMAIN l.rungs /\ firsts \subseteq Nat /\ IsFiniteSet(firsts)
  <2>1. firsts \subseteq DOMAIN l.rungs
    BY DEF FirstRows
  <2> QED BY <2>1, RungsAreRungs, FS_Subset
<1>2. /\ rows \in Seq(firsts) /\ DOMAIN rows = 1 .. Len(rows) /\ Len(rows) \in Nat
      /\ \A n \in DOMAIN rows : rows[n] \in firsts
      /\ \A m, n \in DOMAIN rows : rows[m] = rows[n] => m = n
  <2>1. rows \in Seq(firsts)
    BY <1>1, AscendingLists
  <2>2. \A m, n \in DOMAIN rows : rows[m] = rows[n] => m = n
    BY <1>1, AscendingLists
  <2> HIDE DEF rows
  <2> QED BY <2>1, <2>2
<1>3. \A i, j \in firsts : name(i) = name(j) => i = j
  <2> SUFFICES ASSUME NEW i \in firsts, NEW j \in firsts, i < j
               PROVE  name(i) # name(j)
    BY <1>1
  <2>1. i \in 1 .. j - 1
    BY <1>1, RungsAreRungs
  <2> QED BY <2>1 DEF FirstRows
<1>4. ClaimantsOf(l) = [n \in DOMAIN rows |-> Claimants(l)[rows[n]]]
  BY DEF ClaimantsOf
<1>5. \A i \in firsts : Claimants(l)[i] = name(i) /\ name(i) \in Claimant
  BY <1>1, RungsAreRungs DEF Claimants
<1> HIDE DEF firsts, rows, name
<1>6. /\ DOMAIN ClaimantsOf(l) = 1 .. Len(rows)
      /\ \A n \in 1 .. Len(rows) : ClaimantsOf(l)[n] = name(rows[n])
      /\ ClaimantsOf(l) \in [1 .. Len(rows) -> Claimant]
  BY <1>2, <1>4, <1>5
<1>7. ClaimantsOf(l) \in Seq(Claimant)
  BY <1>2, <1>6, SeqDef
<1> QED BY <1>2, <1>3, <1>6, <1>7

\* The triggers of a table are listed once each, and there is at least the probe.
LEMMA TriggersOfIsAList ==
  ASSUME NEW l \in Ladder, IsFiniteSet(Named(l))
  PROVE  /\ TriggersOf(l) \in Seq(Trigger) /\ Len(TriggersOf(l)) >= 1
         /\ Probe \notin Named(l) =>
              \A m, n \in DOMAIN TriggersOf(l) : TriggersOf(l)[m] = TriggersOf(l)[n] => m = n
<1> DEFINE list == Ascending(Named(l))
<1>1. Named(l) \subseteq Trigger /\ Named(l) \subseteq Nat
  BY TriggersOfNamesAll
<1>2. /\ list \in Seq(Named(l))
      /\ \A m, n \in DOMAIN list : list[m] = list[n] => m = n
  BY <1>1, AscendingLists
<1> HIDE DEF list
<1>3. TriggersOf(l) = Append(list, Probe)
  BY DEF TriggersOf, list
<1>4. list \in Seq(Trigger) /\ Probe \in Trigger /\ Len(list) \in Nat
  BY <1>1, <1>2
<1>5. TriggersOf(l) \in Seq(Trigger) /\ Len(TriggersOf(l)) = Len(list) + 1
  BY <1>3, <1>4
<1>6. ASSUME Probe \notin Named(l),
             NEW m \in DOMAIN TriggersOf(l), NEW n \in DOMAIN TriggersOf(l),
             TriggersOf(l)[m] = TriggersOf(l)[n]
      PROVE  m = n
  <2>1. m \in 1 .. Len(list) + 1 /\ n \in 1 .. Len(list) + 1
    BY <1>5
  <2>2. \A k \in 1 .. Len(list) : TriggersOf(l)[k] = list[k] /\ list[k] \in Named(l)
    BY <1>2, <1>3, <1>4
  <2>3. TriggersOf(l)[Len(list) + 1] = Probe
    BY <1>3, <1>4
  <2>4. DOMAIN list = 1 .. Len(list)
    BY <1>2
  <2> QED BY <1>2, <1>4, <1>6, <2>1, <2>2, <2>3, <2>4
<1> QED BY <1>4, <1>5, <1>6

-----------------------------------------------------------------------------
(* The generator's walk.                                                   *)

\* A case as it is recorded, and a grid.
CaseRecord ==
  [trigger : Trigger, claiming : ClaimSet, work_running : BOOLEAN,
   verdict : {VerdictRec(v) : v \in Verdict}]

GridRecord ==
  [ladder : Ladder, ladder_content_id : [cid : Ladder],
   claimants : Seq(Claimant), triggers : Seq(Trigger), cases : Seq(CaseRecord)]

\* What is recorded of a table at an input.
CaseOf(l, x) == Case(x[1], x[2], Resolve(l, x[1], x[2]))

\* Some cases are a grid's: one for each input of the table, and no other.
Enumerates(recorded, l) ==
  /\ \A i \in DOMAIN recorded : \E x \in Inputs(l) : recorded[i] = CaseOf(l, x)
  /\ \A x \in Inputs(l) : \E i \in DOMAIN recorded : recorded[i] = CaseOf(l, x)
  /\ \A i, k \in DOMAIN recorded :
       /\ recorded[i].trigger = recorded[k].trigger
       /\ recorded[i].claiming = recorded[k].claiming
       /\ recorded[i].work_running = recorded[k].work_running
       => i = k

\* The walk comes to the subset with number b and the trigger at j, at work or
\* not; and it has been there.
Walked(b, j, w) == <<triggers[j], [claiming |-> Live(claimants, b), work_running |-> w]>>

Before(b, j) == b < bits \/ (b = bits /\ j < at)

\* The walk so far: one case for each input it has been at, and no other.
WalkInv ==
  /\ Len(grids) < 2 /\ Probe \notin Named(Table)
  /\ claimants = ClaimantsOf(Table) /\ triggers = TriggersOf(Table)
  /\ bits = Subsets => at = 1
  /\ Len(cases) = 2 * (bits * Len(triggers) + (at - 1))
  /\ \A i \in DOMAIN cases :
       \E b \in 0 .. Subsets - 1, j \in DOMAIN triggers, w \in BOOLEAN :
         Before(b, j) /\ cases[i] = CaseOf(Table, Walked(b, j, w))
  /\ \A b \in 0 .. Subsets - 1, j \in DOMAIN triggers, w \in BOOLEAN :
       Before(b, j) => \E i \in DOMAIN cases : cases[i] = CaseOf(Table, Walked(b, j, w))
  /\ \A i, k \in DOMAIN cases :
       /\ cases[i].trigger = cases[k].trigger
       /\ cases[i].claiming = cases[k].claiming
       /\ cases[i].work_running = cases[k].work_running
       => i = k

\* The tables as each phase has found them, and the grids that are done.
PhaseInv ==
  /\ pc \in {"demo", "rogue"} => Len(grids) = 0
  /\ pc \in {"lean", "written"} => Len(grids) = 2
  /\ pc \in {"rogue", "grid", "walk", "lean", "written"} =>
       CollisionCount(demo) = 0 /\ rogue = WithRogue(demo)
  /\ pc \in {"grid", "walk", "lean", "written"} => CollisionCount(rogue) = 1

PanicInv ==
  pc = "panicked" =>
    \/ CollisionCount(demo) # 0 \/ CollisionCount(WithRogue(demo)) # 1
    \/ \E l \in {demo, WithRogue(demo)} :
         Len(ClaimantsOf(l)) > MaxClaimants \/ Probe \in Named(l)

GridsInv ==
  \A g \in DOMAIN grids :
    LET l == TableOf(g) IN
    /\ Probe \notin Named(l) /\ Enumerates(grids[g].cases, l)
    /\ grids[g] = Grid(l, ClaimantsOf(l), TriggersOf(l), grids[g].cases)

GenInv ==
  /\ GenTypeOK
  /\ demo \in Tables /\ rogue \in {demo, WithRogue(demo)}
  /\ grids \in Seq(GridRecord) /\ cases \in Seq(CaseRecord)
  /\ PhaseInv /\ PanicInv /\ GridsInv
  /\ pc = "walk" => WalkInv

\* A sequence with two more elements at its end.
LEMMA TwoMore ==
  ASSUME NEW S, NEW q \in Seq(S), NEW u \in S, NEW v \in S
  PROVE  /\ q \o <<u, v>> \in Seq(S) /\ Len(q) \in Nat
         /\ Len(q \o <<u, v>>) = Len(q) + 2
         /\ DOMAIN q = 1 .. Len(q) /\ DOMAIN (q \o <<u, v>>) = 1 .. Len(q) + 2
         /\ \A i \in 1 .. Len(q) : (q \o <<u, v>>)[i] = q[i]
         /\ (q \o <<u, v>>)[Len(q) + 1] = u /\ (q \o <<u, v>>)[Len(q) + 2] = v
OBVIOUS

\* What is recorded, field by field.
LEMMA CaseFields ==
  ASSUME NEW l \in Ladder, NEW t \in Trigger, NEW s \in Situation
  PROVE  /\ CaseOf(l, <<t, s>>) \in CaseRecord
         /\ CaseOf(l, <<t, s>>).trigger = t /\ CaseOf(l, <<t, s>>).claiming = s.claiming
         /\ CaseOf(l, <<t, s>>).work_running = s.work_running
         /\ CaseOf(l, <<t, s>>).verdict = VerdictRec(Resolve(l, t, s))
<1>1. Resolve(l, t, s) \in Verdict
  <2>1. Answer("resolve", l, t, s) \in Verdict
    BY AnswerIsAVerdict
  <2> QED BY <2>1 DEF Answer
<1> DEFINE v == Resolve(l, t, s)
<1>2. CaseOf(l, <<t, s>>) = Case(t, s, v)
  BY DEF CaseOf
<1> HIDE DEF v
<1>3. VerdictRec(v) \in {VerdictRec(w) : w \in Verdict}
  BY <1>1 DEF v
<1>4. s.claiming \in ClaimSet /\ s.work_running \in BOOLEAN
  BY DEF Situation
<1> QED BY <1>2, <1>3, <1>4 DEF Case, CaseRecord, v

\* The tables of a run are tables, and name finitely many triggers.
LEMMA TablesOfARun ==
  ASSUME demo \in Tables, rogue \in {demo, WithRogue(demo)}
  PROVE  /\ demo \in Ladder /\ IsFiniteSet(Named(demo))
         /\ rogue \in Ladder /\ IsFiniteSet(Named(rogue))
         /\ \A g : TableOf(g) \in Ladder /\ IsFiniteSet(Named(TableOf(g)))
<1>1. demo \in Ladder /\ IsFiniteSet(Named(demo))
  OBVIOUS
<1>2. rogue \in Ladder /\ IsFiniteSet(Named(rogue))
  BY <1>1, WithRogueShape, WithRogueNames
<1> QED BY <1>1, <1>2 DEF TableOf

\* The generator starts with no grid and nothing recorded.
LEMMA GenInitEstablishesInv == GenInit => GenInv
<1> SUFFICES ASSUME GenInit
             PROVE  GenInv
  OBVIOUS
<1>1. /\ demo \in Tables /\ pc = "demo" /\ rogue = demo /\ grids = <<>>
      /\ claimants = <<>> /\ triggers = <<>> /\ bits = 0 /\ at = 1 /\ cases = <<>>
  BY DEF GenInit
<1>2. demo \in Ladder
  BY <1>1
<1>3. 0 \in 0 .. Subsets
  BY <1>1, PowersOfTwo DEF Subsets
<1>4. GenTypeOK
  BY <1>1, <1>2, <1>3 DEF GenTypeOK
<1>5. grids \in Seq(GridRecord) /\ cases \in Seq(CaseRecord) /\ Len(grids) = 0
  BY <1>1
<1>6. GridsInv
  BY <1>1 DEF GridsInv
<1> QED BY <1>1, <1>4, <1>5, <1>6 DEF GenInv, PhaseInv, PanicInv

\* A step that leaves the grids and the walk alone.
LEMMA StepBetweenGrids ==
  ASSUME GenInv, UNCHANGED <<demo, grids, walk>>, rogue' \in {demo, WithRogue(demo)},
         pc' \in {"rogue", "grid", "lean", "written", "panicked"},
         pc # "demo" => rogue' = rogue, pc = "demo" => Len(grids) = 0,
         PhaseInv', PanicInv'
  PROVE  GenInv'
<1>1. demo' \in Tables /\ rogue' \in {demo', WithRogue(demo')}
  BY DEF GenInv
<1>2. demo' \in Ladder /\ rogue' \in Ladder
  BY TablesOfARun, WithRogueShape DEF GenInv
<1>3. Subsets' = Subsets
  BY DEF walk, Subsets
<1>4. GenTypeOK'
  BY <1>2, <1>3 DEF GenInv, GenTypeOK, walk
<1>5. GridsInv'
  <2>1. CASE pc = "demo"
    <3>1. grids' = <<>>
      BY <2>1 DEF GenInv
    <3> QED BY <3>1 DEF GridsInv
  <2>2. CASE pc # "demo"
    BY <2>2 DEF GenInv, GridsInv, TableOf
  <2> QED BY <2>1, <2>2
<1>6. grids' \in Seq(GridRecord) /\ cases' \in Seq(CaseRecord)
  BY DEF GenInv, walk
<1> QED BY <1>1, <1>4, <1>5, <1>6 DEF GenInv

\* The steps of main outside the two grids: the assertions on the tables and the
\* two writes.
LEMMA GenStepBetweenGrids ==
  ASSUME GenInv,
         RefuseDemo \/ MakeRogue \/ RefuseRogue \/ AcceptRogue \/ RefuseGrid
           \/ WriteJson \/ WriteLean
  PROVE  GenInv'
<1>1. rogue \in {demo, WithRogue(demo)} /\ PhaseInv
  BY DEF GenInv
<1>2. CASE RefuseDemo
  <2>1. PhaseInv' /\ PanicInv'
    BY <1>1, <1>2 DEF RefuseDemo, Panic, PhaseInv, PanicInv
  <2> QED BY <1>1, <1>2, <2>1, StepBetweenGrids DEF RefuseDemo, Panic, PhaseInv
<1>3. CASE MakeRogue
  <2>1. PhaseInv' /\ PanicInv'
    BY <1>1, <1>3 DEF MakeRogue, PhaseInv, PanicInv
  <2> QED BY <1>1, <1>3, <2>1, StepBetweenGrids DEF MakeRogue, PhaseInv
<1>4. CASE RefuseRogue
  <2>1. PhaseInv' /\ PanicInv'
    BY <1>1, <1>4 DEF RefuseRogue, Panic, PhaseInv, PanicInv
  <2> QED BY <1>1, <1>4, <2>1, StepBetweenGrids DEF RefuseRogue, Panic, PhaseInv
<1>5. CASE AcceptRogue
  <2>1. PhaseInv' /\ PanicInv'
    BY <1>1, <1>5 DEF AcceptRogue, PhaseInv, PanicInv
  <2> QED BY <1>1, <1>5, <2>1, StepBetweenGrids DEF AcceptRogue, PhaseInv
<1>6. CASE RefuseGrid
  <2>1. PhaseInv'
    BY <1>1, <1>6 DEF RefuseGrid, Panic, PhaseInv
  <2>2. Table \in {demo', WithRogue(demo')} /\ (Len(ClaimantsOf(Table)) > MaxClaimants \/ Probe \in Named(Table))
    <3>1. Table \in {demo, WithRogue(demo)}
      BY <1>1, <1>6 DEF RefuseGrid, PhaseInv, Table, TableOf
    <3>2. Len(ClaimantsOf(Table)) \in Nat
      BY <1>1, <3>1, TablesOfARun, WithRogueShape, ClaimantsOfIsAList DEF GenInv
    <3> QED BY <1>6, <3>1, <3>2 DEF RefuseGrid, Panic, Walkable
  <2>3. PanicInv'
    BY <2>2 DEF PanicInv
  <2> QED BY <1>1, <1>6, <2>1, <2>3, StepBetweenGrids DEF RefuseGrid, Panic, PhaseInv
<1>7. CASE WriteJson
  <2>1. PhaseInv' /\ PanicInv'
    BY <1>1, <1>7 DEF WriteJson, PhaseInv, PanicInv
  <2> QED BY <1>1, <1>7, <2>1, StepBetweenGrids DEF WriteJson, PhaseInv
<1>8. CASE WriteLean
  <2>1. PhaseInv' /\ PanicInv'
    BY <1>1, <1>8 DEF WriteLean, PhaseInv, PanicInv
  <2> QED BY <1>1, <1>8, <2>1, StepBetweenGrids DEF WriteLean, PhaseInv
<1> QED BY <1>2, <1>3, <1>4, <1>5, <1>6, <1>7, <1>8

\* What the walk goes by: the lists of its table, each without repeats, and the
\* number of subsets.
LEMMA ListsOfTheWalk ==
  ASSUME GenInv, pc = "walk"
  PROVE  /\ Table \in Ladder /\ IsFiniteSet(Named(Table)) /\ Probe \notin Named(Table)
         /\ claimants \in Seq(Claimant) /\ triggers \in Seq(Trigger)
         /\ Len(triggers) \in Nat /\ Len(triggers) >= 1 /\ DOMAIN triggers = 1 .. Len(triggers)
         /\ \A i, j \in DOMAIN triggers : triggers[i] = triggers[j] => i = j
         /\ Subsets \in Nat /\ Subsets >= 1
         /\ \A b, c \in 0 .. Subsets - 1 : Live(claimants, b) = Live(claimants, c) => b = c
         /\ \A b \in 0 .. Subsets - 1 : Live(claimants, b) \subseteq Range(claimants)
         /\ \A U \in SUBSET Range(claimants) : \E b \in 0 .. Subsets - 1 : Live(claimants, b) = U
<1>1. Table \in Ladder /\ IsFiniteSet(Named(Table)) /\ Probe \notin Named(Table)
      /\ claimants = ClaimantsOf(Table) /\ triggers = TriggersOf(Table)
  BY TablesOfARun DEF GenInv, WalkInv, Table
<1>2. /\ triggers \in Seq(Trigger) /\ Len(triggers) >= 1
      /\ \A i, j \in DOMAIN triggers : triggers[i] = triggers[j] => i = j
  BY <1>1, TriggersOfIsAList
<1>3. /\ claimants \in Seq(Claimant)
      /\ \A i, j \in DOMAIN claimants : claimants[i] = claimants[j] => i = j
  BY <1>1, ClaimantsOfIsAList
<1>4. Len(triggers) \in Nat /\ DOMAIN triggers = 1 .. Len(triggers)
  BY <1>2
<1> DEFINE n == Len(claimants)
<1>5. /\ 2^n \in Nat /\ 2^n >= 1
      /\ \A b, c \in 0 .. 2^n - 1 : Live(claimants, b) = Live(claimants, c) => b = c
      /\ \A b \in 0 .. 2^n - 1 : Live(claimants, b) \subseteq Range(claimants)
      /\ \A U \in SUBSET Range(claimants) : \E b \in 0 .. 2^n - 1 : Live(claimants, b) = U
  BY <1>3, LiveIsBijective, Zenon
<1>6. Subsets = 2^n
  BY DEF Subsets
<1> HIDE DEF n
<1> QED BY <1>1, <1>2, <1>3, <1>4, <1>5, <1>6, Zenon

\* An input the walk comes to, and what it records there.
LEMMA WalkedIsAnInput ==
  ASSUME GenInv, pc = "walk", NEW b \in 0 .. Subsets - 1, NEW j \in DOMAIN triggers, NEW w \in BOOLEAN
  PROVE  /\ Walked(b, j, w) \in Inputs(Table)
         /\ CaseOf(Table, Walked(b, j, w)) \in CaseRecord
         /\ CaseOf(Table, Walked(b, j, w)).trigger = triggers[j]
         /\ CaseOf(Table, Walked(b, j, w)).claiming = Live(claimants, b)
         /\ CaseOf(Table, Walked(b, j, w)).work_running = w
<1> DEFINE t == triggers[j]
           s == [claiming |-> Live(claimants, b), work_running |-> w]
<1>1. /\ Table \in Ladder /\ triggers \in Seq(Trigger)
      /\ Live(claimants, b) \subseteq Range(claimants)
      /\ claimants = ClaimantsOf(Table) /\ triggers = TriggersOf(Table)
  BY ListsOfTheWalk DEF GenInv, WalkInv
<1>2. Range(claimants) \subseteq Claimant
  BY <1>1, ClaimantsOfNamesAll, RungsAreRungs
<1>3. t \in Range(triggers) /\ t \in Trigger
  BY <1>1 DEF Range
<1>4. s.claiming = Live(claimants, b) /\ s.work_running = w
  OBVIOUS
<1>5. s \in Situation /\ s \in [claiming : SUBSET Range(claimants), work_running : BOOLEAN]
  BY <1>1, <1>2 DEF Situation, ClaimSet
<1>6. Walked(b, j, w) = <<t, s>>
  BY DEF Walked
<1> HIDE DEF t, s
<1>7. <<t, s>> \in Inputs(Table)
  BY <1>1, <1>3, <1>5 DEF Inputs
<1> DEFINE Fields(l, u, v) ==
             /\ CaseOf(l, <<u, v>>) \in CaseRecord
             /\ CaseOf(l, <<u, v>>).trigger = u /\ CaseOf(l, <<u, v>>).claiming = v.claiming
             /\ CaseOf(l, <<u, v>>).work_running = v.work_running
<1>8. Fields(Table, t, s)
  <2>1. \A l \in Ladder, u \in Trigger, v \in Situation : Fields(l, u, v)
    BY CaseFields
  <2> HIDE DEF Fields
  <2>2. Table \in Ladder /\ t \in Trigger /\ s \in Situation
    BY <1>1, <1>3, <1>5
  <2> QED BY <2>1, <2>2
<1> QED BY <1>4, <1>6, <1>7, <1>8 DEF t

\* The walk begins: nothing is recorded yet.
LEMMA BeginGridKeepsGenInv == GenInv /\ BeginGrid => GenInv'
<1> SUFFICES ASSUME GenInv, BeginGrid
             PROVE  GenInv'
  OBVIOUS
<1>1. /\ pc = "grid" /\ Len(grids) < 2 /\ Probe \notin Named(Table) /\ pc' = "walk"
      /\ claimants' = ClaimantsOf(Table) /\ triggers' = TriggersOf(Table)
      /\ bits' = 0 /\ at' = 1 /\ cases' = <<>>
      /\ demo' = demo /\ rogue' = rogue /\ grids' = grids
  BY DEF BeginGrid, Walkable
<1>2. Table' = Table /\ Table \in Ladder /\ IsFiniteSet(Named(Table))
  BY <1>1, TablesOfARun DEF GenInv, Table, TableOf
<1>3. claimants' \in Seq(Claimant) /\ triggers' \in Seq(Trigger) /\ Len(triggers') \in Nat /\ Len(triggers') >= 1
  BY <1>1, <1>2, ClaimantsOfIsAList, TriggersOfIsAList
<1>4. Subsets' \in Nat /\ Subsets' >= 1
  <2>1. Len(claimants') \in Nat
    BY <1>3
  <2> QED BY <2>1, PowersOfTwo DEF Subsets
<1>5. GenTypeOK'
  BY <1>1, <1>3, <1>4 DEF GenInv, GenTypeOK
<1>6. WalkInv'
  <2>1. \A b \in 0 .. Subsets' - 1, j \in DOMAIN triggers' : ~(b < bits' \/ (b = bits' /\ j < at'))
    BY <1>1, <1>3, <1>4
  <2>2. DOMAIN cases' = {} /\ Len(cases') = 0
    BY <1>1
  <2>3. 0 = 2 * (bits' * Len(triggers') + (at' - 1))
    BY <1>1, <1>3
  <2> QED BY <1>1, <1>2, <1>4, <2>1, <2>2, <2>3 DEF WalkInv, Before
<1>7. PhaseInv' /\ PanicInv' /\ GridsInv'
  BY <1>1 DEF GenInv, PhaseInv, PanicInv, GridsInv, TableOf
<1>8. cases' \in Seq(CaseRecord)
  BY <1>1
<1> QED BY <1>1, <1>5, <1>6, <1>7, <1>8 DEF GenInv

\* A step of the walk leaves all but the walk alone.
LEMMA StepOfTheWalk ==
  ASSUME GenInv, pc = "walk", UNCHANGED <<demo, pc, rogue, grids, claimants, triggers>>,
         bits' \in 0 .. Subsets, at' \in 1 .. Len(triggers) + 1, cases' \in Seq(CaseRecord),
         WalkInv'
  PROVE  GenInv'
<1>1. Subsets' = Subsets
  BY DEF Subsets
<1>2. \A i \in DOMAIN cases' : cases'[i] \in CaseRecord
  OBVIOUS
<1>3. \A r \in CaseRecord : r.trigger \in Trigger /\ r.claiming \in ClaimSet
                              /\ \E v \in Verdict : r.verdict = VerdictRec(v)
  BY DEF CaseRecord
<1>4. GenTypeOK'
  BY <1>1, <1>2, <1>3 DEF GenInv, GenTypeOK
<1>5. PhaseInv' /\ PanicInv' /\ GridsInv'
  BY DEF GenInv, PhaseInv, PanicInv, GridsInv, TableOf
<1> QED BY <1>4, <1>5 DEF GenInv

\* The two inner loops record two cases more, of an input that was not recorded.
LEMMA ResolveNextKeepsGenInv == GenInv /\ ResolveNext => GenInv'
<1> SUFFICES ASSUME GenInv, ResolveNext
             PROVE  GenInv'
  OBVIOUS
<1> DEFINE n == Len(cases)
           u == CaseOf(Table, Walked(bits, at, TRUE))
           v == CaseOf(Table, Walked(bits, at, FALSE))
<1>1. /\ pc = "walk" /\ bits < Subsets /\ at <= Len(triggers)
      /\ cases' = cases \o <<u, v>> /\ at' = at + 1
      /\ UNCHANGED <<demo, pc, rogue, grids, claimants, triggers, bits>>
  BY DEF ResolveNext, Record, CaseOf, Walked
<1>2. /\ Len(triggers) \in Nat /\ DOMAIN triggers = 1 .. Len(triggers) /\ Subsets \in Nat
      /\ \A i, j \in DOMAIN triggers : triggers[i] = triggers[j] => i = j
      /\ \A b, c \in 0 .. Subsets - 1 : Live(claimants, b) = Live(claimants, c) => b = c
  BY <1>1, ListsOfTheWalk
<1>3. /\ bits \in 0 .. Subsets - 1 /\ at \in DOMAIN triggers /\ bits \in Nat /\ at \in Nat
      /\ cases \in Seq(CaseRecord)
  BY <1>1, <1>2 DEF GenInv, GenTypeOK
<1>4. /\ u \in CaseRecord /\ u.trigger = triggers[at] /\ u.claiming = Live(claimants, bits)
      /\ u.work_running = TRUE
  BY <1>1, <1>3, WalkedIsAnInput
<1>5. /\ v \in CaseRecord /\ v.trigger = triggers[at] /\ v.claiming = Live(claimants, bits)
      /\ v.work_running = FALSE
  BY <1>1, <1>3, WalkedIsAnInput
<1>6. WalkInv
  BY <1>1 DEF GenInv
<1>7. Table' = Table /\ Subsets' = Subsets
      /\ \A b, j, w : Walked(b, j, w)' = Walked(b, j, w)
  BY <1>1 DEF Table, TableOf, Subsets, Walked
<1>8. \A b \in 0 .. Subsets - 1, j \in DOMAIN triggers :
        Before(b, j)' <=> Before(b, j) \/ (b = bits /\ j = at)
  BY <1>1, <1>2, <1>3 DEF Before
<1>9. ~Before(bits, at)
  BY <1>3 DEF Before
<1> HIDE DEF u, v
<1>10. /\ cases' \in Seq(CaseRecord) /\ n \in Nat /\ Len(cases') = n + 2
       /\ DOMAIN cases = 1 .. n /\ DOMAIN cases' = 1 .. n + 2
       /\ \A i \in 1 .. n : cases'[i] = cases[i]
       /\ cases'[n + 1] = u /\ cases'[n + 2] = v
  BY <1>1, <1>3, <1>4, <1>5, TwoMore
<1>11. Len(cases') = 2 * (bits * Len(triggers) + (at' - 1))
  <2> DEFINE m == bits * Len(triggers)
  <2>1. m \in Nat
    BY <1>2, <1>3
  <2>2. n = 2 * (m + (at - 1))
    BY <1>6 DEF WalkInv
  <2> HIDE DEF m, n
  <2>3. n + 2 = 2 * (m + ((at + 1) - 1))
    BY <1>3, <2>1, <2>2
  <2> QED BY <1>1, <1>10, <2>3 DEF m
<1> HIDE DEF n
<1>12. \A i \in 1 .. n :
         \E b \in 0 .. Subsets - 1, j \in DOMAIN triggers, w \in BOOLEAN :
           Before(b, j) /\ cases[i] = CaseOf(Table, Walked(b, j, w))
  BY <1>6, <1>10 DEF WalkInv
<1>13. ASSUME NEW i \in DOMAIN cases'
       PROVE  \E b \in 0 .. Subsets - 1, j \in DOMAIN triggers, w \in BOOLEAN :
                Before(b, j)' /\ cases'[i] = CaseOf(Table, Walked(b, j, w))
  <2>1. CASE i \in 1 .. n
    BY <1>8, <1>10, <1>12, <2>1
  <2>2. CASE i = n + 1
    BY <1>3, <1>8, <1>10, <2>2 DEF u
  <2>3. CASE i = n + 2
    BY <1>3, <1>8, <1>10, <2>3 DEF v
  <2> QED BY <1>10, <2>1, <2>2, <2>3
<1>14. ASSUME NEW b \in 0 .. Subsets - 1, NEW j \in DOMAIN triggers, NEW w \in BOOLEAN,
              Before(b, j)'
       PROVE  \E i \in DOMAIN cases' : cases'[i] = CaseOf(Table, Walked(b, j, w))
  <2>1. CASE Before(b, j)
    <3>1. PICK i \in DOMAIN cases : cases[i] = CaseOf(Table, Walked(b, j, w))
      BY <1>6, <2>1 DEF WalkInv
    <3> QED BY <1>10, <3>1
  <2>2. CASE b = bits /\ j = at /\ w = TRUE
    <3>1. n + 1 \in DOMAIN cases'
      BY <1>10
    <3>2. cases'[n + 1] = CaseOf(Table, Walked(b, j, w))
      BY <1>10, <2>2, Zenon DEF u
    <3> QED BY <3>1, <3>2
  <2>3. CASE b = bits /\ j = at /\ w = FALSE
    <3>1. n + 2 \in DOMAIN cases'
      BY <1>10
    <3>2. cases'[n + 2] = CaseOf(Table, Walked(b, j, w))
      BY <1>10, <2>3, Zenon DEF v
    <3> QED BY <3>1, <3>2
  <2> QED BY <1>8, <1>14, <2>1, <2>2, <2>3
<1> DEFINE Same(p, q) == /\ p.trigger = q.trigger /\ p.claiming = q.claiming
                         /\ p.work_running = q.work_running
<1>15. ASSUME NEW i \in 1 .. n
       PROVE  ~Same(cases[i], u) /\ ~Same(cases[i], v)
  <2>1. PICK b \in 0 .. Subsets - 1, j \in DOMAIN triggers, w \in BOOLEAN :
          Before(b, j) /\ cases[i] = CaseOf(Table, Walked(b, j, w))
    BY <1>12
  <2>2. cases[i].trigger = triggers[j] /\ cases[i].claiming = Live(claimants, b)
    BY <1>1, <2>1, WalkedIsAnInput
  <2>3. ~(b = bits /\ j = at)
    BY <1>9, <2>1
  <2> QED BY <1>2, <1>3, <1>4, <1>5, <2>2, <2>3
<1>16. ~Same(u, v)
  BY <1>4, <1>5
<1>17. \A i, k \in 1 .. n : Same(cases[i], cases[k]) => i = k
  BY <1>6, <1>10 DEF WalkInv
<1>18. \A p, q : Same(p, q) => Same(q, p)
  OBVIOUS
<1>19. ASSUME NEW i \in DOMAIN cases', NEW k \in DOMAIN cases', Same(cases'[i], cases'[k])
       PROVE  i = k
  <2> HIDE DEF Same
  <2>1. (i \in 1 .. n \/ i = n + 1 \/ i = n + 2) /\ (k \in 1 .. n \/ k = n + 1 \/ k = n + 2)
    BY <1>10
  <2> QED BY <1>10, <1>15, <1>16, <1>17, <1>18, <1>19, <2>1
<1>20. WalkInv'
  <2>1. bits' = Subsets => at' = 1
    BY <1>1, <1>3
  <2>2. /\ Len(grids') < 2 /\ Probe \notin Named(Table')
        /\ claimants' = ClaimantsOf(Table') /\ triggers' = TriggersOf(Table')
    BY <1>1, <1>6, <1>7 DEF WalkInv
  <2>3. /\ \A i \in DOMAIN cases' :
             \E b \in 0 .. Subsets - 1, j \in DOMAIN triggers, w \in BOOLEAN :
               Before(b, j)' /\ cases'[i] = CaseOf(Table, Walked(b, j, w))
        /\ \A b \in 0 .. Subsets - 1, j \in DOMAIN triggers, w \in BOOLEAN :
             Before(b, j)' => \E i \in DOMAIN cases' : cases'[i] = CaseOf(Table, Walked(b, j, w))
    BY <1>13, <1>14, Zenon
  <2>4. \A i, k \in DOMAIN cases' :
          /\ cases'[i].trigger = cases'[k].trigger
          /\ cases'[i].claiming = cases'[k].claiming
          /\ cases'[i].work_running = cases'[k].work_running
          => i = k
    BY <1>19, Zenon
  <2>5. Len(cases') = 2 * (bits' * Len(triggers') + (at' - 1))
    BY <1>1, <1>11
  <2> HIDE DEF Same
  <2>6. triggers' = triggers /\ claimants' = claimants
    BY <1>1
  <2> QED BY <1>7, <2>1, <2>2, <2>3, <2>4, <2>5, <2>6 DEF WalkInv
<1> QED BY <1>1, <1>2, <1>3, <1>10, <1>20, StepOfTheWalk

\* The outer loop goes on to the next subset when all triggers were asked about.
LEMMA NextSubsetKeepsGenInv == GenInv /\ NextSubset => GenInv'
<1> SUFFICES ASSUME GenInv, NextSubset
             PROVE  GenInv'
  OBVIOUS
<1>1. /\ pc = "walk" /\ bits < Subsets /\ at > Len(triggers) /\ bits' = bits + 1 /\ at' = 1
      /\ UNCHANGED <<demo, pc, rogue, grids, claimants, triggers, cases>>
  BY DEF NextSubset
<1>2. /\ Len(triggers) \in Nat /\ Len(triggers) >= 1 /\ DOMAIN triggers = 1 .. Len(triggers)
      /\ Subsets \in Nat
  BY <1>1, ListsOfTheWalk
<1>3. /\ bits \in Nat /\ at = Len(triggers) + 1 /\ bits' \in 0 .. Subsets
      /\ at' \in 1 .. Len(triggers) + 1 /\ cases' \in Seq(CaseRecord)
  BY <1>1, <1>2 DEF GenInv, GenTypeOK
<1>4. WalkInv
  BY <1>1 DEF GenInv
<1>5. Table' = Table /\ Subsets' = Subsets
      /\ \A b, j, w : Walked(b, j, w)' = Walked(b, j, w)
  BY <1>1 DEF Table, TableOf, Subsets, Walked
<1>6. \A b \in 0 .. Subsets - 1, j \in DOMAIN triggers : Before(b, j)' <=> Before(b, j)
  BY <1>1, <1>2, <1>3 DEF Before
<1>7. Len(cases') = 2 * (bits' * Len(triggers') + (at' - 1))
  <2>1. (bits + 1) * Len(triggers) = bits * Len(triggers) + Len(triggers)
    BY <1>2, <1>3
  <2>2. bits * Len(triggers) \in Nat
    BY <1>2, <1>3
  <2>3. Len(cases) = 2 * (bits * Len(triggers) + (at - 1))
    BY <1>4 DEF WalkInv
  <2> QED BY <1>1, <1>2, <1>3, <2>1, <2>2, <2>3
<1>8. /\ \A i \in DOMAIN cases' :
           \E b \in 0 .. Subsets - 1, j \in DOMAIN triggers, w \in BOOLEAN :
             Before(b, j)' /\ cases'[i] = CaseOf(Table, Walked(b, j, w))
      /\ \A b \in 0 .. Subsets - 1, j \in DOMAIN triggers, w \in BOOLEAN :
           Before(b, j)' => \E i \in DOMAIN cases' : cases'[i] = CaseOf(Table, Walked(b, j, w))
  <2> HIDE DEF Before
  <2> QED BY <1>1, <1>4, <1>6 DEF WalkInv
<1>9. bits' = Subsets => at' = 1
  BY <1>1
<1>10. WalkInv'
  <2>1. /\ Len(grids') < 2 /\ Probe \notin Named(Table')
        /\ claimants' = ClaimantsOf(Table') /\ triggers' = TriggersOf(Table')
    BY <1>1, <1>4, <1>5 DEF WalkInv
  <2>2. \A i, k \in DOMAIN cases' :
          /\ cases'[i].trigger = cases'[k].trigger
          /\ cases'[i].claiming = cases'[k].claiming
          /\ cases'[i].work_running = cases'[k].work_running
          => i = k
    BY <1>1, <1>4, Zenon DEF WalkInv
  <2> QED BY <1>1, <1>5, <1>7, <1>8, <1>9, <2>1, <2>2 DEF WalkInv
<1> QED BY <1>1, <1>3, <1>10, StepOfTheWalk

\* When the walk has ended it has recorded every input of its table, each once,
\* and as many cases as the program expects.
LEMMA WalkEndedHasCovered ==
  ASSUME GenInv, WalkEnded
  PROVE  CoversAll /\ Enumerates(cases, Table)
<1>1. pc = "walk" /\ bits = Subsets
  BY DEF WalkEnded
<1>2. WalkInv
  BY <1>1 DEF GenInv
<1>3. /\ triggers = TriggersOf(Table) /\ claimants = ClaimantsOf(Table)
      /\ Len(triggers) \in Nat /\ DOMAIN triggers = 1 .. Len(triggers)
      /\ Subsets \in Nat
      /\ \A U \in SUBSET Range(claimants) : \E b \in 0 .. Subsets - 1 : Live(claimants, b) = U
  BY <1>1, <1>2, ListsOfTheWalk DEF WalkInv
<1>4. CoversAll
  <2> DEFINE m == Subsets * Len(triggers)
  <2>1. m \in Nat
    BY <1>3
  <2>2. Len(cases) = 2 * (m + (1 - 1))
    BY <1>1, <1>2 DEF WalkInv
  <2> HIDE DEF m
  <2>3. Len(cases) = m * 2
    BY <2>1, <2>2
  <2> QED BY <2>3 DEF CoversAll, m
<1>5. \A b \in 0 .. Subsets - 1, j \in DOMAIN triggers : Before(b, j)
  BY <1>1, <1>3 DEF Before
<1>6. ASSUME NEW i \in DOMAIN cases
      PROVE  \E x \in Inputs(Table) : cases[i] = CaseOf(Table, x)
  <2>1. PICK b \in 0 .. Subsets - 1, j \in DOMAIN triggers, w \in BOOLEAN :
          cases[i] = CaseOf(Table, Walked(b, j, w))
    <3>1. \A k \in DOMAIN cases :
            \E b \in 0 .. Subsets - 1, j \in DOMAIN triggers, w \in BOOLEAN :
              Before(b, j) /\ cases[k] = CaseOf(Table, Walked(b, j, w))
      BY <1>2 DEF WalkInv
    <3> QED BY <3>1, Zenon
  <2>2. Walked(b, j, w) \in Inputs(Table)
    BY <1>1, WalkedIsAnInput
  <2> QED BY <2>1, <2>2
<1>7. ASSUME NEW x \in Inputs(Table)
      PROVE  \E i \in DOMAIN cases : cases[i] = CaseOf(Table, x)
  <2>1. /\ x = <<x[1], x[2]>> /\ x[1] \in Range(triggers)
        /\ x[2] \in [claiming : SUBSET Range(claimants), work_running : BOOLEAN]
    BY <1>3 DEF Inputs
  <2>2. PICK j \in DOMAIN triggers : triggers[j] = x[1]
    BY <2>1 DEF Range
  <2>3. /\ x[2].claiming \in SUBSET Range(claimants) /\ x[2].work_running \in BOOLEAN
        /\ x[2] = [claiming |-> x[2].claiming, work_running |-> x[2].work_running]
    BY <2>1
  <2>4. PICK b \in 0 .. Subsets - 1 : Live(claimants, b) = x[2].claiming
    BY <1>3, <2>3
  <2>5. Walked(b, j, x[2].work_running) = x
    BY <2>1, <2>2, <2>3, <2>4, Zenon DEF Walked
  <2>6. \E i \in DOMAIN cases : cases[i] = CaseOf(Table, Walked(b, j, x[2].work_running))
    BY <1>2, <1>5, <2>3 DEF WalkInv
  <2> QED BY <2>5, <2>6
<1>8. \A i, k \in DOMAIN cases :
        /\ cases[i].trigger = cases[k].trigger
        /\ cases[i].claiming = cases[k].claiming
        /\ cases[i].work_running = cases[k].work_running
        => i = k
  BY <1>2 DEF WalkInv
<1> QED BY <1>4, <1>6, <1>7, <1>8 DEF Enumerates

\* The grid of a walk that has ended is kept.
LEMMA EndGridKeepsGenInv == GenInv /\ EndGrid => GenInv'
<1> SUFFICES ASSUME GenInv, EndGrid
             PROVE  GenInv'
  OBVIOUS
<1> DEFINE n == Len(grids)
           new == Grid(Table, claimants, triggers, cases)
<1>1. /\ pc = "walk" /\ WalkEnded /\ grids' = Append(grids, new) /\ pc' = "grid"
      /\ UNCHANGED <<demo, rogue, claimants, triggers, bits, at, cases>>
  BY DEF EndGrid, WalkEnded, walk
<1>2. WalkInv
  BY <1>1 DEF GenInv
<1>3. /\ Table \in Ladder /\ Probe \notin Named(Table) /\ Enumerates(cases, Table)
      /\ claimants = ClaimantsOf(Table) /\ triggers = TriggersOf(Table)
      /\ claimants \in Seq(Claimant) /\ triggers \in Seq(Trigger)
  BY <1>1, <1>2, WalkEndedHasCovered, ListsOfTheWalk DEF WalkInv
<1>4. grids \in Seq(GridRecord) /\ n \in 0 .. 1 /\ cases \in Seq(CaseRecord)
  <2>1. grids \in Seq(GridRecord) /\ cases \in Seq(CaseRecord)
    BY DEF GenInv
  <2>2. n \in Nat /\ n < 2
    BY <1>2, <2>1 DEF WalkInv
  <2> HIDE DEF n, new
  <2> QED BY <2>1, <2>2
<1>5. /\ new \in GridRecord /\ new.cases = cases
      /\ new = Grid(Table, ClaimantsOf(Table), TriggersOf(Table), cases)
  BY <1>3, <1>4, Zenon DEF Grid, ContentId, GridRecord
<1> HIDE DEF new
<1>6. /\ grids' \in Seq(GridRecord) /\ Len(grids') = n + 1
      /\ DOMAIN grids = 1 .. n /\ DOMAIN grids' = 1 .. n + 1
      /\ \A g \in 1 .. n : grids'[g] = grids[g]
      /\ grids'[n + 1] = new
  BY <1>1, <1>4, <1>5
<1>7. \A g : TableOf(g)' = TableOf(g)
  BY <1>1 DEF TableOf
<1>8. GridsInv'
  <2> SUFFICES ASSUME NEW g \in DOMAIN grids'
               PROVE  /\ Probe \notin Named(TableOf(g)) /\ Enumerates(grids'[g].cases, TableOf(g))
                      /\ grids'[g] = Grid(TableOf(g), ClaimantsOf(TableOf(g)),
                                          TriggersOf(TableOf(g)), grids'[g].cases)
    BY <1>7 DEF GridsInv
  <2>1. CASE g \in 1 .. n
    BY <1>6, <2>1 DEF GenInv, GridsInv
  <2>2. CASE g = n + 1
    <3>1. TableOf(g) = Table
      BY <2>2 DEF Table
    <3> QED BY <1>3, <1>5, <1>6, <2>2, <3>1
  <2> QED BY <1>4, <1>6, <2>1, <2>2
<1>9. Subsets' = Subsets /\ demo' = demo /\ rogue' = rogue
  BY <1>1 DEF Subsets
<1>10. GenTypeOK'
  <2>1. UNCHANGED <<demo, rogue, claimants, triggers, bits, at, cases>> /\ pc' = "grid"
    BY <1>1
  <2>2. Len(grids') \in 0 .. 2
    BY <1>4, <1>6
  <2> QED BY <1>9, <2>1, <2>2 DEF GenInv, GenTypeOK
<1>11. PhaseInv' /\ PanicInv'
  BY <1>1, <1>9 DEF GenInv, PhaseInv, PanicInv
<1> QED BY <1>1, <1>4, <1>6, <1>8, <1>9, <1>10, <1>11 DEF GenInv

\* Every step of the generator keeps the invariant.
LEMMA NextKeepsGenInv == GenInv /\ [GenNext]_genVars => GenInv'
<1> SUFFICES ASSUME GenInv, [GenNext]_genVars
             PROVE  GenInv'
  OBVIOUS
<1>1. CASE UNCHANGED genVars
  <2>1. UNCHANGED <<demo, pc, rogue, grids, claimants, triggers, bits, at, cases>>
    BY <1>1 DEF genVars, walk
  <2>2. GenTypeOK' /\ PhaseInv' /\ PanicInv'
    BY <2>1 DEF GenInv, GenTypeOK, Subsets, PhaseInv, PanicInv
  <2>3. GridsInv'
    BY <2>1 DEF GenInv, GridsInv, TableOf
  <2>4. WalkInv' <=> WalkInv
    BY <2>1 DEF WalkInv, Table, TableOf, Subsets, Before, Walked
  <2> QED BY <2>1, <2>2, <2>3, <2>4 DEF GenInv
<1>2. CASE GenNext
  BY <1>2, GenStepBetweenGrids, BeginGridKeepsGenInv, ResolveNextKeepsGenInv,
     NextSubsetKeepsGenInv, EndGridKeepsGenInv DEF GenNext
<1> QED BY <1>1, <1>2

\* The walk and the grids hold what they should in every reachable state: each
\* input the walk has been at is recorded once, and nothing else is.
THEOREM GenInvariant == GenSpec => []GenInv
<1>1. GenInit => GenInv
  BY GenInitEstablishesInv
<1>2. GenInv /\ [GenNext]_genVars => GenInv'
  BY NextKeepsGenInv
<1> QED BY <1>1, <1>2, PTL DEF GenSpec

\* The generator's variables keep their types: the walk never runs over its
\* triggers or its subsets, and what it records are cases.
THEOREM GenTypeCorrect == GenSpec => []GenTypeOK
<1>1. GenInv => GenTypeOK
  BY DEF GenInv
<1> QED BY <1>1, GenInvariant, PTL

-----------------------------------------------------------------------------
(* What the generator's vectors show.                                      *)

\* What is recorded of a table at one of its inputs, field by field.
LEMMA InputFields ==
  ASSUME NEW l, Printable(l), NEW x \in Inputs(l)
  PROVE  /\ CaseOf(l, x).trigger = x[1] /\ CaseOf(l, x).claiming = x[2].claiming
         /\ CaseOf(l, x).work_running = x[2].work_running
         /\ CaseOf(l, x).verdict = VerdictRec(Resolve(l, x[1], x[2]))
<1>1. l \in Ladder /\ x[1] \in Trigger /\ x[2] \in Situation /\ x = <<x[1], x[2]>>
  BY InputsAreInputs DEF Printable, Inputs
<1> DEFINE Fields(k, u, v) ==
             /\ CaseOf(k, <<u, v>>).trigger = u /\ CaseOf(k, <<u, v>>).claiming = v.claiming
             /\ CaseOf(k, <<u, v>>).work_running = v.work_running
             /\ CaseOf(k, <<u, v>>).verdict = VerdictRec(Resolve(k, u, v))
<1>2. \A k \in Ladder, u \in Trigger, v \in Situation : Fields(k, u, v)
  BY CaseFields
<1> HIDE DEF Fields
<1>3. Fields(l, x[1], x[2])
  BY <1>1, <1>2
<1> QED BY <1>1, <1>3, Zenon DEF Fields

\* The table of a grid that is done, and what the grid holds.
LEMMA GridsThatAreDone ==
  ASSUME GenInv, NEW g \in DOMAIN grids
  PROVE  /\ Printable(TableOf(g)) /\ Enumerates(grids[g].cases, TableOf(g))
         /\ grids[g] = Grid(TableOf(g), ClaimantsOf(TableOf(g)), TriggersOf(TableOf(g)),
                            grids[g].cases)
         /\ grids[g].cases \in Seq(CaseRecord)
<1>1. TableOf(g) \in Ladder /\ IsFiniteSet(Named(TableOf(g)))
  BY TablesOfARun DEF GenInv
<1>2. /\ Probe \notin Named(TableOf(g)) /\ Enumerates(grids[g].cases, TableOf(g))
      /\ grids[g] = Grid(TableOf(g), ClaimantsOf(TableOf(g)), TriggersOf(TableOf(g)),
                         grids[g].cases)
  BY DEF GenInv, GridsInv
<1>3. grids[g] \in GridRecord
  BY DEF GenInv
<1>4. grids[g].cases \in Seq(CaseRecord)
  BY <1>3 DEF GridRecord
<1> QED BY <1>1, <1>2, <1>4 DEF Printable

\* A grid's cases: each is of an input, and each input has one.
LEMMA CasesAreOfInputs ==
  ASSUME NEW l, Printable(l), NEW recorded, Enumerates(recorded, l)
  PROVE  /\ \A i \in DOMAIN recorded : \E x \in Inputs(l) :
              /\ recorded[i] = CaseOf(l, x)
              /\ recorded[i].trigger = x[1] /\ recorded[i].claiming = x[2].claiming
              /\ recorded[i].work_running = x[2].work_running
              /\ recorded[i].verdict = VerdictRec(Resolve(l, x[1], x[2]))
         /\ \A x \in Inputs(l) : \E i \in DOMAIN recorded :
              /\ recorded[i].trigger = x[1] /\ recorded[i].claiming = x[2].claiming
              /\ recorded[i].work_running = x[2].work_running
              /\ recorded[i].verdict = VerdictRec(Resolve(l, x[1], x[2]))
<1>1. ASSUME NEW i \in DOMAIN recorded, NEW x \in Inputs(l), recorded[i] = CaseOf(l, x)
      PROVE  /\ recorded[i].trigger = x[1] /\ recorded[i].claiming = x[2].claiming
             /\ recorded[i].work_running = x[2].work_running
             /\ recorded[i].verdict = VerdictRec(Resolve(l, x[1], x[2]))
  BY <1>1, InputFields
<1>2. \A i \in DOMAIN recorded : \E x \in Inputs(l) : recorded[i] = CaseOf(l, x)
  BY DEF Enumerates
<1>3. \A x \in Inputs(l) : \E i \in DOMAIN recorded : recorded[i] = CaseOf(l, x)
  BY DEF Enumerates
<1> QED BY <1>1, <1>2, <1>3, Zenon

\* What is asked is answered by one of the cases, and by no other.
AnsweredOnce(recorded, l, t, s) ==
  LET matches(c) ==
        /\ c.trigger = IF t \in Named(l) THEN t ELSE Probe
        /\ c.claiming = s.claiming \cap Range(Claimants(l))
        /\ c.work_running = s.work_running
      hits == {i \in DOMAIN recorded : matches(recorded[i])}
  IN  /\ Cardinality(hits) = 1
      /\ \A i \in hits : recorded[i].verdict = VerdictRec(Resolve(l, t, s))

\* Whatever is asked of the table of a grid, one case of the grid answers it.
LEMMA OneCaseDecides ==
  ASSUME NEW l, Printable(l), NEW recorded, Enumerates(recorded, l),
         NEW t \in Trigger, NEW s \in Situation
  PROVE  AnsweredOnce(recorded, l, t, s)
<1> DEFINE x == Recorded(l, t, s)
           u == IF t \in Named(l) THEN t ELSE Probe
           C == s.claiming \cap Range(Claimants(l))
           Match(c) == c.trigger = u /\ c.claiming = C /\ c.work_running = s.work_running
           hits == {i \in DOMAIN recorded : Match(recorded[i])}
<1>1. x \in Inputs(l) /\ \A code : Answer(code, l, t, s) = Answer(code, l, x[1], x[2])
  BY GridIsEnough DEF Printable
<1>2. Answer("resolve", l, t, s) = Answer("resolve", l, x[1], x[2])
  BY <1>1
<1>3. Resolve(l, x[1], x[2]) = Resolve(l, t, s)
  BY <1>2 DEF Answer
<1>4. Range(Claimants(l)) = Range(ClaimantsOf(l))
  BY ClaimantsOfNamesAll DEF Printable, Claimants, Range
<1>5. x[1] = u /\ x[2].claiming = C /\ x[2].work_running = s.work_running
  BY <1>4 DEF Recorded
<1> HIDE DEF x, u, C
<1>6. PICK i \in DOMAIN recorded :
        /\ recorded[i].trigger = x[1] /\ recorded[i].claiming = x[2].claiming
        /\ recorded[i].work_running = x[2].work_running
        /\ recorded[i].verdict = VerdictRec(Resolve(l, x[1], x[2]))
  BY <1>1, CasesAreOfInputs
<1>7. hits = {i}
  <2>1. i \in hits
    BY <1>5, <1>6
  <2>2. ASSUME NEW k \in hits
        PROVE  k = i
    <3>1. k \in DOMAIN recorded /\ Match(recorded[k]) /\ Match(recorded[i])
      BY <1>5, <1>6
    <3> QED BY <3>1 DEF Enumerates
  <2> QED BY <2>1, <2>2
<1> HIDE DEF hits
<1>8. Cardinality(hits) = 1
  BY <1>7, FS_Singleton
<1>9. \A k \in hits : recorded[k].verdict = VerdictRec(Resolve(l, t, s))
  BY <1>3, <1>6, <1>7
<1> QED BY <1>8, <1>9, Zenon DEF AnsweredOnce, hits, u, C

\* The finite vectors pin the function down, for any tables, triggers and
\* claimants, and the assertion that the walk covered the input never fails.
THEOREM GridsDecide == GenSpec => []GridsDecideTheTable
<1>1. GenInv => GridsDecideTheTable
  <2> SUFFICES ASSUME GenInv
               PROVE  GridsDecideTheTable
    OBVIOUS
  <2>1. WalkEnded => CoversAll
    BY WalkEndedHasCovered
  <2>2. ASSUME NEW g \in DOMAIN grids, NEW t \in Trigger, NEW s \in Situation
        PROVE  AnsweredOnce(grids[g].cases, TableOf(g), t, s)
    BY GridsThatAreDone, OneCaseDecides, Zenon
  <2> QED BY <2>1, <2>2, Zenon DEF GridsDecideTheTable, AnsweredOnce
<1> QED BY <1>1, GenInvariant, PTL

-----------------------------------------------------------------------------
(* Tables without collisions, and what the rogue rung brings.              *)

\* A table with finitely many triggers has finitely many rows, and the counts of
\* its collisions are numbers: there are none when the sum is zero.
LEMMA CountsOfCollisions ==
  ASSUME NEW l \in Ladder, IsFiniteSet(Named(l))
  PROVE  /\ IsFiniteSet(ReservedPairs(l)) /\ IsFiniteSet(RepeatedPairs(l))
         /\ Cardinality(ReservedPairs(l)) \in Nat /\ Cardinality(RepeatedPairs(l)) \in Nat
         /\ Cardinality(l.fallthrough \cap l.hatch.reserved) \in Nat
         /\ CollisionCount(l) = 0 =>
              ReservedPairs(l) = {} /\ RepeatedPairs(l) = {} /\ l.fallthrough \cap l.hatch.reserved = {}
<1> DEFINE rows == (DOMAIN l.rungs) \X Named(l)
           both == l.fallthrough \cap l.hatch.reserved
<1>1. IsFiniteSet(rows)
  BY RungsAreRungs, FS_Product
<1>2. \A i \in DOMAIN l.rungs : l.rungs[i].triggers \subseteq Named(l)
  BY DEF Named
<1>3. Pairs(l) \subseteq rows
  BY <1>2 DEF Pairs
<1>4. ReservedPairs(l) \subseteq rows /\ RepeatedPairs(l) \subseteq rows
  BY <1>3 DEF ReservedPairs, RepeatedPairs
<1>5. both \subseteq Named(l)
  BY DEF Named
<1> HIDE DEF rows, both
<1>6. IsFiniteSet(ReservedPairs(l)) /\ IsFiniteSet(RepeatedPairs(l)) /\ IsFiniteSet(both)
  BY <1>1, <1>4, <1>5, FS_Subset
<1> DEFINE a == Cardinality(ReservedPairs(l))
           b == Cardinality(RepeatedPairs(l))
           c == Cardinality(both)
<1>7. a \in Nat /\ b \in Nat /\ c \in Nat
  BY <1>6, FS_CardinalityType
<1>8. (a = 0 => ReservedPairs(l) = {}) /\ (b = 0 => RepeatedPairs(l) = {}) /\ (c = 0 => both = {})
  BY <1>6, FS_EmptySet
<1>9. CollisionCount(l) = a + b + c
  BY DEF CollisionCount, both
<1> HIDE DEF a, b, c
<1>10. CollisionCount(l) = 0 => a = 0 /\ b = 0 /\ c = 0
  BY <1>7, <1>9
<1> QED BY <1>6, <1>7, <1>8, <1>10 DEF a, b, c, both

\* A table without repeated rows, in terms of its rungs; and one without reserved
\* ones.
LEMMA CleanRungs ==
  ASSUME NEW l \in Ladder
  PROVE  /\ RepeatedPairs(l) = {} =>
              \A i, j \in DOMAIN l.rungs :
                i # j /\ l.rungs[i].triggers \cap l.rungs[j].triggers # {}
                => l.rungs[i].claimant # l.rungs[j].claimant
         /\ ReservedPairs(l) = {} =>
              \A i \in DOMAIN l.rungs : l.rungs[i].triggers \cap l.hatch.reserved = {}
<1>1. \A i \in DOMAIN l.rungs, t \in Trigger : t \in l.rungs[i].triggers => <<i, t>> \in Pairs(l)
  BY DEF Pairs
<1>2. ASSUME RepeatedPairs(l) = {}, NEW i \in DOMAIN l.rungs, NEW j \in DOMAIN l.rungs, i < j,
             NEW t \in Trigger, t \in l.rungs[i].triggers, t \in l.rungs[j].triggers,
             l.rungs[i].claimant = l.rungs[j].claimant
      PROVE  FALSE
  <2>1. i \in 1 .. j - 1 /\ <<j, t>> \in Pairs(l)
    BY <1>1, <1>2, RungsAreRungs
  <2>2. <<j, t>> \in RepeatedPairs(l)
    BY <1>2, <2>1 DEF RepeatedPairs
  <2> QED BY <1>2, <2>2
<1>3. ASSUME RepeatedPairs(l) = {}, NEW i \in DOMAIN l.rungs, NEW j \in DOMAIN l.rungs, i # j,
             l.rungs[i].triggers \cap l.rungs[j].triggers # {}
      PROVE  l.rungs[i].claimant # l.rungs[j].claimant
  <2>1. PICK t \in Trigger : t \in l.rungs[i].triggers /\ t \in l.rungs[j].triggers
    BY <1>3, RungsAreRungs
  <2>2. i < j \/ j < i
    BY <1>3, RungsAreRungs
  <2> QED BY <1>2, <1>3, <2>1, <2>2
<1>4. ASSUME ReservedPairs(l) = {}, NEW i \in DOMAIN l.rungs, NEW t \in l.rungs[i].triggers,
             t \in l.hatch.reserved
      PROVE  FALSE
  <2>1. <<i, t>> \in Pairs(l)
    BY <1>1, RungsAreRungs
  <2> QED BY <1>4, <2>1 DEF ReservedPairs
<1> QED BY <1>3, <1>4

\* The rogue rung takes the least reserved trigger, so the hostile table has a
\* collision; it has no other when the table has none and the rogue rung is no
\* clash with it.
LEMMA RogueCollision ==
  ASSUME NEW l \in Ladder, IsFiniteSet(Named(l)), CollisionCount(l) = 0
  PROVE  /\ CollisionCount(WithRogue(l)) = 1 => RepeatedPairs(WithRogue(l)) = {}
         /\ /\ ZZ \notin l.hatch.reserved
            /\ \A i \in DOMAIN l.rungs :
                 ~(l.rungs[i].claimant = Rogue /\ ZZ \in l.rungs[i].triggers)
            => CollisionCount(WithRogue(l)) = 1
<1> DEFINE m == Min(l.hatch.reserved)
           w == WithRogue(l)
<1>1. /\ w \in Ladder /\ w.hatch = l.hatch /\ w.fallthrough = l.fallthrough
      /\ m \in l.hatch.reserved /\ m \in Trigger /\ Len(w.rungs) = Len(l.rungs) + 1
      /\ w.rungs[1].triggers = {m, ZZ} /\ w.rungs[1].claimant = Rogue
      /\ \A i \in DOMAIN l.rungs : w.rungs[i + 1] = l.rungs[i]
      /\ \A i \in DOMAIN w.rungs : i # 1 => i - 1 \in DOMAIN l.rungs
  BY WithRogueShape
<1>2. IsFiniteSet(Named(w))
  BY WithRogueNames
<1> HIDE DEF m, w
<1>3. /\ DOMAIN w.rungs = 1 .. Len(l.rungs) + 1 /\ DOMAIN l.rungs = 1 .. Len(l.rungs)
      /\ Len(l.rungs) \in Nat
  BY <1>1, RungsAreRungs
<1>4. \A i \in DOMAIN w.rungs : i # 1 => i - 1 \in DOMAIN l.rungs /\ w.rungs[i] = l.rungs[i - 1]
  <2> SUFFICES ASSUME NEW i \in DOMAIN w.rungs, i # 1
               PROVE  i - 1 \in DOMAIN l.rungs /\ w.rungs[i] = l.rungs[i - 1]
    OBVIOUS
  <2>1. i - 1 \in DOMAIN l.rungs /\ (i - 1) + 1 = i
    BY <1>1, <1>3
  <2> QED BY <1>1, <2>1
<1>5. ReservedPairs(l) = {} /\ RepeatedPairs(l) = {} /\ l.fallthrough \cap l.hatch.reserved = {}
  BY CountsOfCollisions
<1>6. <<1, m>> \in ReservedPairs(w)
  BY <1>1, <1>3 DEF ReservedPairs, Pairs
<1>7. ReservedPairs(w) # {} /\ Cardinality(w.fallthrough \cap w.hatch.reserved) = 0
  BY <1>1, <1>5, <1>6, FS_EmptySet
<1> DEFINE a == Cardinality(ReservedPairs(w))
           b == Cardinality(RepeatedPairs(w))
<1>8. /\ a \in Nat /\ b \in Nat /\ a # 0 /\ (b = 0 <=> RepeatedPairs(w) = {})
      /\ CollisionCount(w) = a + b + 0
  BY <1>1, <1>2, <1>7, CountsOfCollisions, FS_EmptySet DEF CollisionCount
<1> HIDE DEF a, b
<1>9. CollisionCount(w) = 1 => RepeatedPairs(w) = {}
  BY <1>8
<1>10. ASSUME ZZ \notin l.hatch.reserved,
              \A i \in DOMAIN l.rungs :
                ~(l.rungs[i].claimant = Rogue /\ ZZ \in l.rungs[i].triggers)
       PROVE  CollisionCount(w) = 1
  <2>1. ASSUME NEW p \in ReservedPairs(w)
        PROVE  p = <<1, m>>
    <3>1. /\ p = <<p[1], p[2]>> /\ p[1] \in DOMAIN w.rungs /\ p[2] \in Trigger
          /\ p[2] \in w.rungs[p[1]].triggers /\ p[2] \in l.hatch.reserved
      BY <1>1 DEF ReservedPairs, Pairs
    <3>2. CASE p[1] = 1
      BY <1>1, <1>10, <3>1, <3>2
    <3>3. CASE p[1] # 1
      <4>1. p[1] - 1 \in DOMAIN l.rungs /\ p[2] \in l.rungs[p[1] - 1].triggers
        BY <1>4, <3>1, <3>3
      <4> QED BY <1>5, <3>1, <4>1, CleanRungs
    <3> QED BY <3>2, <3>3
  <2>2. ASSUME NEW p \in RepeatedPairs(w)
        PROVE  FALSE
    <3>1. /\ p[1] \in DOMAIN w.rungs /\ p[2] \in Trigger /\ p[2] \in w.rungs[p[1]].triggers
      BY DEF RepeatedPairs, Pairs
    <3>2. PICK f \in 1 .. p[1] - 1 :
            w.rungs[f].claimant = w.rungs[p[1]].claimant /\ p[2] \in w.rungs[f].triggers
      BY DEF RepeatedPairs
    <3>3. p[1] # 1 /\ f \in DOMAIN w.rungs
      BY <1>3, <3>1, <3>2
    <3> DEFINE i == p[1] - 1
    <3>4. i \in DOMAIN l.rungs /\ w.rungs[p[1]] = l.rungs[i]
      BY <1>4, <3>1, <3>3
    <3>5. CASE f = 1
      <4>1. l.rungs[i].claimant = Rogue /\ p[2] \in l.rungs[i].triggers /\ p[2] \in {m, ZZ}
        BY <1>1, <3>1, <3>2, <3>4, <3>5
      <4>2. p[2] # ZZ
        BY <1>10, <3>4, <4>1
      <4>3. p[2] \in l.hatch.reserved
        BY <1>1, <4>1, <4>2
      <4> QED BY <1>5, <3>4, <4>1, <4>3, CleanRungs
    <3>6. CASE f # 1
      <4>1. f - 1 \in DOMAIN l.rungs /\ w.rungs[f] = l.rungs[f - 1]
        BY <1>4, <3>3, <3>6
      <4>2. f - 1 # i
        BY <1>3, <3>1, <3>2
      <4>3. l.rungs[i].triggers \cap l.rungs[f - 1].triggers # {}
            /\ l.rungs[i].claimant = l.rungs[f - 1].claimant
        BY <3>1, <3>2, <3>4, <4>1
      <4> QED BY <1>5, <3>4, <4>1, <4>2, <4>3, CleanRungs
    <3> QED BY <3>5, <3>6
  <2>3. ReservedPairs(w) = {<<1, m>>} /\ RepeatedPairs(w) = {}
    BY <1>6, <2>1, <2>2
  <2>4. a = 1 /\ b = 0
    BY <2>3, <1>8, FS_Singleton DEF a
  <2> QED BY <1>8, <2>4
<1> QED BY <1>9, <1>10, Zenon DEF w

\* The names of a table are as many as its walk has bits, and the hostile table
\* has those of the table and the rogue.
LEMMA SizeOfTheWalk ==
  ASSUME NEW l \in Ladder
  PROVE  /\ Len(ClaimantsOf(l)) <= Cardinality(Range(Claimants(l)) \cup {Rogue})
         /\ Len(ClaimantsOf(WithRogue(l))) = Cardinality(Range(Claimants(l)) \cup {Rogue})
         /\ Range(ClaimantsOf(WithRogue(l))) = Range(Claimants(l)) \cup {Rogue}
<1> DEFINE w == WithRogue(l)
           names(k) == {k.rungs[i].claimant : i \in DOMAIN k.rungs}
<1>1. /\ w \in Ladder /\ Len(w.rungs) = Len(l.rungs) + 1 /\ w.rungs[1].claimant = Rogue
      /\ \A i \in DOMAIN l.rungs : w.rungs[i + 1] = l.rungs[i]
      /\ \A i \in DOMAIN w.rungs : i # 1 => i - 1 \in DOMAIN l.rungs
  BY WithRogueShape
<1> HIDE DEF w
<1>2. /\ DOMAIN w.rungs = 1 .. Len(l.rungs) + 1 /\ DOMAIN l.rungs = 1 .. Len(l.rungs)
      /\ Len(l.rungs) \in Nat
  BY <1>1, RungsAreRungs
<1>3. names(w) = names(l) \cup {Rogue}
  <2>1. ASSUME NEW i \in DOMAIN w.rungs
        PROVE  w.rungs[i].claimant \in names(l) \cup {Rogue}
    <3>1. CASE i = 1
      BY <1>1, <3>1
    <3>2. CASE i # 1
      <4>1. i - 1 \in DOMAIN l.rungs /\ (i - 1) + 1 = i
        BY <1>1, <1>2, <3>2
      <4> QED BY <1>1, <4>1
    <3> QED BY <3>1, <3>2
  <2>2. ASSUME NEW i \in DOMAIN l.rungs
        PROVE  l.rungs[i].claimant \in names(w)
    <3>1. i + 1 \in DOMAIN w.rungs /\ w.rungs[i + 1] = l.rungs[i]
      BY <1>1, <1>2
    <3> QED BY <3>1
  <2>3. Rogue \in names(w)
    <3>1. 1 \in DOMAIN w.rungs
      BY <1>2
    <3> QED BY <1>1, <3>1
  <2> QED BY <2>1, <2>2, <2>3
<1>4. Range(ClaimantsOf(l)) = names(l) /\ Range(ClaimantsOf(w)) = names(w)
  BY <1>1, ClaimantsOfNamesAll
<1>5. Range(Claimants(l)) = names(l)
  BY DEF Claimants, Range
<1> HIDE DEF names
<1>6. ASSUME NEW k \in Ladder
      PROVE  Len(ClaimantsOf(k)) = Cardinality(Range(ClaimantsOf(k)))
             /\ IsFiniteSet(Range(ClaimantsOf(k)))
  <2>1. /\ ClaimantsOf(k) \in Seq(Claimant)
        /\ \A i, j \in DOMAIN ClaimantsOf(k) : ClaimantsOf(k)[i] = ClaimantsOf(k)[j] => i = j
    BY ClaimantsOfIsAList
  <2> QED BY <2>1, LiveIsBijective, Zenon
<1>7. Len(ClaimantsOf(w)) = Cardinality(names(w)) /\ IsFiniteSet(names(w))
  BY <1>1, <1>4, <1>6
<1>8. Len(ClaimantsOf(l)) = Cardinality(names(l))
  BY <1>4, <1>6
<1>9. Cardinality(names(l)) <= Cardinality(names(w))
  <2>1. names(l) \in SUBSET names(w)
    BY <1>3
  <2> QED BY <1>7, <2>1, FS_Subset
<1> QED BY <1>3, <1>4, <1>5, <1>7, <1>8, <1>9 DEF w

\* A clean demo table is refused for a clash with the names the program brings
\* along, or for its size, and for nothing else.
THEOREM CleanTablesAccepted == GenSpec => []CleanTablesAreAccepted
<1>1. GenInv => CleanTablesAreAccepted
  <2> SUFFICES ASSUME GenInv, pc = "panicked", CollisionCount(demo) = 0,
                      ZZ \notin demo.hatch.reserved,
                      ~ \E i \in DOMAIN demo.rungs :
                          demo.rungs[i].claimant = Rogue /\ ZZ \in demo.rungs[i].triggers,
                      Probe \notin Named(demo),
                      ~(Cardinality(Range(Claimants(demo)) \cup {Rogue}) > MaxClaimants)
               PROVE  FALSE
    BY DEF CleanTablesAreAccepted
  <2>1. demo \in Ladder /\ IsFiniteSet(Named(demo))
    BY TablesOfARun DEF GenInv
  <2>2. CollisionCount(WithRogue(demo)) = 1
    BY <2>1, RogueCollision
  <2>3. PICK l \in {demo, WithRogue(demo)} : Len(ClaimantsOf(l)) > MaxClaimants \/ Probe \in Named(l)
    BY <2>2 DEF GenInv, PanicInv
  <2>4. Probe \notin Named(l)
    BY <2>1, <2>3, WithRogueNames
  <2>5. Len(ClaimantsOf(l)) \in Nat
    BY <2>1, <2>3, WithRogueShape, ClaimantsOfIsAList
  <2>6. /\ Len(ClaimantsOf(l)) <= Cardinality(Range(Claimants(demo)) \cup {Rogue})
        /\ Cardinality(Range(Claimants(demo)) \cup {Rogue}) \in Nat
    <3>1. Len(ClaimantsOf(WithRogue(demo))) \in Nat
      BY <2>1, WithRogueShape, ClaimantsOfIsAList
    <3> DEFINE c == Cardinality(Range(Claimants(demo)) \cup {Rogue})
    <3>2. Len(ClaimantsOf(demo)) <= c /\ Len(ClaimantsOf(WithRogue(demo))) = c
      BY <2>1, SizeOfTheWalk
    <3> HIDE DEF c
    <3> QED BY <2>3, <3>1, <3>2 DEF c
  <2> QED BY <2>3, <2>4, <2>5, <2>6
<1> QED BY <1>1, GenInvariant, PTL

\* In a table without collisions the order of the branches decides nothing.
LEMMA CleanHidesTheOrder ==
  ASSUME NEW l \in Ladder, IsFiniteSet(Named(l)), CollisionCount(l) = 0, NEW t, NEW s
  PROVE  HatchLast(l, t, s) = Resolve(l, t, s)
<1>1. ASSUME HatchFires(l, t, s)
      PROVE  Owners(l, t, s) = {}
  <2>1. \A i \in DOMAIN l.rungs : t \notin l.rungs[i].triggers
    BY <1>1, CountsOfCollisions, CleanRungs DEF HatchFires
  <2> QED BY <2>1 DEF Owners, Owns
<1> QED BY <1>1 DEF HatchLast, Resolve

\* The tables of the two grids when both are done.
LEMMA WrittenGrids ==
  ASSUME GenInv, pc = "written"
  PROVE  /\ DOMAIN grids = {1, 2} /\ TableOf(1) = demo /\ TableOf(2) = WithRogue(demo)
         /\ demo \in Ladder /\ IsFiniteSet(Named(demo))
         /\ CollisionCount(demo) = 0 /\ CollisionCount(WithRogue(demo)) = 1
<1>1. Len(grids) = 2 /\ rogue = WithRogue(demo) /\ CollisionCount(demo) = 0
      /\ CollisionCount(rogue) = 1 /\ grids \in Seq(GridRecord)
  BY DEF GenInv, PhaseInv
<1>2. DOMAIN grids = {1, 2}
  BY <1>1
<1> QED BY <1>1, <1>2, TablesOfARun DEF GenInv, TableOf

\* An input of the hostile table, of the rogue alone.
LEMMA RogueInput ==
  ASSUME NEW l \in Ladder, IsFiniteSet(Named(l)), NEW t \in {Min(l.hatch.reserved), ZZ},
         NEW b \in BOOLEAN
  PROVE  <<t, [claiming |-> {Rogue}, work_running |-> b]>> \in Inputs(WithRogue(l))
<1> DEFINE w == WithRogue(l)
<1>1. w \in Ladder /\ IsFiniteSet(Named(w)) /\ ZZ \in Named(w) /\ Named(l) \subseteq Named(w)
  BY WithRogueShape, WithRogueNames
<1>2. Min(l.hatch.reserved) \in Named(l)
  BY WithRogueShape DEF Named
<1>3. Rogue \in Range(ClaimantsOf(w))
  BY SizeOfTheWalk
<1>4. t \in Range(TriggersOf(w))
  BY <1>1, <1>2, TriggersOfNamesAll
<1> QED BY <1>3, <1>4 DEF Inputs

\* The rogue rung owns its two triggers whenever it is live, above all others.
LEMMA RogueOwns ==
  ASSUME NEW l \in Ladder, NEW t \in {Min(l.hatch.reserved), ZZ}, NEW s, Rogue \in s.claiming
  PROVE  LET w == WithRogue(l)
         IN  /\ Owners(w, t, s) # {} /\ Min(Owners(w, t, s)) = 1
             /\ w.rungs[1] = RogueRung(Min(l.hatch.reserved)) /\ w.hatch = l.hatch
<1> DEFINE w == WithRogue(l)
           owners == Owners(w, t, s)
<1>1. /\ w \in Ladder /\ w.hatch = l.hatch /\ Len(w.rungs) = Len(l.rungs) + 1
      /\ w.rungs[1] = RogueRung(Min(l.hatch.reserved))
      /\ w.rungs[1].claimant = Rogue /\ w.rungs[1].triggers = {Min(l.hatch.reserved), ZZ}
  BY WithRogueShape
<1> HIDE DEF w
<1>2. 1 \in DOMAIN w.rungs /\ DOMAIN w.rungs \subseteq Nat \ {0}
  BY <1>1, RungsAreRungs
<1>3. 1 \in owners /\ owners \subseteq Nat \ {0}
  BY <1>1, <1>2 DEF Owners, Owns
<1> HIDE DEF owners
<1>4. Min(owners) \in owners /\ Min(owners) <= 1
  BY <1>3, MinExists
<1>5. Min(owners) = 1
  <2> DEFINE m == Min(owners)
  <2>1. m \in Nat \ {0} /\ m <= 1
    BY <1>3, <1>4
  <2> HIDE DEF m
  <2>2. m = 1
    BY <2>1
  <2> QED BY <2>2 DEF m
<1> QED BY <1>1, <1>3, <1>5 DEF w, owners

\* What a case says of the change that puts the hatch branch last.
LEMMA CaseExposes ==
  ASSUME NEW l, Printable(l), NEW recorded, Enumerates(recorded, l), NEW i \in DOMAIN recorded
  PROVE  \E x \in Inputs(l) :
           /\ recorded[i].trigger = x[1]
           /\ [claiming |-> recorded[i].claiming, work_running |-> recorded[i].work_running] = x[2]
           /\ recorded[i].claiming = x[2].claiming
           /\ recorded[i].work_running = x[2].work_running
           /\ recorded[i].verdict = VerdictRec(Resolve(l, x[1], x[2]))
<1>1. PICK x \in Inputs(l) :
        /\ recorded[i].trigger = x[1] /\ recorded[i].claiming = x[2].claiming
        /\ recorded[i].work_running = x[2].work_running
        /\ recorded[i].verdict = VerdictRec(Resolve(l, x[1], x[2]))
  BY CasesAreOfInputs
<1>2. x[2] = [claiming |-> x[2].claiming, work_running |-> x[2].work_running]
  BY InputsAreInputs
<1>3. [claiming |-> recorded[i].claiming, work_running |-> recorded[i].work_running] = x[2]
  BY <1>1, <1>2, Zenon
<1> QED BY <1>1, <1>3, Zenon

\* The demo grid shows nothing of the order of the branches.
LEMMA DemoGridIsSilent ==
  ASSUME GenInv, pc = "written"
  PROVE  ~Exposes(1)
<1>1. /\ 1 \in DOMAIN grids /\ TableOf(1) = demo /\ demo \in Ladder /\ IsFiniteSet(Named(demo))
      /\ CollisionCount(demo) = 0
  BY WrittenGrids
<1>2. Printable(demo) /\ Enumerates(grids[1].cases, demo)
  BY <1>1, GridsThatAreDone
<1>3. ASSUME NEW i \in DOMAIN grids[1].cases
      PROVE  grids[1].cases[i].verdict
               = VerdictRec(HatchLast(demo, grids[1].cases[i].trigger,
                   [claiming |-> grids[1].cases[i].claiming,
                    work_running |-> grids[1].cases[i].work_running]))
  <2> DEFINE recorded == grids[1].cases
  <2>1. PICK x \in Inputs(demo) :
           /\ recorded[i].trigger = x[1]
           /\ [claiming |-> recorded[i].claiming, work_running |-> recorded[i].work_running] = x[2]
           /\ recorded[i].verdict = VerdictRec(Resolve(demo, x[1], x[2]))
    BY <1>2, CaseExposes
  <2>2. HatchLast(demo, x[1], x[2]) = Resolve(demo, x[1], x[2])
    BY <1>1, CleanHidesTheOrder
  <2> QED BY <2>1, <2>2, Zenon
<1> QED BY <1>1, <1>3, Zenon DEF Exposes

\* The hostile grid shows it: at work, the hatch fires on the least reserved
\* trigger, and after the change the rogue rung would have answered.
LEMMA RogueGridSpeaks ==
  ASSUME GenInv, pc = "written"
  PROVE  Exposes(2)
<1> DEFINE w == WithRogue(demo)
           m == Min(demo.hatch.reserved)
           s == [claiming |-> {Rogue}, work_running |-> TRUE]
           recorded == grids[2].cases
<1>1. /\ 2 \in DOMAIN grids /\ TableOf(2) = w /\ demo \in Ladder /\ IsFiniteSet(Named(demo))
  BY WrittenGrids
<1>2. Printable(w) /\ Enumerates(recorded, w)
  BY <1>1, GridsThatAreDone
<1>3. <<m, s>> \in Inputs(w)
  BY <1>1, RogueInput
<1>4. /\ Owners(w, m, s) # {} /\ Min(Owners(w, m, s)) = 1 /\ w.hatch = demo.hatch
  BY <1>1, RogueOwns
<1>5. m \in demo.hatch.reserved
  BY <1>1, WithRogueShape
<1>6. HatchFires(w, m, s)
  BY <1>4, <1>5 DEF HatchFires
<1> HIDE DEF w, m
<1>7. Resolve(w, m, s) = Escape(w) /\ HatchLast(w, m, s) = Claimed(w.rungs[1])
  BY <1>4, <1>6, Zenon DEF Resolve, HatchLast
<1>8. VerdictRec(Escape(w)) # VerdictRec(Claimed(w.rungs[1]))
  <2>1. VerdictRec(Escape(w)).kind = "Escape" /\ VerdictRec(Claimed(w.rungs[1])).kind = "Claimed"
    BY DEF VerdictRec, Escape, Claimed
  <2> QED BY <2>1
<1> DEFINE x == <<m, s>>
<1>9. PICK i \in DOMAIN recorded :
        /\ recorded[i].trigger = x[1] /\ recorded[i].claiming = x[2].claiming
        /\ recorded[i].work_running = x[2].work_running
        /\ recorded[i].verdict = VerdictRec(Resolve(w, x[1], x[2]))
  <2>1. x \in Inputs(w)
    BY <1>3
  <2> HIDE DEF x, recorded
  <2> QED BY <1>2, <2>1, CasesAreOfInputs
<1>10. /\ recorded[i].trigger = m
       /\ [claiming |-> recorded[i].claiming, work_running |-> recorded[i].work_running] = s
       /\ recorded[i].verdict = VerdictRec(Resolve(w, m, s))
  BY <1>9
<1>11. recorded[i].verdict # VerdictRec(HatchLast(w, recorded[i].trigger,
          [claiming |-> recorded[i].claiming, work_running |-> recorded[i].work_running]))
  BY <1>7, <1>8, <1>10, Zenon
<1> QED BY <1>1, <1>11, Zenon DEF Exposes

\* Why there are two grids, for any tables: the demo table's shows nothing of the
\* order of the branches, the rogue table's always does.
THEOREM RogueGridExposes == GenSpec => []RogueGridExposesTheOrder
<1>1. ASSUME GenInv, pc = "written"
      PROVE  LET wins(c) == c.verdict = VerdictRec(Claimed(RogueRung(Min(demo.hatch.reserved))))
                 tries   == {i \in DOMAIN grids[2].cases :
                               /\ grids[2].cases[i].trigger = ZZ
                               /\ Rogue \in grids[2].cases[i].claiming}
             IN  /\ tries # {}
                 /\ \A i \in tries :
                      \/ wins(grids[2].cases[i])
                      \/ ZZ \in demo.hatch.reserved /\ grids[2].cases[i].work_running
  <2> DEFINE w == WithRogue(demo)
             rung == RogueRung(Min(demo.hatch.reserved))
             recorded == grids[2].cases
             tries == {i \in DOMAIN recorded :
                         recorded[i].trigger = ZZ /\ Rogue \in recorded[i].claiming}
  <2>1. /\ 2 \in DOMAIN grids /\ TableOf(2) = w /\ demo \in Ladder /\ IsFiniteSet(Named(demo))
    BY <1>1, WrittenGrids
  <2>2. Printable(w) /\ Enumerates(recorded, w)
    BY <1>1, <2>1, GridsThatAreDone
  <2> HIDE DEF w, recorded
  <2>3. tries # {}
    <3> DEFINE x == <<ZZ, [claiming |-> {Rogue}, work_running |-> FALSE]>>
    <3>1. x \in Inputs(w)
      BY <2>1, RogueInput DEF w
    <3>2. x[1] = ZZ /\ Rogue \in x[2].claiming
      OBVIOUS
    <3> HIDE DEF x
    <3>3. PICK i \in DOMAIN recorded :
            /\ recorded[i].trigger = x[1] /\ recorded[i].claiming = x[2].claiming
            /\ recorded[i].work_running = x[2].work_running
            /\ recorded[i].verdict = VerdictRec(Resolve(w, x[1], x[2]))
      BY <2>2, <3>1, CasesAreOfInputs
    <3> QED BY <3>2, <3>3
  <2>4. ASSUME NEW i \in tries, ~(ZZ \in demo.hatch.reserved /\ recorded[i].work_running)
        PROVE  recorded[i].verdict = VerdictRec(Claimed(rung))
    <3>1. i \in DOMAIN recorded /\ recorded[i].trigger = ZZ /\ Rogue \in recorded[i].claiming
      OBVIOUS
    <3>2. PICK x \in Inputs(w) :
            /\ recorded[i].trigger = x[1] /\ recorded[i].claiming = x[2].claiming
            /\ recorded[i].work_running = x[2].work_running
            /\ recorded[i].verdict = VerdictRec(Resolve(w, x[1], x[2]))
      BY <2>2, <3>1, CasesAreOfInputs
    <3>3. /\ Owners(w, x[1], x[2]) # {} /\ Min(Owners(w, x[1], x[2])) = 1
          /\ w.rungs[1] = rung /\ w.hatch = demo.hatch
      BY <2>1, <3>1, <3>2, RogueOwns DEF w
    <3>4. ~HatchFires(w, x[1], x[2])
      BY <2>4, <3>1, <3>2, <3>3 DEF HatchFires
    <3> HIDE DEF rung
    <3>5. Resolve(w, x[1], x[2]) = Claimed(rung)
      BY <3>3, <3>4, Zenon DEF Resolve
    <3> QED BY <3>2, <3>5
  <2> QED BY <2>3, <2>4, Zenon DEF recorded
<1>2. GenInv => RogueGridExposesTheOrder
  BY <1>1, DemoGridIsSilent, RogueGridSpeaks, Zenon DEF RogueGridExposesTheOrder
<1> QED BY <1>2, GenInvariant, PTL

-----------------------------------------------------------------------------
(* What Lean is asked to prove of the vectors.                             *)

\* The table with its rungs in reverse order.
Reversed(l) == WithRungs(l, Reverse(l.rungs))

\* The reversed table is a table, and its rungs are those from the other end.
LEMMA ReversedShape ==
  ASSUME NEW l \in Ladder
  PROVE  /\ Reversed(l) \in Ladder /\ Reversed(l).hatch = l.hatch
         /\ Reversed(l).fallthrough = l.fallthrough
         /\ DOMAIN Reversed(l).rungs = DOMAIN l.rungs
         /\ \A i \in DOMAIN l.rungs :
              /\ Len(l.rungs) - i + 1 \in DOMAIN l.rungs
              /\ Reversed(l).rungs[i] = l.rungs[Len(l.rungs) - i + 1]
<1> DEFINE n == Len(l.rungs)
<1>1. n \in Nat /\ DOMAIN l.rungs = 1 .. n /\ \A i \in 1 .. n : l.rungs[i] \in Rung
  BY RungsAreRungs
<1>2. l.hatch \in Hatch /\ l.fallthrough \in SUBSET Trigger
  BY DEF Ladder
<1>3. Reverse(l.rungs) = [i \in 1 .. n |-> l.rungs[(n - i) + 1]]
  BY DEF Reverse
<1> HIDE DEF n
<1>4. \A i \in 1 .. n : n - i + 1 \in 1 .. n
  BY <1>1
<1>5. [i \in 1 .. n |-> l.rungs[(n - i) + 1]] \in Seq(Rung)
  <2>1. [i \in 1 .. n |-> l.rungs[(n - i) + 1]] \in [1 .. n -> Rung]
    BY <1>1, <1>4
  <2> QED BY <1>1, <2>1, SeqDef
<1>6. Reversed(l) = [hatch |-> l.hatch, rungs |-> Reverse(l.rungs), fallthrough |-> l.fallthrough]
  BY DEF Reversed, WithRungs, NewLadder
<1>7. Reversed(l) \in Ladder
  BY <1>2, <1>3, <1>5, <1>6 DEF Ladder
<1>8. Reversed(l).rungs = [i \in 1 .. n |-> l.rungs[(n - i) + 1]]
  BY <1>3, <1>6
<1>9. Reversed(l).hatch = l.hatch /\ Reversed(l).fallthrough = l.fallthrough
  BY <1>6
<1> QED BY <1>1, <1>4, <1>7, <1>8, <1>9 DEF n

\* In the reversed table the first owner is the last one of the table.
LEMMA LastOwnerAnswers ==
  ASSUME NEW l \in Ladder, NEW t, NEW s
  PROVE  /\ Owners(Reversed(l), t, s) = {} <=> Owners(l, t, s) = {}
         /\ Owners(l, t, s) # {} =>
              \E k \in Owners(l, t, s) :
                /\ \A i \in Owners(l, t, s) : i <= k
                /\ Reversed(l).rungs[Min(Owners(Reversed(l), t, s))] = l.rungs[k]
<1> DEFINE n == Len(l.rungs)
           here == Owners(l, t, s)
           there == Owners(Reversed(l), t, s)
           r == Reversed(l)
<1>1. n \in Nat /\ DOMAIN l.rungs = 1 .. n
  BY RungsAreRungs
<1>2. DOMAIN r.rungs = 1 .. n /\ \A i \in 1 .. n : n - i + 1 \in 1 .. n /\ r.rungs[i] = l.rungs[n - i + 1]
  BY <1>1, ReversedShape
<1> HIDE DEF n, r
<1>3. here = {i \in 1 .. n : Owns(l.rungs[i], t, s)} /\ there = {i \in 1 .. n : Owns(r.rungs[i], t, s)}
  BY <1>1, <1>2 DEF Owners, r
<1>4. ASSUME NEW i \in 1 .. n
      PROVE  /\ n - i + 1 \in 1 .. n /\ n - (n - i + 1) + 1 = i
             /\ i \in there <=> n - i + 1 \in here
             /\ i \in here <=> n - i + 1 \in there
  <2>1. n - i + 1 \in 1 .. n /\ n - (n - i + 1) + 1 = i
    BY <1>1
  <2>2. r.rungs[i] = l.rungs[n - i + 1] /\ r.rungs[n - i + 1] = l.rungs[i]
    BY <1>2, <2>1
  <2> QED BY <1>3, <2>1, <2>2
<1> HIDE DEF here, there
<1>5. here \subseteq 1 .. n /\ there \subseteq 1 .. n
  BY <1>3
<1>6. there = {} <=> here = {}
  BY <1>4, <1>5
<1>7. ASSUME here # {}
      PROVE  \E k \in here : (\A i \in here : i <= k) /\ r.rungs[Min(there)] = l.rungs[k]
  <2> DEFINE m == Min(there)
  <2>1. there # {} /\ there \subseteq Nat
    <3>1. 1 .. n \subseteq Nat
      BY <1>1
    <3>2. there # {}
      BY <1>6, <1>7, Zenon
    <3> QED BY <1>5, <3>1, <3>2
  <2>2. m \in there /\ \A i \in there : m <= i
    BY <2>1, MinExists
  <2> HIDE DEF m
  <2>3. m \in 1 .. n /\ n - m + 1 \in here /\ r.rungs[m] = l.rungs[n - m + 1]
    BY <1>2, <1>4, <1>5, <2>2
  <2>4. ASSUME NEW i \in here
        PROVE  i <= n - m + 1
    <3>1. i \in 1 .. n /\ n - i + 1 \in there
      BY <1>4, <1>5
    <3>2. m <= n - i + 1
      BY <2>2, <3>1
    <3> QED BY <1>1, <2>3, <3>1, <3>2
  <2> QED BY <2>3, <2>4 DEF m
<1> QED BY <1>6, <1>7 DEF here, there, r

\* Reversing a table changes no answer if no two rungs list a common trigger.
LEMMA ReversalIsNoChange ==
  ASSUME NEW l \in Ladder, NEW t, NEW s,
         \A i, j \in DOMAIN l.rungs : i < j => l.rungs[i].triggers \cap l.rungs[j].triggers = {}
  PROVE  Resolve(Reversed(l), t, s) = Resolve(l, t, s)
<1> DEFINE here == Owners(l, t, s)
           there == Owners(Reversed(l), t, s)
           r == Reversed(l)
<1>1. r.hatch = l.hatch /\ r.fallthrough = l.fallthrough
  BY ReversedShape
<1>2. /\ HatchFires(r, t, s) <=> HatchFires(l, t, s)
      /\ FallsThrough(r, t, s) <=> FallsThrough(l, t, s)
      /\ Escape(r) = Escape(l)
  BY <1>1, Zenon DEF HatchFires, FallsThrough, Escape
<1>3. there = {} <=> here = {}
  BY LastOwnerAnswers
<1>4. ASSUME here # {}
      PROVE  r.rungs[Min(there)] = l.rungs[Min(here)]
  <2>1. PICK k \in here : r.rungs[Min(there)] = l.rungs[k]
    BY <1>4, LastOwnerAnswers
  <2>2. here \subseteq DOMAIN l.rungs /\ here \subseteq Nat
    BY RungsAreRungs DEF Owners
  <2>3. Min(here) \in here /\ Min(here) <= k
    BY <1>4, <2>2, MinExists
  <2>4. t \in l.rungs[Min(here)].triggers /\ t \in l.rungs[k].triggers
    BY <2>3 DEF Owners, Owns
  <2> DEFINE m == Min(here)
  <2>5. m \in DOMAIN l.rungs /\ k \in DOMAIN l.rungs /\ m \in Nat /\ k \in Nat /\ m <= k
    BY <2>2, <2>3
  <2>6. ~(m < k)
    BY <2>4, <2>5
  <2> HIDE DEF m
  <2>7. m = k
    BY <2>5, <2>6
  <2> QED BY <2>1, <2>7 DEF m
<1> HIDE DEF here, there, r
<1>5. Resolve(r, t, s) = IF HatchFires(r, t, s) THEN Escape(r)
                         ELSE IF there # {} THEN Claimed(r.rungs[Min(there)])
                         ELSE IF FallsThrough(r, t, s) THEN Escape(r) ELSE Unbound
  BY DEF Resolve, there, r
<1>6. Resolve(l, t, s) = IF HatchFires(l, t, s) THEN Escape(l)
                         ELSE IF here # {} THEN Claimed(l.rungs[Min(here)])
                         ELSE IF FallsThrough(l, t, s) THEN Escape(l) ELSE Unbound
  BY DEF Resolve, here
<1> QED BY <1>2, <1>3, <1>4, <1>5, <1>6 DEF r

\* Two rungs that list a common trigger are told apart by the order, in a table
\* without repeated rows: with both claimants live the upper one answers, and
\* the lower one once the table is reversed.
LEMMA ReversalIsAChange ==
  ASSUME NEW l, Printable(l), RepeatedPairs(l) = {},
         NEW i \in DOMAIN l.rungs, NEW j \in DOMAIN l.rungs, i < j,
         l.rungs[i].triggers \cap l.rungs[j].triggers # {}
  PROVE  \E x \in Inputs(l) : Resolve(Reversed(l), x[1], x[2]) # Resolve(l, x[1], x[2])
<1>1. l \in Ladder /\ IsFiniteSet(Named(l))
  BY DEF Printable
<1>2. PICK t \in Trigger : t \in l.rungs[i].triggers /\ t \in l.rungs[j].triggers
  BY <1>1, RungsAreRungs
<1> DEFINE names == {l.rungs[k].claimant : k \in DOMAIN l.rungs}
           s == [claiming |-> names, work_running |-> FALSE]
           here == Owners(l, t, s)
           there == Owners(Reversed(l), t, s)
<1>3. <<t, s>> \in Inputs(l)
  <2>1. t \in Range(TriggersOf(l))
    BY <1>1, <1>2, TriggersOfNamesAll DEF Named
  <2>2. names \in SUBSET Range(ClaimantsOf(l))
    BY <1>1, ClaimantsOfNamesAll
  <2> QED BY <2>1, <2>2 DEF Inputs
<1>4. i \in here /\ j \in here
  BY <1>2 DEF Owners, Owns
<1>5. here \subseteq DOMAIN l.rungs /\ here \subseteq Nat
  BY <1>1, RungsAreRungs DEF Owners
<1>6. \A k \in here : t \in l.rungs[k].triggers
  BY DEF Owners, Owns
<1>7. ~HatchFires(l, t, s) /\ ~HatchFires(Reversed(l), t, s)
  BY DEF HatchFires
<1> HIDE DEF s
<1>8. PICK k \in here : (\A o \in here : o <= k) /\ Reversed(l).rungs[Min(there)] = l.rungs[k]
  BY <1>1, <1>4, LastOwnerAnswers
<1>9. there # {}
  BY <1>1, <1>4, LastOwnerAnswers
<1> HIDE DEF here, there
<1>10. Min(here) \in here /\ \A o \in here : Min(here) <= o
  BY <1>4, <1>5, MinExists
<1>11. Min(here) # k
  <2> DEFINE m == Min(here)
  <2>1. m <= i /\ j <= k /\ m \in Nat /\ k \in Nat /\ i \in Nat /\ j \in Nat
    BY <1>4, <1>5, <1>8, <1>10
  <2> HIDE DEF m
  <2>2. m # k
    BY <2>1
  <2> QED BY <2>2 DEF m
<1>12. l.rungs[Min(here)].claimant # l.rungs[k].claimant
  <2>1. /\ Min(here) \in DOMAIN l.rungs /\ k \in DOMAIN l.rungs
        /\ l.rungs[Min(here)].triggers \cap l.rungs[k].triggers # {}
    BY <1>5, <1>6, <1>8, <1>10
  <2> QED BY <1>1, <1>11, <2>1, CleanRungs
<1>13. Resolve(l, t, s) = Claimed(l.rungs[Min(here)])
  BY <1>4, <1>7 DEF Resolve, here
<1>14. Resolve(Reversed(l), t, s) = Claimed(l.rungs[k])
  BY <1>7, <1>8, <1>9, Zenon DEF Resolve, there
<1>15. Claimed(l.rungs[Min(here)]) # Claimed(l.rungs[k])
  <2>1. Claimed(l.rungs[Min(here)]).claimant = l.rungs[Min(here)].claimant
        /\ Claimed(l.rungs[k]).claimant = l.rungs[k].claimant
    BY DEF Claimed
  <2> QED BY <1>12, <2>1
<1>16. Resolve(Reversed(l), t, s) # Resolve(l, t, s)
  BY <1>13, <1>14, <1>15
<1> QED BY <1>3, <1>16

\* The situation, trigger and verdict of a case, as Lean reads them.
LEMMA LeanCases ==
  ASSUME NEW l, Printable(l), NEW recorded, Enumerates(recorded, l),
         NEW lean, lean = LeanGrid(Grid(l, ClaimantsOf(l), TriggersOf(l), recorded))
  PROVE  /\ lean.ladder = l /\ lean.reversed = Reversed(l) /\ lean.distribution = Tally(recorded)
         /\ DOMAIN lean.cases = DOMAIN recorded
         /\ \A i \in DOMAIN recorded : \E x \in Inputs(l) :
              /\ lean.cases[i].trigger = x[1] /\ lean.cases[i].situation = x[2]
              /\ lean.cases[i].expected = Resolve(l, x[1], x[2])
              /\ recorded[i].verdict.kind = Resolve(l, x[1], x[2]).kind
         /\ \A x \in Inputs(l) : \E i \in DOMAIN recorded :
              lean.cases[i].trigger = x[1] /\ lean.cases[i].situation = x[2]
<1> DEFINE g == Grid(l, ClaimantsOf(l), TriggersOf(l), recorded)
           row(i) == [situation |-> [claiming |-> recorded[i].claiming,
                                     work_running |-> recorded[i].work_running],
                      trigger |-> recorded[i].trigger,
                      expected |-> LeanVerdict(recorded[i].verdict)]
<1>1. g.ladder = l /\ g.cases = recorded
  BY DEF Grid
<1> HIDE DEF g
<1>2. /\ lean.ladder = l /\ lean.reversed = Reversed(l) /\ lean.distribution = Tally(recorded)
      /\ lean.cases = [i \in DOMAIN recorded |-> row(i)]
  BY <1>1 DEF LeanGrid, Reversed, g
<1>3. ASSUME NEW i \in DOMAIN recorded
      PROVE  /\ lean.cases[i].trigger = recorded[i].trigger
             /\ lean.cases[i].situation = [claiming |-> recorded[i].claiming,
                                           work_running |-> recorded[i].work_running]
             /\ lean.cases[i].expected = LeanVerdict(recorded[i].verdict)
  BY <1>2
<1>4. ASSUME NEW x \in Inputs(l)
      PROVE  /\ LeanVerdict(VerdictRec(Resolve(l, x[1], x[2]))) = Resolve(l, x[1], x[2])
             /\ VerdictRec(Resolve(l, x[1], x[2])).kind = Resolve(l, x[1], x[2]).kind
             /\ x[2] = [claiming |-> x[2].claiming, work_running |-> x[2].work_running]
  <2>1. Answer("resolve", l, x[1], x[2]) \in Verdict
    BY AnswerIsAVerdict DEF Printable
  <2>2. Resolve(l, x[1], x[2]) \in Verdict
    BY <2>1 DEF Answer
  <2> QED BY <2>2, InputsAreInputs, VerdictsReadBack DEF VerdictRec
<1>5. ASSUME NEW i \in DOMAIN recorded
      PROVE  \E x \in Inputs(l) :
               /\ lean.cases[i].trigger = x[1] /\ lean.cases[i].situation = x[2]
               /\ lean.cases[i].expected = Resolve(l, x[1], x[2])
               /\ recorded[i].verdict.kind = Resolve(l, x[1], x[2]).kind
  <2>1. PICK x \in Inputs(l) :
          /\ recorded[i].trigger = x[1] /\ recorded[i].claiming = x[2].claiming
          /\ recorded[i].work_running = x[2].work_running
          /\ recorded[i].verdict = VerdictRec(Resolve(l, x[1], x[2]))
    BY CasesAreOfInputs
  <2>2. lean.cases[i].situation = x[2]
    BY <1>3, <1>4, <2>1, Zenon
  <2>3. lean.cases[i].trigger = x[1]
    BY <1>3, <2>1, Zenon
  <2>4. recorded[i].verdict.kind = Resolve(l, x[1], x[2]).kind
    BY <1>4, <2>1, Zenon
  <2>5. lean.cases[i].expected = LeanVerdict(recorded[i].verdict)
    BY <1>3, Zenon
  <2>6. LeanVerdict(VerdictRec(Resolve(l, x[1], x[2]))) = Resolve(l, x[1], x[2])
    BY <1>4, Zenon
  <2>7. lean.cases[i].expected = Resolve(l, x[1], x[2])
    BY <2>1, <2>5, <2>6, Zenon
  <2> QED BY <2>2, <2>3, <2>4, <2>7
<1>6. ASSUME NEW x \in Inputs(l)
      PROVE  \E i \in DOMAIN recorded :
               lean.cases[i].trigger = x[1] /\ lean.cases[i].situation = x[2]
  <2>1. PICK i \in DOMAIN recorded :
          /\ recorded[i].trigger = x[1] /\ recorded[i].claiming = x[2].claiming
          /\ recorded[i].work_running = x[2].work_running
          /\ recorded[i].verdict = VerdictRec(Resolve(l, x[1], x[2]))
    BY CasesAreOfInputs
  <2>2. lean.cases[i].situation = x[2]
    BY <1>3, <1>4, <2>1, Zenon
  <2>3. lean.cases[i].trigger = x[1]
    BY <1>3, <2>1, Zenon
  <2> QED BY <2>2, <2>3
<1>7. DOMAIN lean.cases = DOMAIN recorded
  BY <1>2
<1> QED BY <1>2, <1>5, <1>6, <1>7, Zenon

\* The theorems Lean is asked for: the vectors agree and are as many as they are
\* said to be, always; and reversing the table changes an answer exactly when it
\* does so at an input of the grid.
LEMMA LeanDecides ==
  ASSUME NEW l, Printable(l), NEW recorded, Enumerates(recorded, l),
         NEW lean, lean = LeanGrid(Grid(l, ClaimantsOf(l), TriggersOf(l), recorded))
  PROVE  /\ VectorsAgree("resolve", lean) /\ VerdictDistribution("resolve", lean)
         /\ OrderIsLoadBearing("resolve", lean)
              <=> \E x \in Inputs(l) : Resolve(Reversed(l), x[1], x[2]) # Resolve(l, x[1], x[2])
<1> DEFINE D == DOMAIN recorded
           model(k, i) == ModelAnswer("resolve", k, lean.cases[i].trigger, lean.cases[i].situation)
<1>1. /\ lean.ladder = l /\ lean.reversed = Reversed(l) /\ lean.distribution = Tally(recorded)
      /\ DOMAIN lean.cases = D
  BY LeanCases
<1>2. \A i \in D : \E x \in Inputs(l) :
        /\ lean.cases[i].trigger = x[1] /\ lean.cases[i].situation = x[2]
        /\ lean.cases[i].expected = Resolve(l, x[1], x[2])
        /\ recorded[i].verdict.kind = Resolve(l, x[1], x[2]).kind
  BY LeanCases
<1>3. \A x \in Inputs(l) : \E i \in D :
        lean.cases[i].trigger = x[1] /\ lean.cases[i].situation = x[2]
  BY LeanCases
<1>4. l \in Ladder /\ Reversed(l) \in Ladder
  BY ReversedShape DEF Printable
<1>5. ASSUME NEW k \in Ladder, NEW t, NEW s
      PROVE  ModelAnswer("resolve", k, t, s) = Resolve(k, t, s)
  BY ModelAnswersAsCode DEF Answer
<1>6. \A k : Outcomes("resolve", k, lean.cases) = [i \in D |-> model(k, i)]
  BY <1>1 DEF Outcomes
<1>7. ASSUME NEW i \in D
      PROVE  model(l, i) = lean.cases[i].expected /\ recorded[i].verdict.kind = model(l, i).kind
  <2>1. PICK x \in Inputs(l) :
          /\ lean.cases[i].trigger = x[1] /\ lean.cases[i].situation = x[2]
          /\ lean.cases[i].expected = Resolve(l, x[1], x[2])
          /\ recorded[i].verdict.kind = Resolve(l, x[1], x[2]).kind
    BY <1>2
  <2>2. model(l, i) = Resolve(l, x[1], x[2])
    BY <1>4, <1>5, <2>1, Zenon
  <2> QED BY <2>1, <2>2
<1>8. ASSUME NEW i \in D
      PROVE  \E x \in Inputs(l) : /\ model(l, i) = Resolve(l, x[1], x[2])
                                  /\ model(Reversed(l), i) = Resolve(Reversed(l), x[1], x[2])
  <2>1. PICK x \in Inputs(l) : lean.cases[i].trigger = x[1] /\ lean.cases[i].situation = x[2]
    BY <1>2
  <2>2. model(l, i) = Resolve(l, x[1], x[2])
    BY <1>4, <1>5, <2>1, Zenon
  <2>3. model(Reversed(l), i) = Resolve(Reversed(l), x[1], x[2])
    BY <1>4, <1>5, <2>1, Zenon
  <2> QED BY <2>2, <2>3
<1>9. ASSUME NEW x \in Inputs(l)
      PROVE  \E i \in D : /\ model(l, i) = Resolve(l, x[1], x[2])
                          /\ model(Reversed(l), i) = Resolve(Reversed(l), x[1], x[2])
  <2>1. PICK i \in D : lean.cases[i].trigger = x[1] /\ lean.cases[i].situation = x[2]
    BY <1>3
  <2>2. model(l, i) = Resolve(l, x[1], x[2])
    BY <1>4, <1>5, <2>1, Zenon
  <2>3. model(Reversed(l), i) = Resolve(Reversed(l), x[1], x[2])
    BY <1>4, <1>5, <2>1, Zenon
  <2> QED BY <2>2, <2>3
<1> HIDE DEF model
<1>10. VectorsAgree("resolve", lean)
  <2>1. [i \in D |-> model(l, i)] = [i \in D |-> lean.cases[i].expected]
    BY <1>7
  <2> QED BY <1>1, <1>6, <2>1 DEF VectorsAgree
<1>11. VerdictDistribution("resolve", lean)
  <2> DEFINE answers == [i \in D |-> model(l, i)]
  <2>1. \A k : {i \in D : recorded[i].verdict.kind = k} = {i \in DOMAIN answers : answers[i].kind = k}
    BY <1>7
  <2>2. Outcomes("resolve", lean.ladder, lean.cases) = answers
    BY <1>1, <1>6
  <2> HIDE DEF answers
  <2>3. Tally(recorded) = [k \in Kinds |-> Cardinality({i \in DOMAIN answers : answers[i].kind = k})]
    BY <2>1 DEF Tally
  <2> QED BY <1>1, <2>2, <2>3 DEF VerdictDistribution
<1>12. OrderIsLoadBearing("resolve", lean)
         <=> \E i \in D : model(l, i) # model(Reversed(l), i)
  <2> DEFINE down == [i \in D |-> model(l, i)]
             up == [i \in D |-> model(Reversed(l), i)]
  <2>1. down # up <=> \E i \in D : model(l, i) # model(Reversed(l), i)
    OBVIOUS
  <2>2. Outcomes("resolve", lean.ladder, lean.cases) = down
    BY <1>1, <1>6
  <2>3. Outcomes("resolve", lean.reversed, lean.cases) = up
    BY <1>1, <1>6
  <2> HIDE DEF down, up
  <2> QED BY <2>1, <2>2, <2>3, Zenon DEF OrderIsLoadBearing
<1>13. (\E i \in D : model(l, i) # model(Reversed(l), i))
         <=> \E x \in Inputs(l) : Resolve(Reversed(l), x[1], x[2]) # Resolve(l, x[1], x[2])
  BY <1>8, <1>9
<1> QED BY <1>10, <1>11, <1>12, <1>13

\* The theorems generated for Lean hold of exactly the demo tables in which two
\* rungs list a common trigger, and all but the one on the order hold of any.
THEOREM LeanProves == GenSpec => []LeanProvesTablesWithAConflict
<1>1. ASSUME GenInv, pc = "written"
      PROVE  LET lean == Lean(Doc(grids)) IN
             /\ \A g \in DOMAIN lean.grids :
                  /\ VectorsAgree("resolve", lean.grids[g])
                  /\ VerdictDistribution("resolve", lean.grids[g])
             /\ LakeBuild("resolve", lean) <=>
                  \E i, j \in DOMAIN demo.rungs :
                    i < j /\ demo.rungs[i].triggers \cap demo.rungs[j].triggers # {}
  <2> DEFINE lean == Lean(Doc(grids))
             Common(l, i, j) == i < j /\ l.rungs[i].triggers \cap l.rungs[j].triggers # {}
             Changes(l) == \E x \in Inputs(l) : Resolve(Reversed(l), x[1], x[2]) # Resolve(l, x[1], x[2])
  <2>1. /\ DOMAIN grids = {1, 2} /\ TableOf(1) = demo /\ TableOf(2) = WithRogue(demo)
        /\ demo \in Ladder /\ IsFiniteSet(Named(demo))
        /\ CollisionCount(demo) = 0 /\ CollisionCount(WithRogue(demo)) = 1
    BY <1>1, WrittenGrids
  <2>2. DOMAIN lean.grids = {1, 2} /\ \A g \in {1, 2} : lean.grids[g] = LeanGrid(grids[g])
    BY <2>1 DEF Lean, Doc
  <2>3. ASSUME NEW g \in {1, 2}
        PROVE  /\ VectorsAgree("resolve", lean.grids[g]) /\ VerdictDistribution("resolve", lean.grids[g])
               /\ OrderIsLoadBearing("resolve", lean.grids[g]) <=> Changes(TableOf(g))
    <3>1. g \in DOMAIN grids
      BY <2>1
    <3>2. /\ Printable(TableOf(g)) /\ Enumerates(grids[g].cases, TableOf(g))
          /\ grids[g] = Grid(TableOf(g), ClaimantsOf(TableOf(g)), TriggersOf(TableOf(g)), grids[g].cases)
      BY <1>1, <3>1, GridsThatAreDone
    <3>3. lean.grids[g] = LeanGrid(Grid(TableOf(g), ClaimantsOf(TableOf(g)), TriggersOf(TableOf(g)),
                                        grids[g].cases))
      BY <2>2, <3>2
    <3> QED BY <3>2, <3>3, LeanDecides, Zenon
  <2>4. Printable(demo) /\ Printable(WithRogue(demo))
    BY <1>1, <2>1, GridsThatAreDone
  <2>5. ASSUME Changes(demo)
        PROVE  \E i, j \in DOMAIN demo.rungs : Common(demo, i, j)
    BY <2>1, <2>5, ReversalIsNoChange
  <2>6. ASSUME NEW i \in DOMAIN demo.rungs, NEW j \in DOMAIN demo.rungs, Common(demo, i, j)
        PROVE  Changes(demo) /\ Changes(WithRogue(demo))
    <3> DEFINE w == WithRogue(demo)
    <3>1. RepeatedPairs(demo) = {}
      BY <2>1, CountsOfCollisions
    <3>2. RepeatedPairs(w) = {}
      BY <2>1, RogueCollision
    <3>3. i + 1 \in DOMAIN w.rungs /\ j + 1 \in DOMAIN w.rungs
          /\ w.rungs[i + 1] = demo.rungs[i] /\ w.rungs[j + 1] = demo.rungs[j]
      <4>1. /\ Len(w.rungs) = Len(demo.rungs) + 1 /\ w \in Ladder
            /\ \A k \in DOMAIN demo.rungs : w.rungs[k + 1] = demo.rungs[k]
        BY <2>1, WithRogueShape
      <4> HIDE DEF w
      <4>2. /\ DOMAIN w.rungs = 1 .. Len(demo.rungs) + 1 /\ Len(demo.rungs) \in Nat
            /\ DOMAIN demo.rungs = 1 .. Len(demo.rungs)
        BY <2>1, <4>1, RungsAreRungs
      <4> QED BY <4>1, <4>2
    <3>4. i + 1 < j + 1
      BY <2>1, <2>6, RungsAreRungs
    <3>5. Changes(demo)
      BY <2>4, <2>6, <3>1, ReversalIsAChange
    <3> HIDE DEF w
    <3>6. Changes(w)
      BY <2>4, <2>6, <3>2, <3>3, <3>4, ReversalIsAChange DEF w
    <3> QED BY <3>5, <3>6 DEF w
  <2> HIDE DEF lean, Changes
  <2>7. LakeBuild("resolve", lean) <=> Changes(demo) /\ Changes(WithRogue(demo))
    <3>1. LakeBuild("resolve", lean) <=> \A g \in {1, 2} : OrderIsLoadBearing("resolve", lean.grids[g])
      BY <2>2, <2>3, Zenon DEF LakeBuild
    <3>2. /\ OrderIsLoadBearing("resolve", lean.grids[1]) <=> Changes(demo)
          /\ OrderIsLoadBearing("resolve", lean.grids[2]) <=> Changes(WithRogue(demo))
      BY <2>1, <2>3
    <3> QED BY <3>1, <3>2
  <2>8. LakeBuild("resolve", lean) <=> \E i, j \in DOMAIN demo.rungs : Common(demo, i, j)
    BY <2>5, <2>6, <2>7, Zenon
  <2> QED BY <2>2, <2>3, <2>8, Zenon DEF lean
<1>2. GenInv => LeanProvesTablesWithAConflict
  BY <1>1, Zenon DEF LeanProvesTablesWithAConflict
<1> QED BY <1>2, GenInvariant, PTL

-----------------------------------------------------------------------------
(* The generator's walk comes to what the drift check takes it to print.   *)

\* A grid of the walk has the lists and, each once, the cases of the grid of its
\* table under the code.
WalkComesTo(g) ==
  LET l == TableOf(g)
      u == GridUnder("resolve", l)
  IN  /\ grids[g].ladder = u.ladder /\ grids[g].ladder_content_id = u.ladder_content_id
      /\ grids[g].claimants = u.claimants /\ grids[g].triggers = u.triggers
      /\ Range(grids[g].cases) = Range(u.cases)
      /\ \A i, k \in DOMAIN grids[g].cases : grids[g].cases[i] = grids[g].cases[k] => i = k

\* A run of the generator is what the drift check's model takes it to be, which
\* steps over the walk: it prints both grids of a table that is accepted there,
\* and panics over no such table unless its names are over the limit.
RunIsAsTaken ==
  /\ pc = "written" => demo \in Accepted /\ \A g \in {1, 2} : WalkComesTo(g)
  /\ pc = "panicked" =>
       demo \notin Accepted \/ Len(ClaimantsOf(WithRogue(demo))) > MaxClaimants

\* The drift check's model of the generator is right in every reachable state of
\* the generator's own model.
THEOREM RunsAreAsTaken == GenSpec => []RunIsAsTaken
<1>1. ASSUME GenInv, NEW g \in DOMAIN grids
      PROVE  WalkComesTo(g)
  <2> DEFINE l == TableOf(g)
             u == GridUnder("resolve", l)
             recorded == grids[g].cases
  <2>1. Printable(l) /\ Enumerates(recorded, l)
        /\ grids[g] = Grid(l, ClaimantsOf(l), TriggersOf(l), recorded)
    BY <1>1, GridsThatAreDone
  <2> HIDE DEF l
  <2>2. u = Grid(l, ClaimantsOf(l), TriggersOf(l), [x \in Inputs(l) |-> CaseOf(l, x)])
    BY DEF GridUnder, Inputs, CaseOf, Answer
  <2> HIDE DEF recorded, u
  <2>3. /\ grids[g].ladder = u.ladder /\ grids[g].ladder_content_id = u.ladder_content_id
        /\ grids[g].claimants = u.claimants /\ grids[g].triggers = u.triggers
        /\ u.cases = [x \in Inputs(l) |-> CaseOf(l, x)]
    <3>1. \A d, e : LET p == Grid(l, ClaimantsOf(l), TriggersOf(l), d)
                        q == Grid(l, ClaimantsOf(l), TriggersOf(l), e)
                    IN  /\ p.ladder = q.ladder /\ p.ladder_content_id = q.ladder_content_id
                        /\ p.claimants = q.claimants /\ p.triggers = q.triggers
                        /\ q.cases = e
      BY DEF Grid
    <3> QED BY <2>1, <2>2, <3>1, Zenon
  <2>4. Range(u.cases) = {CaseOf(l, x) : x \in Inputs(l)}
    BY <2>3 DEF Range
  <2>5. Range(recorded) = {CaseOf(l, x) : x \in Inputs(l)}
    <3>1. \A i \in DOMAIN recorded : \E x \in Inputs(l) : recorded[i] = CaseOf(l, x)
      BY <2>1 DEF Enumerates
    <3>2. \A x \in Inputs(l) : \E i \in DOMAIN recorded : recorded[i] = CaseOf(l, x)
      BY <2>1 DEF Enumerates
    <3> QED BY <3>1, <3>2, Zenon DEF Range
  <2>6. \A i, k \in DOMAIN recorded : recorded[i] = recorded[k] => i = k
    BY <2>1 DEF Enumerates
  <2> QED BY <2>3, <2>4, <2>5, <2>6, Zenon DEF WalkComesTo, l, u, recorded
<1>2. ASSUME GenInv, pc = "written"
      PROVE  demo \in Accepted /\ \A g \in {1, 2} : WalkComesTo(g)
  <2>1. /\ DOMAIN grids = {1, 2} /\ TableOf(1) = demo /\ CollisionCount(demo) = 0
        /\ CollisionCount(WithRogue(demo)) = 1
    BY <1>2, WrittenGrids
  <2>2. Printable(demo)
    BY <1>2, <2>1, GridsThatAreDone
  <2>3. demo \in Tables
    BY <1>2 DEF GenInv
  <2> QED BY <1>1, <1>2, <2>1, <2>2, <2>3 DEF Accepted, Printable
<1>3. ASSUME GenInv, pc = "panicked", demo \in Accepted
      PROVE  Len(ClaimantsOf(WithRogue(demo))) > MaxClaimants
  <2>1. demo \in Ladder /\ Printable(demo) /\ Printable(WithRogue(demo))
        /\ CollisionCount(demo) = 0 /\ CollisionCount(WithRogue(demo)) = 1
    BY <1>3, AcceptedIsPrintable DEF Accepted, Printable
  <2>2. PICK l \in {demo, WithRogue(demo)} : Len(ClaimantsOf(l)) > MaxClaimants
    BY <1>3, <2>1, Zenon DEF GenInv, PanicInv, Printable
  <2> DEFINE n(k) == Len(ClaimantsOf(k))
  <2>3. n(demo) \in Nat /\ n(WithRogue(demo)) \in Nat /\ n(demo) <= n(WithRogue(demo))
    <3>1. n(demo) \in Nat
      BY <2>1, ClaimantsOfIsAList
    <3>2. n(WithRogue(demo)) \in Nat
      BY <2>1, WithRogueShape, ClaimantsOfIsAList
    <3>3. n(demo) <= n(WithRogue(demo))
      BY <2>1, SizeOfTheWalk, Zenon
    <3> QED BY <3>1, <3>2, <3>3
  <2>4. n(l) > MaxClaimants
    BY <2>2
  <2> HIDE DEF n
  <2>5. n(WithRogue(demo)) > MaxClaimants
    BY <2>2, <2>3, <2>4
  <2> QED BY <2>5 DEF n
<1>4. GenInv => RunIsAsTaken
  BY <1>2, <1>3, Zenon DEF RunIsAsTaken
<1> QED BY <1>4, GenInvariant, PTL
==============================================================================
